---------------------------- MODULE Msd_proofs ----------------------------
(***************************************************************************)
(* For a stick of any size, any disk calls and any sequence of faults.     *)
(*                                                                         *)
(* First, no command starts or ends on what an earlier exchange left       *)
(* behind (CommandsStandAlone of Msd).  The invariant, MsdInv, says for    *)
(* each place of the engine what the stick may be doing there and whose    *)
(* tag it holds.                                                           *)
(*                                                                         *)
(* Then, on top of it, no cell holds another's bytes, a read returns what  *)
(* is there and an acknowledged write stays (OnlyItsOwnBytes).  DataInv    *)
(* says what each cell on its way, in the stick's buffer, in the engine or *)
(* in a descriptor left behind, may bring to the medium.                   *)
(***************************************************************************)
EXTENDS Msd, TLAPS, SequenceTheorems

\* The shapes of the records; their fields hold anything.
StickOK(s) == s \in [ph : {"idle", "in", "out", "status", "lost"}, cmd : {s.cmd}, tag : {s.tag},
                     mine : {s.mine}, buf : {s.buf}, stat : {s.stat}, halts : SUBSET Dirs, tog : {s.tog}]
EdOK(e) == e \in [carry : {e.carry}, halted : {e.halted}, skip : {e.skip}, left : {e.left}]
OpOK(o) == o \in [what : {o.what}, at : {o.at}, len : {o.len}, done : {o.done}, out : {o.out}, cur : {o.cur},
                  up : {o.up}, step : {o.step}, tries : {o.tries}, own : {o.own}, pure : {o.pure},
                  cmd : {o.cmd}, pc : {o.pc}, then : {o.then}, got : {o.got}, sent : {o.sent}]
WireOK(w) == w \in [ans : {w.ans}, stick : {w.stick}, medium : {w.medium}, pkt : {w.pkt}, f : {0, 1}]

IsBusy(s) == s.ph \in {"in", "out", "status"}

\* Tag t is that of one of the last f + 1 commands, the last having tag `last`.
Behind(t, last, f) ==
    t \in 0 .. TagSpace - 1 /\ \E k \in 0 .. f : t = last - k \/ t = last - k + TagSpace

\* Nothing is under way and nothing queued: q is the descriptor left on the
\* OUT endpoint.
Quiet(s, q) == s.ph = "idle" /\ q = NoTd

\* Of a call o in flight, with mid_command m, stick s, descriptor q left on the
\* OUT endpoint, last tag t and f faults so far: a command starts at a stick
\* that holds an older one at most, and during an exchange whatever carries its
\* tag is its own.
InExchange(pc) == pc \in {"data", "csw", "csw2", "clrdata", "clrcsw"}
Placed(o, m, s, q, t, f) ==
    /\ OpOK(o) /\ o.own
    /\ o.pc \in {"attach", "openin", "openout"} => ~o.up
    /\ o.pc \in {"openin", "openout"} => Quiet(s, q)
    /\ o.pc \in {"ret", "refuse"} /\ ~m => Quiet(s, q) /\ s.halts = {}
    /\ o.pc = "cbw" => ~m /\ o.pure /\ (IsBusy(s) => Behind(s.tag, t, f))
    /\ InExchange(o.pc) =>
         /\ m /\ q = NoTd
         /\ IsBusy(s) /\ s.tag = t =>
              s.mine /\ o.pure /\ ("out" \in s.halts => o.pc = "clrdata" /\ o.cmd.kind = "write")
    /\ o.pc \in {"reset", "clrin", "clrout"} =>
         /\ m /\ o.then \in {"cbw", "broken"}
         /\ o.then = "cbw" => o.pure
         /\ o.then = "broken" => q = NoTd /\ (o.pc # "reset" => s.ph = "idle")
                                 /\ (o.pc = "clrout" => "in" \notin s.halts)
         /\ o.pc # "reset" /\ IsBusy(s) => Behind(s.tag, t, f)

Shapes ==
    /\ StickOK(stick) /\ ed = [d \in Dirs |-> ed[d]] /\ \A d \in Dirs : EdOK(ed[d])
    /\ mid \in BOOLEAN /\ tag \in 0 .. TagSpace - 1 /\ usbFaults \in 0 .. MaxUsbFaults

\* A CBW left on the queue belongs to one of the last commands.
LeftIsRecent ==
    ed["out"].left # NoTd /\ "cmd" \in DOMAIN ed["out"].left => Behind(ed["out"].left.tag, tag, usbFaults)

\* With mid_command clear and no call, the stick expects a command.
Resting == Quiet(stick, ed["out"].left) /\ stick.halts = {}

MsdInv ==
    /\ Shapes /\ LeftIsRecent
    /\ mslot = "Ready" /\ ~mid => Resting
    /\ mop # NoOp => mslot = "Busy" /\ Placed(mop, mid, stick, ed["out"].left, tag, usbFaults)

(***************************************************************************)
(* Tags.                                                                   *)
(***************************************************************************)

\* A recent tag stays recent as faults add up.
LEMMA BehindStays ==
    ASSUME NEW t, NEW last, NEW f \in Nat, NEW g \in Nat, f <= g, Behind(t, last, f)
    PROVE  Behind(t, last, g)
BY DEF Behind

\* The last tag is recent.
LEMMA LastIsRecent == ASSUME NEW t \in 0 .. TagSpace - 1, NEW f \in Nat PROVE Behind(t, t, f)
BY MsdAssumption DEF Behind

\* The next tag.
LEMMA NextTag ==
    ASSUME NEW t \in 0 .. TagSpace - 1
    PROVE  /\ (t + 1) % TagSpace = IF t + 1 = TagSpace THEN 0 ELSE t + 1
           /\ (t + 1) % TagSpace \in 0 .. TagSpace - 1
BY MsdAssumption

\* Fewer faults than tags: a recent tag is not the next one, and one more
\* command that a fault ended leaves it recent.
LEMMA NextIsNew ==
    ASSUME NEW t, NEW last \in 0 .. TagSpace - 1, NEW f \in 0 .. MaxUsbFaults, Behind(t, last, f),
           MaxUsbFaults + 1 < TagSpace
    PROVE  t # (last + 1) % TagSpace /\ Behind(t, (last + 1) % TagSpace, f + 1)
<1> DEFINE next == IF last + 1 = TagSpace THEN 0 ELSE last + 1
<1>1. PICK k \in 0 .. f : t = last - k \/ t = last - k + TagSpace
  BY DEF Behind
<1>2. t \in 0 .. TagSpace - 1 /\ TagSpace \in Nat /\ MaxUsbFaults \in Nat
  BY MsdAssumption DEF Behind
<1>3. t # next
  BY <1>1, <1>2
<1>4. (t = next - (k + 1) \/ t = next - (k + 1) + TagSpace) /\ k + 1 \in 0 .. f + 1
  BY <1>1, <1>2
<1>5. Behind(t, next, f + 1)
  BY <1>2, <1>4 DEF Behind
<1> QED
  BY <1>3, <1>5, NextTag

(***************************************************************************)
(* A packet on the wire.                                                   *)
(***************************************************************************)

\* The stick t is s after a packet that begins no command.
Goes(s, t) == StickOK(t) /\ (IsBusy(t) => IsBusy(s) /\ t.tag = s.tag /\ t.mine = s.mine)
\* The stick t has begun the command of packet p.
Begins(s, t, p) ==
    s.ph = "idle" /\ "cmd" \in DOMAIN p /\ StickOK(t) /\ IsBusy(t) /\ t.tag = p.tag /\ "out" \notin t.halts
OutHalted(s, t) == IsBusy(t) /\ "out" \in t.halts => "out" \in s.halts

\* The next states of a stick.
LEMMA LostIs == ASSUME NEW s, StickOK(s) PROVE StickOK(Lost(s)) /\ ~IsBusy(Lost(s))
BY DEF StickOK, IsBusy, Lost, Rested, Dirs
LEMMA EndsIs ==
    ASSUME NEW s, StickOK(s), NEW st
    PROVE  /\ StickOK(Ends(s, st)) /\ Ends(s, st).tag = s.tag /\ Ends(s, st).mine = s.mine
           /\ Ends(s, st).halts = s.halts
BY DEF StickOK, Ends
LEMMA BegunIs ==
    ASSUME NEW s, StickOK(s), NEW p, NEW st
    PROVE  /\ StickOK(Begun(s, p, st)) /\ IsBusy(Begun(s, p, st)) /\ Begun(s, p, st).tag = p.tag
           /\ Begun(s, p, st).halts = s.halts
BY DEF StickOK, IsBusy, Begun

\* The parts of a transaction.
LEMMA WireIs ==
    ASSUME NEW ans, NEW s, NEW m, NEW pkt, NEW f \in {0, 1}
    PROVE  LET w == Wire(ans, s, m, pkt, f) IN WireOK(w) /\ w.ans = ans /\ w.stick = s /\ w.pkt = pkt
BY DEF Wire, WireOK

LEMMA TakesIs ==
    ASSUME NEW s, NEW p, StickOK(s), s.ph \in {"idle", "out"}, "out" \notin s.halts,
           NEW w \in Takes(s, p)
    PROVE  /\ WireOK(w) /\ w.ans \in {"ok", "stall"}
           /\ (Goes(s, w.stick) /\ OutHalted(s, w.stick)) \/ (Begins(s, w.stick, p) /\ w.ans = "ok")
<1>1. CASE s.ph = "idle" /\ "cmd" \in DOMAIN p
  <2>1. CASE \E st, f : f \in {0, 1} /\ w = Wire("ok", Begun(s, p, st), medium, [none |-> TRUE], f)
    <3>1. PICK st, f : f \in {0, 1} /\ w = Wire("ok", Begun(s, p, st), medium, [none |-> TRUE], f)
      BY <2>1
    <3>2. WireOK(w) /\ w.ans = "ok" /\ w.stick = Begun(s, p, st)
      BY <3>1, WireIs
    <3> QED
      BY <1>1, <3>2, BegunIs DEF Begins
  <2>2. CASE w = Wire("stall", Lost(s), medium, [none |-> TRUE], 1)
    <3>1. WireOK(w) /\ w.ans = "stall" /\ w.stick = Lost(s)
      BY <2>2, WireIs
    <3> QED
      BY <3>1, LostIs DEF Goes, OutHalted
  <2> QED
    BY <1>1, <2>1, <2>2 DEF Takes
<1>2. CASE s.ph = "idle" /\ "cmd" \notin DOMAIN p
  <2>1. w = Wire("stall", Lost(s), medium, [none |-> TRUE], 0)
    BY <1>2 DEF Takes
  <2>2. WireOK(w) /\ w.ans = "stall" /\ w.stick = Lost(s)
    BY <2>1, WireIs
  <2> QED
    BY <2>2, LostIs DEF Goes, OutHalted
<1>3. CASE s.ph # "idle"
  <2> DEFINE buf == Append(s.buf, p.cell)
  <2>1. PICK t, m : /\ w = Wire("ok", t, m, [none |-> TRUE], 0)
                    /\ t = [s EXCEPT !.buf = buf] \/ \E st : t = Ends(s, st)
    BY <1>3 DEF Takes
  <2>2. WireOK(w) /\ w.ans = "ok" /\ w.stick = t
    BY <2>1, WireIs
  <2>3. CASE t = [s EXCEPT !.buf = buf]
    <3>1. StickOK(t) /\ t.ph = s.ph /\ t.tag = s.tag /\ t.mine = s.mine /\ t.halts = s.halts
      BY <2>3 DEF StickOK
    <3> QED
      BY <2>2, <3>1 DEF Goes, OutHalted, IsBusy
  <2>4. CASE \E st : t = Ends(s, st)
    BY <1>3, <2>2, <2>4, EndsIs DEF Goes, OutHalted, IsBusy
  <2> QED
    BY <2>1, <2>3, <2>4
<1> QED
  BY <1>1, <1>2, <1>3

\* A bulk-OUT packet.
LEMMA OutIs ==
    ASSUME StickOK(stick), NEW p, NEW w \in Out(p)
    PROVE  /\ WireOK(w) /\ w.ans \in {"ok", "stall", "nak"}
           /\ \/ Goes(stick, w.stick) /\ (w.ans = "stall" \/ OutHalted(stick, w.stick))
              \/ Begins(stick, w.stick, p) /\ w.ans = "ok"
<1> DEFINE s == [stick EXCEPT !.tog["out"] = Flip(@)]
<1>1. StickOK(s) /\ s.ph = stick.ph /\ s.tag = stick.tag /\ s.mine = stick.mine /\ s.halts = stick.halts
  BY DEF StickOK
<1>2. CASE \E ans \in {"ok", "stall", "nak"} : w = Wire(ans, stick, medium, NoPkt, 0)
  <2>1. WireOK(w) /\ w.ans \in {"ok", "stall", "nak"} /\ w.stick = stick
    BY <1>2, WireIs
  <2> QED
    BY <2>1 DEF Goes, OutHalted
<1>3. CASE w = Wire("stall", Lost(stick), medium, NoPkt, 0)
  <2>1. WireOK(w) /\ w.ans = "stall" /\ w.stick = Lost(stick)
    BY <1>3, WireIs
  <2> QED
    BY <2>1, LostIs DEF Goes
<1>4. CASE stick.ph \in {"idle", "out"} /\ "out" \notin stick.halts /\ w \in Takes(s, p)
  <2> HIDE DEF s
  <2>1. /\ WireOK(w) /\ w.ans \in {"ok", "stall"}
        /\ (Goes(s, w.stick) /\ OutHalted(s, w.stick)) \/ (Begins(s, w.stick, p) /\ w.ans = "ok")
    BY <1>1, <1>4, TakesIs
  <2> QED
    BY <1>1, <2>1 DEF Goes, OutHalted, Begins, IsBusy
<1>5. CASE /\ stick.ph = "out"
           /\ \E st : w = Wire("stall", [Ends(stick, st) EXCEPT !.halts = @ \cup {"out"}], medium, NoPkt, 1)
  <2>1. PICK st : w = Wire("stall", [Ends(stick, st) EXCEPT !.halts = @ \cup {"out"}], medium, NoPkt, 1)
    BY <1>5
  <2>2. WireOK(w) /\ w.ans = "stall" /\ w.stick = [Ends(stick, st) EXCEPT !.halts = @ \cup {"out"}]
    BY <2>1, WireIs
  <2>3. StickOK(Ends(stick, st)) /\ Ends(stick, st).tag = stick.tag /\ Ends(stick, st).mine = stick.mine
    BY EndsIs
  <2>4. StickOK(w.stick) /\ w.stick.tag = stick.tag /\ w.stick.mine = stick.mine
    BY <2>2, <2>3 DEF StickOK, Dirs
  <2> QED
    BY <1>5, <2>2, <2>4 DEF Goes, IsBusy
<1> HIDE DEF s
<1> QED
  BY <1>2, <1>3, <1>4, <1>5 DEF Out, StickOK, s

\* A bulk-IN packet: of what a stick that expects a command sends nothing,
\* and a status is that of its command.
LEMMA SendsIs ==
    ASSUME NEW s, StickOK(s), s.ph \in {"in", "status"}, NEW x \in Sends(s)
    PROVE  /\ StickOK(x.s) /\ x.s.halts = s.halts /\ x.f \in {0, 1}
           /\ IsBusy(x.s) => x.s.tag = s.tag /\ x.s.mine = s.mine
           /\ "stat" \in DOMAIN x.pkt => /\ s.ph = "status" /\ x.pkt.tag = s.tag /\ x.pkt.mine = s.mine
                                         /\ x.s.ph = "idle"
           /\ "cell" \in DOMAIN x.pkt => x.pkt.mine = s.mine
<1>1. CASE s.ph = "in"
  <2> DEFINE c == s.cmd
             cell == IF c.kind = "read" THEN medium[c.lba * BlockCells + Len(s.buf)] ELSE 0
             buf == Append(s.buf, cell)
  <2>1. CASE x = [pkt |-> [cell |-> cell, mine |-> s.mine], f |-> 0,
                  s |-> IF Len(buf) = Expect(c) THEN Ends(s, s.stat) ELSE [s EXCEPT !.buf = buf]]
    <3> HIDE DEF cell, buf, c
    <3>1. StickOK(x.s) /\ x.s.halts = s.halts /\ x.s.tag = s.tag /\ x.s.mine = s.mine /\ x.f = 0
      BY <2>1, EndsIs DEF StickOK
    <3>2. x.pkt = [cell |-> cell, mine |-> s.mine]
      BY <2>1
    <3>3. "stat" \notin DOMAIN x.pkt /\ x.pkt.mine = s.mine
      BY <3>2
    <3> QED
      BY <3>1, <3>3
  <2>2. CASE \E st : x = [pkt |-> NoPkt, f |-> 1, s |-> Ends(s, st)]
    <3>1. PICK st : x = [pkt |-> NoPkt, f |-> 1, s |-> Ends(s, st)]
      BY <2>2
    <3>2. "stat" \notin DOMAIN x.pkt /\ "cell" \notin DOMAIN x.pkt
      BY <3>1 DEF NoPkt
    <3> QED
      BY <3>1, <3>2, EndsIs
  <2> HIDE DEF c, cell, buf
  <2> QED
    BY <1>1, <2>1, <2>2 DEF Sends, c, cell, buf
<1>2. CASE s.ph = "status"
  <2>1. x = [pkt |-> [stat |-> s.stat, tag |-> s.tag, mine |-> s.mine], f |-> 0, s |-> Rested(s.halts, s.tog)]
    BY <1>2 DEF Sends
  <2>2. StickOK(x.s) /\ x.s.ph = "idle" /\ x.s.halts = s.halts /\ x.f = 0
    BY <2>1 DEF Rested, StickOK
  <2>3. x.pkt = [stat |-> s.stat, tag |-> s.tag, mine |-> s.mine]
    BY <2>1
  <2>4. x.pkt.tag = s.tag /\ x.pkt.mine = s.mine
    BY <2>3
  <2> QED
    BY <1>2, <2>2, <2>4 DEF IsBusy
<1> QED
  BY <1>1, <1>2

LEMMA InIs ==
    ASSUME StickOK(stick), NEW w \in InXact
    PROVE  /\ WireOK(w) /\ w.ans \in {"ok", "stall", "nak", "dropped"}
           /\ Goes(stick, w.stick) /\ OutHalted(stick, w.stick)
           /\ stick.ph = "idle" => w.stick = stick /\ w.ans # "ok" /\ w.ans # "dropped"
           /\ w.ans = "ok" => IsBusy(stick)
           /\ w.ans = "ok" /\ "stat" \in DOMAIN w.pkt =>
                /\ w.pkt.tag = stick.tag /\ w.pkt.mine = stick.mine
                /\ w.stick.ph = "idle" /\ w.stick.halts = stick.halts /\ "in" \notin stick.halts
           /\ w.ans = "ok" /\ "cell" \in DOMAIN w.pkt => w.pkt.mine = stick.mine
<1> DEFINE s == [stick EXCEPT !.tog["in"] = Flip(@)]
<1>1. StickOK(s) /\ s.ph = stick.ph /\ s.tag = stick.tag /\ s.mine = stick.mine /\ s.halts = stick.halts
  BY DEF StickOK
<1>2. CASE \E ans \in {"stall", "nak"} : w = Wire(ans, stick, medium, NoPkt, 0)
  <2>1. WireOK(w) /\ w.ans \in {"stall", "nak"} /\ w.stick = stick
    BY <1>2, WireIs
  <2> QED
    BY <2>1 DEF Goes, OutHalted
<1>3. CASE stick.ph = "lost" /\ w = Wire("stall", Lost(stick), medium, NoPkt, 0)
  <2>1. WireOK(w) /\ w.ans = "stall" /\ w.stick = Lost(stick)
    BY <1>3, WireIs
  <2> QED
    BY <1>3, <2>1, LostIs DEF Goes, OutHalted
<1>4. CASE /\ stick.ph \in {"in", "status"} /\ "in" \notin stick.halts
           /\ \E x \in Sends(s) : \E ans \in {"ok", "dropped"} : w = Wire(ans, x.s, medium, x.pkt, x.f)
  <2> HIDE DEF s
  <2>1. PICK x \in Sends(s), ans \in {"ok", "dropped"} : w = Wire(ans, x.s, medium, x.pkt, x.f)
    BY <1>4
  <2>2. /\ StickOK(x.s) /\ x.s.halts = s.halts /\ x.f \in {0, 1}
        /\ IsBusy(x.s) => x.s.tag = s.tag /\ x.s.mine = s.mine
        /\ "stat" \in DOMAIN x.pkt => /\ s.ph = "status" /\ x.pkt.tag = s.tag /\ x.pkt.mine = s.mine
                                      /\ x.s.ph = "idle"
        /\ "cell" \in DOMAIN x.pkt => x.pkt.mine = s.mine
    BY <1>1, <1>4, SendsIs
  <2>3. WireOK(w) /\ w.ans = ans /\ w.stick = x.s /\ w.pkt = x.pkt
    BY <2>1, <2>2, WireIs
  <2> QED
    BY <1>1, <1>4, <2>2, <2>3 DEF Goes, OutHalted, IsBusy
<1>5. CASE /\ stick.ph \in {"in", "status"}
           /\ \E t : /\ w = Wire("stall", [t EXCEPT !.halts = @ \cup {"in"}], medium, NoPkt, 1)
                     /\ t = stick \/ \E st : t = Ends(stick, st)
  <2>1. PICK t : /\ w = Wire("stall", [t EXCEPT !.halts = @ \cup {"in"}], medium, NoPkt, 1)
                 /\ t = stick \/ \E st : t = Ends(stick, st)
    BY <1>5
  <2>2. WireOK(w) /\ w.ans = "stall" /\ w.stick = [t EXCEPT !.halts = @ \cup {"in"}]
    BY <2>1, WireIs
  <2>3. StickOK(t) /\ t.tag = stick.tag /\ t.mine = stick.mine /\ t.halts = stick.halts
    BY <2>1, EndsIs
  <2>4. /\ StickOK(w.stick) /\ w.stick.tag = stick.tag /\ w.stick.mine = stick.mine
        /\ w.stick.halts = stick.halts \cup {"in"}
    BY <2>2, <2>3 DEF StickOK, Dirs
  <2> QED
    BY <1>5, <2>2, <2>4 DEF Goes, OutHalted, IsBusy
<1> HIDE DEF s
<1> QED
  BY <1>2, <1>3, <1>4, <1>5 DEF InXact, StickOK, s

(***************************************************************************)
(* A transfer, and a call of run_bulk_td.                                  *)
(***************************************************************************)

\* The stick t after a transfer of td on the endpoint d, answered `ans`.
Moves(d, td, ans, t) ==
    \/ Goes(stick, t) /\ (OutHalted(stick, t) \/ (d = "out" /\ ans = "stall"))
    \/ d = "out" /\ Begins(stick, t, td)

LEMMA TransferIs ==
    ASSUME StickOK(stick), NEW d \in Dirs, NEW td, NEW w \in OnWire(d, td)
    PROVE  /\ WireOK(w) /\ w.ans \in {"ok", "stall", "nak", "dropped"} /\ Moves(d, td, w.ans, w.stick)
           /\ d = "out" => w.ans # "dropped"
           /\ w.ans = "stall" => ~(d = "out" /\ Begins(stick, w.stick, td)) \/ Goes(stick, w.stick)
<1>1. CASE d = "out"
  BY <1>1, OutIs DEF OnWire, Moves
<1>2. CASE d = "in"
  BY <1>2, InIs DEF OnWire, Moves
<1> QED
  BY <1>1, <1>2 DEF Dirs

\* A result of run_bulk_td: what it is made of, and what it leaves behind.
ResultOK(r) ==
    /\ r \in [w : {r.w}, ans : {"ok", "stall", "dropped", "error"}, ed : {r.ed}]
    /\ WireOK(r.w) /\ EdOK(r.ed)
Leaves(d, td, r) ==
    /\ ResultOK(r) /\ Moves(d, td, r.ans, r.w.stick)
    /\ Goes(stick, r.w.stick) \/ r.ed.left = NoTd
    /\ r.ans # "error" => r.ed.left = NoTd /\ r.w \in OnWire(d, td) /\ r.w.ans = r.ans

\* Nothing happens on the wire.
LEMMA NoTransferIs ==
    ASSUME StickOK(stick), NEW f \in {0, 1}, NEW d, NEW td, NEW e, EdOK(e)
    PROVE  LET r == [w |-> NoTransfer(f), ans |-> "error", ed |-> e] IN Leaves(d, td, r) /\ Goes(stick, r.w.stick)
<1> DEFINE r == [w |-> NoTransfer(f), ans |-> "error", ed |-> e]
<1>1. WireOK(r.w) /\ r.w.stick = stick
  BY WireIs DEF NoTransfer
<1>2. ResultOK(r) /\ r.ans = "error"
  <2>1. r.w = NoTransfer(f) /\ r.ed = e
    OBVIOUS
  <2>2. WireOK(r.w) /\ EdOK(r.ed)
    BY <1>1, <2>1
  <2> QED
    BY <2>2 DEF ResultOK
<1> HIDE DEF r
<1> QED
  BY <1>1, <1>2 DEF Leaves, Moves, Goes, OutHalted, r

LEMMA DrainedLeaves ==
    ASSUME Shapes, NEW d \in Dirs, NEW td, ed[d].left = NoTd, NEW r \in Drained(d, td)
    PROVE  Leaves(d, td, r) /\ r.ed.left = NoTd
<1> DEFINE Drains(w, e) ==
      /\ r = [w |-> w, ans |-> IF Overruns(d, td, w) \/ w.ans = "nak" THEN "error" ELSE w.ans, ed |-> e]
      /\ e \in {FreshEd, ed[d], [ed[d] EXCEPT !.carry = Flip(@)]}
<1>1. StickOK(stick) /\ EdOK(ed[d]) /\ EdOK(FreshEd) /\ FreshEd.left = NoTd
  BY DEF Shapes, EdOK, FreshEd
<1>2. PICK w \in OnWire(d, td) : \E e : Drains(w, e)
  BY DEF Drained
<1>3. PICK e : Drains(w, e)
  BY <1>2
<1>4. EdOK(e) /\ e.left = NoTd
  BY <1>1, <1>3 DEF EdOK
<1>5. /\ WireOK(w) /\ w.ans \in {"ok", "stall", "nak", "dropped"} /\ Moves(d, td, w.ans, w.stick)
  BY <1>1, TransferIs
<1>6. w.ans = "stall" => ~Overruns(d, td, w)
  BY DEF Overruns
<1> QED
  BY <1>3, <1>4, <1>5, <1>6 DEF Leaves, ResultOK, Moves

LEMMA DisturbedLeaves ==
    ASSUME Shapes, NEW d \in Dirs, NEW td, ed[d].left = NoTd, NEW r \in Disturbed(d, td)
    PROVE  Leaves(d, td, r) /\ r.ed.left = NoTd
<1>1. StickOK(stick) /\ EdOK(ed[d]) /\ EdOK(FreshEd) /\ FreshEd.left = NoTd
  BY DEF Shapes, EdOK, FreshEd
<1>2. CASE \E e \in {ed[d], FreshEd} : r = [w |-> NoTransfer(1), ans |-> "error", ed |-> e]
  <2>1. PICK e \in {ed[d], FreshEd} : r = [w |-> NoTransfer(1), ans |-> "error", ed |-> e]
    BY <1>2
  <2> QED
    BY <1>1, <2>1, NoTransferIs
<1>3. CASE \E w \in OnWire(d, td) : w.ans = "ok" /\ r = [w |-> [w EXCEPT !.f = 1], ans |-> "error", ed |-> FreshEd]
  <2>1. PICK w \in OnWire(d, td) : w.ans = "ok" /\ r = [w |-> [w EXCEPT !.f = 1], ans |-> "error", ed |-> FreshEd]
    BY <1>3
  <2>2. WireOK(w) /\ Moves(d, td, w.ans, w.stick)
    BY <1>1, TransferIs
  <2>3. WireOK([w EXCEPT !.f = 1]) /\ [w EXCEPT !.f = 1].stick = w.stick
    BY <2>2 DEF WireOK
  <2> QED
    BY <1>1, <2>1, <2>2, <2>3 DEF Leaves, ResultOK, Moves
<1> QED
  BY <1>2, <1>3 DEF Disturbed

\* run_bulk_td: it answers for its own transfer only, and leaves at most its
\* own descriptor behind.
LEMMA RunLeaves ==
    ASSUME Shapes, NEW d \in Dirs, NEW td, NEW r \in RunBulkTd(d, td)
    PROVE  Leaves(d, td, r) /\ r.ed.left \in {NoTd, td}
<1>1. StickOK(stick) /\ EdOK(ed[d])
  BY DEF Shapes
<1>2. CASE \E e : r = [w |-> NoTransfer(0), ans |-> "error", ed |-> e] /\ EdOK(e) /\ e.left \in {NoTd, td}
  <2>1. PICK e : r = [w |-> NoTransfer(0), ans |-> "error", ed |-> e] /\ EdOK(e) /\ e.left \in {NoTd, td}
    BY <1>2
  <2> QED
    BY <1>1, <2>1, NoTransferIs
<1>3. CASE ed[d].left = NoTd /\ r \in Drained(d, td) \cup Disturbed(d, td)
  BY <1>3, DrainedLeaves, DisturbedLeaves
<1>4. /\ EdOK([ed[d] EXCEPT !.carry = 0, !.halted = FALSE, !.left = td])
      /\ [ed[d] EXCEPT !.carry = 0, !.halted = FALSE, !.left = td].left = td
      /\ EdOK([ed[d] EXCEPT !.left = NoTd]) /\ [ed[d] EXCEPT !.left = NoTd].left = NoTd
      /\ EdOK([ed[d] EXCEPT !.skip = FALSE]) /\ [ed[d] EXCEPT !.skip = FALSE].left = ed[d].left
  BY <1>1 DEF EdOK
<1> QED
  BY <1>2, <1>3, <1>4 DEF RunBulkTd

\* The same, when it is cancelled: what was left there may stay.
LEMMA CancelLeaves ==
    ASSUME Shapes, NEW d \in Dirs, NEW td, NEW r \in CancelledTd(d, td)
    PROVE  /\ ResultOK(r) /\ r.w.f = 1 /\ Moves(d, td, r.ans, r.w.stick)
           /\ Goes(stick, r.w.stick) \/ r.ed.left = NoTd
           /\ r.ed.left \in {NoTd, td, ed[d].left}
<1>1. StickOK(stick) /\ EdOK(ed[d])
  BY DEF Shapes
<1>2. CASE \E q \in RunBulkTd(d, td) : r = [q EXCEPT !.w.f = 1]
  <2>1. PICK q \in RunBulkTd(d, td) : r = [q EXCEPT !.w.f = 1]
    BY <1>2
  <2>2. Leaves(d, td, q) /\ q.ed.left \in {NoTd, td}
    BY RunLeaves
  <2>3. ResultOK(q)
    BY <2>2 DEF Leaves
  <2>4. r.ans = q.ans /\ r.ed = q.ed /\ r.w = [q.w EXCEPT !.f = 1]
    BY <2>1, <2>3 DEF ResultOK
  <2>5. r.ans \in {"ok", "stall", "dropped", "error"} /\ r \in [w : {r.w}, ans : {r.ans}, ed : {r.ed}]
    BY <2>1, <2>3 DEF ResultOK
  <2>6. WireOK(r.w) /\ r.w.f = 1 /\ r.w.stick = q.w.stick
    BY <2>3, <2>4 DEF ResultOK, WireOK
  <2>7. ResultOK(r)
    BY <2>3, <2>4, <2>5, <2>6 DEF ResultOK
  <2> QED
    BY <2>2, <2>4, <2>6, <2>7 DEF Leaves
<1>3. CASE \E e : r = [w |-> NoTransfer(1), ans |-> "error", ed |-> e] /\ EdOK(e) /\ e.left \in {td, ed[d].left}
  <2>1. PICK e : r = [w |-> NoTransfer(1), ans |-> "error", ed |-> e] /\ EdOK(e) /\ e.left \in {td, ed[d].left}
    BY <1>3
  <2>2. Leaves(d, td, r) /\ Goes(stick, r.w.stick)
    BY <1>1, <2>1, NoTransferIs
  <2>3. r.w = NoTransfer(1) /\ r.ed = e
    BY <2>1
  <2>4. r.w.f = 1
    BY <2>3 DEF NoTransfer, Wire
  <2> QED
    BY <2>1, <2>2, <2>3, <2>4 DEF Leaves
<1>4. \A k : EdOK([ed[d] EXCEPT !.left = td, !.skip = k]) /\ [ed[d] EXCEPT !.left = td, !.skip = k].left = td
  BY <1>1 DEF EdOK
<1>5. CASE r \notin {[q EXCEPT !.w.f = 1] : q \in RunBulkTd(d, td)}
  <2>1. PICK e : /\ r = [w |-> NoTransfer(1), ans |-> "error", ed |-> e]
                 /\ e = ed[d] \/ \E k \in BOOLEAN : e = [ed[d] EXCEPT !.left = td, !.skip = k]
    BY <1>5 DEF CancelledTd
  <2>2. EdOK(e) /\ e.left \in {td, ed[d].left}
    BY <1>1, <1>4, <2>1
  <2> QED
    BY <1>3, <2>1, <2>2
<1> QED
  BY <1>2, <1>5

(***************************************************************************)
(* The engine: every way on from the end of a command.                     *)
(***************************************************************************)

\* With mid_command m clear the stick expects a command.
Known(m, s, q) == m \in BOOLEAN /\ (~m => Quiet(s, q) /\ s.halts = {})

LEMMA ExecutePlaced ==
    ASSUME NEW o, OpOK(o), o.own, NEW c, NEW m, NEW s, NEW q, NEW t, NEW f, Known(m, s, q)
    PROVE  Placed(Execute(o, c, m), m, s, q, t, f)
<1> DEFINE e == Execute(o, c, m)
<1>1. OpOK(e) /\ e.own /\ e.pure /\ e.then = "cbw" /\ e.pc = IF m THEN "reset" ELSE "cbw"
  BY DEF OpOK, Execute
<1> HIDE DEF e
<1> QED
  BY <1>1 DEF Placed, Known, Quiet, IsBusy, InExchange, e

LEMMA LoopPlaced ==
    ASSUME NEW o, OpOK(o), o.own, NEW m, NEW s, NEW q, NEW t, NEW f, Known(m, s, q)
    PROVE  Placed(Loop(o, m), m, s, q, t, f)
<1>1. OpOK([o EXCEPT !.cur = <<>>]) /\ [o EXCEPT !.cur = <<>>].own
  BY DEF OpOK
<1>2. ASSUME NEW pc \in {"ret", "refuse"} PROVE Placed([o EXCEPT !.pc = pc], m, s, q, t, f)
  <2> DEFINE e == [o EXCEPT !.pc = pc]
  <2>1. OpOK(e) /\ e.own /\ e.pc = pc
    BY DEF OpOK
  <2> HIDE DEF e
  <2> QED
    BY <2>1 DEF Placed, Known, InExchange, e
<1>3. \A c : Placed(Execute([o EXCEPT !.cur = <<>>], c, m), m, s, q, t, f)
  BY <1>1, ExecutePlaced
<1> QED
  BY <1>2, <1>3 DEF Loop

LEMMA PassedPlaced ==
    ASSUME NEW o, OpOK(o), o.own, NEW m, NEW s, NEW q, NEW t, NEW f, Known(m, s, q)
    PROVE  Placed(Passed(o, m), m, s, q, t, f)
<1>1. \A x : OpOK([o EXCEPT !.up = x]) /\ [o EXCEPT !.up = x].own
  BY DEF OpOK
<1>2. \A x, y : OpOK([o EXCEPT !.done = x, !.out = y]) /\ [o EXCEPT !.done = x, !.out = y].own
  BY DEF OpOK
<1>3. \A x : OpOK([o EXCEPT !.done = x]) /\ [o EXCEPT !.done = x].own
  BY DEF OpOK
<1>4. \A x : OpOK([o EXCEPT !.cur = x]) /\ [o EXCEPT !.cur = x].own
  BY DEF OpOK
<1>5. \A e, c : OpOK(e) /\ e.own => Placed(Execute(e, c, m), m, s, q, t, f)
  BY ExecutePlaced
<1>6. \A e : OpOK(e) /\ e.own => Placed(Loop(e, m), m, s, q, t, f)
  BY LoopPlaced
<1> QED
  BY <1>1, <1>2, <1>3, <1>4, <1>5, <1>6 DEF Passed

\* The call ends, or its next step is in place.
GoesOn(m, s, q, t, f) ==
    \/ mop' = NoOp
    \/ mslot' = mslot /\ Placed(mop', m, s, q, t, f)

LEMMA CommandGoesOn ==
    ASSUME NEW o, OpOK(o), o.own, NEW m, NEW s, NEW q, NEW t, NEW f, Known(m, s, q), NEW res, Command(o, res, m)
    PROVE  GoesOn(m, s, q, t, f)
<1>1. \A x : OpOK([o EXCEPT !.tries = x]) /\ [o EXCEPT !.tries = x].own
  BY DEF OpOK
<1>2. \A x : OpOK([o EXCEPT !.step = x]) /\ [o EXCEPT !.step = x].own
  BY DEF OpOK
<1>3. \A e, c : OpOK(e) /\ e.own => Placed(Execute(e, c, m), m, s, q, t, f)
  BY ExecutePlaced
<1>4. Placed(Passed(o, m), m, s, q, t, f)
  BY PassedPlaced
<1> QED
  BY <1>1, <1>2, <1>3, <1>4 DEF Command, EndCall, GoesOn

\* A command ends in the next state with what is known there.
LEMMA CommandKeeps ==
    ASSUME mop # NoOp, mslot = "Busy", NEW o, OpOK(o), o.own, NEW res, Command(o, res, mid'),
           Shapes', LeftIsRecent', Known(mid', stick', ed'["out"].left)
    PROVE  MsdInv'
<1>1. GoesOn(mid', stick', ed'["out"].left, tag', usbFaults')
  BY CommandGoesOn
<1> QED
  BY <1>1 DEF GoesOn, MsdInv, Known, Resting

\* The call goes on from another place.
LEMMA PlaceKeeps ==
    ASSUME mslot = "Busy", mslot' = mslot, Shapes', LeftIsRecent',
           Placed(mop', mid', stick', ed'["out"].left, tag', usbFaults')
    PROVE  MsdInv'
BY DEF MsdInv

\* A call ends.
LEMMA EndKeeps ==
    ASSUME EndCall, Shapes', LeftIsRecent', Known(mid', stick', ed'["out"].left)
    PROVE  MsdInv'
BY DEF EndCall, MsdInv, Known, Resting

(***************************************************************************)
(* Each action keeps the invariant.                                        *)
(***************************************************************************)

\* A new place of the call.
LEMMA PlaceIs ==
    ASSUME NEW o, OpOK(o), NEW pc
    PROVE  LET e == [o EXCEPT !.pc = pc] IN
           /\ OpOK(e) /\ e.pc = pc /\ e.own = o.own /\ e.pure = o.pure /\ e.then = o.then
           /\ e.cmd = o.cmd /\ e.up = o.up
BY DEF OpOK
LEMMA RecoveryIs ==
    ASSUME NEW o, OpOK(o)
    PROVE  LET e == [o EXCEPT !.pc = "reset", !.then = "broken"] IN
           OpOK(e) /\ e.pc = "reset" /\ e.own = o.own /\ e.then = "broken"
BY DEF OpOK

\* What a call in flight is known to be.
LEMMA InFlight ==
    ASSUME MsdInv, mop # NoOp
    PROVE  /\ mslot = "Busy" /\ OpOK(mop) /\ mop.own /\ Shapes /\ LeftIsRecent
           /\ Placed(mop, mid, stick, ed["out"].left, tag, usbFaults)
BY DEF MsdInv, Placed

LEMMA SendCbwKeeps == ASSUME MsdInv, MaxUsbFaults + 1 < TagSpace, SendCbw PROVE MsdInv'
<1> DEFINE td == [cmd |-> mop.cmd, tag |-> (tag + 1) % TagSpace]
<1>1. /\ mop # NoOp /\ mop.pc = "cbw" /\ mslot = "Busy" /\ OpOK(mop) /\ mop.own /\ Shapes /\ mop.pure
      /\ IsBusy(stick) => Behind(stick.tag, tag, usbFaults)
  BY InFlight DEF SendCbw, At, Placed
<1>2. tag' = (tag + 1) % TagSpace /\ mid' = TRUE
  BY DEF SendCbw
<1>3. PICK r \in RunBulkTd("out", td) :
        /\ ed' = [ed EXCEPT !["out"] = r.ed] /\ medium' = r.w.medium /\ Spend(r.w.f)
        /\ stick' = [r.w.stick EXCEPT !.mine = stick.ph = "idle" /\ r.w.stick.ph \in {"in", "out", "status"}]
        /\ CASE r.ans = "ok" -> Goto(IF Expect(mop.cmd) = 0 THEN "csw" ELSE "data")
             [] r.ans = "stall" -> ResetThen("broken")
             [] OTHER -> Command(mop, "error", TRUE)
  BY DEF SendCbw
<1>4. Leaves("out", td, r) /\ r.ed.left \in {NoTd, td}
  BY <1>1, RunLeaves DEF Dirs
<1>5. ResultOK(r) /\ StickOK(r.w.stick) /\ r.w.f \in {0, 1}
  BY <1>4 DEF Leaves, ResultOK, WireOK, Moves, Goes, Begins
<1>6. /\ StickOK(stick') /\ stick'.ph = r.w.stick.ph /\ stick'.tag = r.w.stick.tag
      /\ stick'.halts = r.w.stick.halts
      /\ stick'.mine = (stick.ph = "idle" /\ r.w.stick.ph \in {"in", "out", "status"})
  BY <1>3, <1>5 DEF StickOK
<1>7. usbFaults' \in 0 .. MaxUsbFaults /\ usbFaults <= usbFaults'
  BY <1>1, <1>3, <1>5, MsdAssumption DEF Spend, Shapes
<1>8. /\ ed'["out"] = r.ed /\ ed' = [d \in Dirs |-> ed'[d]] /\ \A d \in Dirs : EdOK(ed'[d])
  BY <1>1, <1>3, <1>5 DEF Shapes, ResultOK, Dirs
<1>9. Shapes'
  BY <1>1, <1>2, <1>6, <1>7, <1>8, NextTag DEF Shapes
<1>10. LeftIsRecent'
  <2>1. Behind(tag', tag', usbFaults')
    BY <1>9, LastIsRecent, MsdAssumption DEF Shapes
  <2>2. ed'["out"].left = NoTd \/ ed'["out"].left.tag = tag'
    BY <1>2, <1>4, <1>8
  <2> QED
    BY <2>1, <2>2 DEF LeftIsRecent
<1>11. CASE r.ans = "ok"
  <2>1. ed'["out"].left = NoTd
    BY <1>4, <1>8, <1>11 DEF Leaves
  <2>2. IsBusy(stick') /\ stick'.tag = tag' => stick'.mine /\ "out" \notin stick'.halts
    <3>1. CASE Goes(stick, r.w.stick)
      BY <1>1, <1>2, <1>6, <3>1, NextIsNew DEF Goes, IsBusy, Shapes
    <3>2. CASE Begins(stick, r.w.stick, td)
      BY <1>6, <3>2 DEF Begins, IsBusy
    <3> QED
      BY <1>4, <3>1, <3>2 DEF Leaves, Moves
  <2>3. PICK pc \in {"csw", "data"} : mop' = [mop EXCEPT !.pc = pc] /\ mslot' = mslot
    BY <1>3, <1>11 DEF Goto
  <2>4. OpOK(mop') /\ mop'.own /\ mop'.pure /\ mop'.pc = pc
    BY <1>1, <2>3, PlaceIs
  <2>5. Placed(mop', mid', stick', ed'["out"].left, tag', usbFaults')
    BY <1>2, <2>1, <2>2, <2>4 DEF Placed, InExchange
  <2> QED
    BY <1>1, <1>9, <1>10, <2>3, <2>5, PlaceKeeps
<1>12. CASE r.ans = "stall"
  <2>1. ed'["out"].left = NoTd
    BY <1>4, <1>8, <1>12 DEF Leaves
  <2>2. mop' = [mop EXCEPT !.pc = "reset", !.then = "broken"] /\ mslot' = mslot
    BY <1>3, <1>12 DEF ResetThen
  <2>3. OpOK(mop') /\ mop'.own /\ mop'.pc = "reset" /\ mop'.then = "broken"
    BY <1>1, <2>2, RecoveryIs
  <2>4. Placed(mop', mid', stick', ed'["out"].left, tag', usbFaults')
    BY <1>2, <2>1, <2>3 DEF Placed, InExchange
  <2> QED
    BY <1>1, <1>9, <1>10, <2>2, <2>4, PlaceKeeps
<1>13. CASE r.ans \notin {"ok", "stall"}
  <2>1. Command(mop, "error", mid')
    BY <1>2, <1>3, <1>13
  <2>2. Known(mid', stick', ed'["out"].left)
    BY <1>2 DEF Known
  <2> QED
    BY <1>1, <1>9, <1>10, <2>1, <2>2, CommandKeeps
<1> QED
  BY <1>11, <1>12, <1>13

\* A transfer that is no CBW, wherever the call goes from there.
LEMMA AfterApply ==
    ASSUME Shapes, LeftIsRecent, tag' = tag, mid' \in BOOLEAN, NEW d \in Dirs, NEW td, d = "out" => "cmd" \notin DOMAIN td,
           NEW r, ResultOK(r), Moves(d, td, r.ans, r.w.stick), r.ed.left \in {NoTd, td, ed[d].left}, Apply(d, r)
    PROVE  /\ Shapes' /\ LeftIsRecent' /\ Goes(stick, stick')
           /\ OutHalted(stick, stick') \/ (d = "out" /\ r.ans = "stall")
           /\ ed'["out"].left = IF d = "out" THEN r.ed.left ELSE ed["out"].left
<1>1. /\ ed' = [ed EXCEPT ![d] = r.ed] /\ stick' = r.w.stick /\ Spend(r.w.f)
  BY DEF Apply
<1>2. Goes(stick, stick') /\ (OutHalted(stick, stick') \/ (d = "out" /\ r.ans = "stall"))
  BY <1>1 DEF Moves, Begins
<1>3. usbFaults' \in 0 .. MaxUsbFaults /\ usbFaults <= usbFaults'
  BY <1>1, MsdAssumption DEF Spend, Shapes, ResultOK, WireOK
<1>4. /\ ed'[d] = r.ed /\ \A x \in Dirs : x # d => ed'[x] = ed[x]
      /\ ed' = [x \in Dirs |-> ed'[x]] /\ \A x \in Dirs : EdOK(ed'[x])
  BY <1>1 DEF Shapes, ResultOK
<1>5. Shapes'
  BY <1>2, <1>3, <1>4 DEF Shapes, Goes
<1>6. ed'["out"].left = IF d = "out" THEN r.ed.left ELSE ed["out"].left
  BY <1>4 DEF Dirs
<1>7. LeftIsRecent'
  <2>1. ASSUME NEW t, Behind(t, tag, usbFaults) PROVE Behind(t, tag', usbFaults')
    BY <1>3, <2>1, BehindStays, MsdAssumption DEF Shapes
  <2> QED
    BY <1>6, <2>1 DEF LeftIsRecent
<1> QED
  BY <1>2, <1>5, <1>6, <1>7

\* With a command's exchange in doubt it is reset.
LEMMA ResetThenKeeps ==
    ASSUME mop # NoOp, mslot = "Busy", OpOK(mop), mop.own, Shapes', LeftIsRecent', mid',
           ed'["out"].left = NoTd, ResetThen("broken")
    PROVE  MsdInv'
<1>1. mop' = [mop EXCEPT !.pc = "reset", !.then = "broken"] /\ mslot' = mslot
  BY DEF ResetThen
<1>2. OpOK(mop') /\ mop'.own /\ mop'.pc = "reset" /\ mop'.then = "broken"
  BY <1>1, RecoveryIs
<1>3. Placed(mop', mid', stick', ed'["out"].left, tag', usbFaults')
  BY <1>2 DEF Placed, InExchange
<1> QED
  BY <1>1, <1>3, PlaceKeeps

\* During an exchange, a step to another of its places.
LEMMA ExchangeKeeps ==
    ASSUME MsdInv, mop # NoOp, InExchange(mop.pc), UNCHANGED <<bot, mslot>>, Shapes', LeftIsRecent',
           ed'["out"].left = NoTd, Goes(stick, stick'),
           OpOK(mop'), mop'.own, InExchange(mop'.pc), mop'.cmd = mop.cmd,
           IsBusy(stick) /\ stick.mine /\ stick.tag = tag /\ mop.pure => mop'.pure,
           "out" \in stick'.halts /\ IsBusy(stick') /\ stick.tag = tag
             => mop'.pc = "clrdata" /\ mop.cmd.kind = "write"
    PROVE  MsdInv'
<1>1. Placed(mop, mid, stick, ed["out"].left, tag, usbFaults) /\ mslot = "Busy"
  BY InFlight
<1>2. mid' = mid /\ tag' = tag /\ mid
  BY <1>1 DEF bot, Placed
<1>3. IsBusy(stick') /\ stick'.tag = tag' =>
        stick'.mine /\ mop'.pure /\ ("out" \in stick'.halts => mop'.pc = "clrdata" /\ mop'.cmd.kind = "write")
  BY <1>1, <1>2 DEF Placed, Goes
<1>4. Placed(mop', mid', stick', ed'["out"].left, tag', usbFaults')
  BY <1>2, <1>3 DEF Placed, InExchange
<1> QED
  BY <1>1, <1>4, PlaceKeeps

\* What an exchange is known to be.
LEMMA ExchangeIs ==
    ASSUME MsdInv, mop # NoOp, InExchange(mop.pc)
    PROVE  /\ mslot = "Busy" /\ OpOK(mop) /\ mop.own /\ Shapes /\ LeftIsRecent /\ mid
           /\ ed["out"].left = NoTd
           /\ IsBusy(stick) /\ stick.tag = tag =>
                /\ stick.mine /\ mop.pure
                /\ "out" \in stick.halts => mop.pc = "clrdata" /\ mop.cmd.kind = "write"
BY InFlight DEF Placed

LEMMA DataOutKeeps == ASSUME MsdInv, DataOut PROVE MsdInv'
<1> DEFINE td == [cell |-> Payload(mop)[mop.sent + 1]]
<1>1. mop # NoOp /\ mop.pc = "data" /\ mop.cmd.kind = "write" /\ UNCHANGED bot /\ InExchange(mop.pc)
  BY DEF DataOut, At, InExchange
<1>2. PICK r \in RunBulkTd("out", td) :
        /\ Apply("out", r)
        /\ CASE r.ans = "ok" -> /\ mop' = [mop EXCEPT !.sent = @ + 1,
                                      !.pc = IF mop.sent + 1 = Expect(mop.cmd) THEN "csw" ELSE "data"]
                                /\ UNCHANGED mslot
             [] r.ans = "stall" -> Goto("clrdata")
             [] OTHER -> Command(mop, "error", TRUE)
  BY DEF DataOut
<1>3. /\ mslot = "Busy" /\ OpOK(mop) /\ mop.own /\ Shapes /\ LeftIsRecent /\ mid /\ ed["out"].left = NoTd
      /\ IsBusy(stick) /\ stick.tag = tag => "out" \notin stick.halts
  BY <1>1, ExchangeIs
<1>4. Leaves("out", td, r) /\ r.ed.left \in {NoTd, td}
  BY <1>3, RunLeaves DEF Dirs
<1>5. ResultOK(r) /\ Moves("out", td, r.ans, r.w.stick) /\ "cmd" \notin DOMAIN td
  BY <1>4 DEF Leaves
<1>6. /\ Shapes' /\ LeftIsRecent' /\ Goes(stick, stick')
      /\ OutHalted(stick, stick') \/ r.ans = "stall"
      /\ ed'["out"].left = r.ed.left
  BY <1>1, <1>2, <1>3, <1>4, <1>5, AfterApply DEF Dirs, Shapes, bot
<1>7. mid' = mid /\ tag' = tag
  BY <1>1 DEF bot
<1>8. r.ans # "error" => ed'["out"].left = NoTd
  BY <1>4, <1>6 DEF Leaves
<1>9. CASE r.ans = "ok"
  <2>1. PICK n, pc : pc \in {"csw", "data"} /\ mop' = [mop EXCEPT !.sent = n, !.pc = pc] /\ mslot' = mslot
    BY <1>2, <1>9
  <2>2. OpOK(mop') /\ mop'.own = mop.own /\ mop'.pc = pc /\ mop'.pure = mop.pure /\ mop'.cmd = mop.cmd
    BY <1>3, <2>1 DEF OpOK
  <2>3. IsBusy(stick') /\ stick.tag = tag => "out" \notin stick'.halts
    BY <1>3, <1>6, <1>9 DEF OutHalted, Goes
  <2> QED
    BY <1>1, <1>3, <1>6, <1>8, <1>9, <2>1, <2>2, <2>3, ExchangeKeeps DEF InExchange
<1>10. CASE r.ans = "stall"
  <2>1. mop' = [mop EXCEPT !.pc = "clrdata"] /\ mslot' = mslot
    BY <1>2, <1>10 DEF Goto
  <2>2. OpOK(mop') /\ mop'.own = mop.own /\ mop'.pc = "clrdata" /\ mop'.pure = mop.pure /\ mop'.cmd = mop.cmd
    BY <1>3, <2>1, PlaceIs
  <2> QED
    BY <1>1, <1>3, <1>6, <1>8, <1>10, <2>1, <2>2, ExchangeKeeps DEF InExchange
<1>11. CASE r.ans \notin {"ok", "stall"}
  <2>1. Command(mop, "error", mid')
    BY <1>2, <1>3, <1>7, <1>11 DEF Shapes
  <2>2. Known(mid', stick', ed'["out"].left)
    BY <1>3, <1>7 DEF Known, Shapes
  <2> QED
    BY <1>1, <1>3, <1>6, <2>1, <2>2, CommandKeeps
<1> QED
  BY <1>9, <1>10, <1>11

LEMMA DataInKeeps == ASSUME MsdInv, DataIn PROVE MsdInv'
<1> DEFINE td == mop.cmd.kind
<1>1. mop # NoOp /\ mop.pc = "data" /\ UNCHANGED bot /\ InExchange(mop.pc)
  BY DEF DataIn, At, InExchange
<1>2. PICK r \in RunBulkTd("in", td) :
        /\ Apply("in", r)
        /\ CASE r.ans = "ok" /\ "cell" \in DOMAIN r.w.pkt ->
                  /\ mop' = [mop EXCEPT !.got = Append(@, r.w.pkt.cell),
                                        !.pure = @ /\ r.w.pkt.mine,
                                        !.pc = IF Len(mop.got) + 1 = Expect(mop.cmd) THEN "csw" ELSE "data"]
                  /\ UNCHANGED mslot
             [] r.ans = "ok" /\ r.w.pkt = NoPkt -> Goto("csw")
             [] r.ans = "stall" -> Goto("clrdata")
             [] r.ans = "dropped" -> UNCHANGED <<mop, mslot>>
             [] OTHER -> Command(mop, "error", TRUE)
  BY DEF DataIn
<1>3. /\ mslot = "Busy" /\ OpOK(mop) /\ mop.own /\ Shapes /\ LeftIsRecent /\ mid /\ ed["out"].left = NoTd
      /\ IsBusy(stick) /\ stick.tag = tag => "out" \notin stick.halts
  BY <1>1, ExchangeIs
<1>4. Leaves("in", td, r) /\ r.ed.left \in {NoTd, td}
  BY <1>3, RunLeaves DEF Dirs
<1>5. ResultOK(r) /\ Moves("in", td, r.ans, r.w.stick)
  BY <1>4 DEF Leaves
<1>6. /\ Shapes' /\ LeftIsRecent' /\ Goes(stick, stick') /\ OutHalted(stick, stick')
      /\ ed'["out"].left = NoTd
  BY <1>1, <1>2, <1>3, <1>4, <1>5, AfterApply DEF Dirs, Shapes, bot
<1>7. mid' = mid /\ tag' = tag
  BY <1>1 DEF bot
<1>8. IsBusy(stick') /\ stick.tag = tag => "out" \notin stick'.halts
  BY <1>3, <1>6 DEF OutHalted, Goes
<1>9. CASE r.ans = "ok" /\ "cell" \in DOMAIN r.w.pkt
  <2>1. /\ mslot' = mslot
        /\ mop' = [mop EXCEPT !.got = Append(@, r.w.pkt.cell), !.pure = @ /\ r.w.pkt.mine,
                              !.pc = IF Len(mop.got) + 1 = Expect(mop.cmd) THEN "csw" ELSE "data"]
    <3>1. r.w.pkt # NoPkt
      BY <1>9 DEF NoPkt
    <3> QED
      BY <1>2, <1>9, <3>1
  <2>2. /\ OpOK(mop') /\ mop'.own = mop.own /\ mop'.pc \in {"csw", "data"} /\ mop'.cmd = mop.cmd
        /\ mop'.pure = (mop.pure /\ r.w.pkt.mine)
    BY <1>3, <2>1 DEF OpOK
  <2>3. r.w.pkt.mine = stick.mine
    BY <1>3, <1>4, <1>9, InIs DEF Leaves, OnWire, Shapes
  <2> QED
    BY <1>1, <1>3, <1>6, <1>8, <2>1, <2>2, <2>3, ExchangeKeeps DEF InExchange
<1>10. ASSUME NEW pc \in {"csw", "clrdata"}, Goto(pc) PROVE MsdInv'
  <2>1. mop' = [mop EXCEPT !.pc = pc] /\ mslot' = mslot
    BY <1>10 DEF Goto
  <2>2. OpOK(mop') /\ mop'.own = mop.own /\ mop'.pc = pc /\ mop'.pure = mop.pure /\ mop'.cmd = mop.cmd
    BY <1>3, <2>1, PlaceIs
  <2> QED
    BY <1>1, <1>3, <1>6, <1>8, <2>1, <2>2, ExchangeKeeps DEF InExchange
<1>11. ASSUME UNCHANGED <<mop, mslot>> PROVE MsdInv'
  BY <1>1, <1>3, <1>6, <1>8, <1>11, ExchangeKeeps DEF InExchange
<1>12. ASSUME Command(mop, "error", TRUE) PROVE MsdInv'
  <2>1. Command(mop, "error", mid')
    BY <1>3, <1>7, <1>12 DEF Shapes
  <2>2. Known(mid', stick', ed'["out"].left)
    BY <1>3, <1>7 DEF Known, Shapes
  <2> QED
    BY <1>1, <1>3, <1>6, <2>1, <2>2, CommandKeeps
<1> QED
  BY <1>2, <1>9, <1>10, <1>11, <1>12

LEMMA ReadCswKeeps == ASSUME MsdInv, ReadCsw PROVE MsdInv'
<1>1. mop # NoOp /\ mop.pc \in {"csw", "csw2"} /\ tag' = tag /\ InExchange(mop.pc)
  BY DEF ReadCsw, At, InExchange
<1>2. PICK r \in RunBulkTd("in", "csw") : \E whole :
        /\ Apply("in", r)
        /\ IF r.ans = "ok" /\ ValidCsw(r.w.pkt)
           THEN /\ mid' = FALSE
                /\ Command([mop EXCEPT !.own = @ /\ mop.pure /\ r.w.pkt.mine],
                           IF r.w.pkt.stat = "failed" THEN "failed" ELSE IF whole THEN "passed" ELSE "short",
                           FALSE)
           ELSE /\ CASE r.ans = "ok" -> ResetThen("broken")
                     [] r.ans = "stall" -> IF At("csw") THEN Goto("clrcsw") ELSE ResetThen("broken")
                     [] r.ans = "dropped" -> UNCHANGED <<mop, mslot>>
                     [] OTHER -> Command(mop, "error", TRUE)
                /\ UNCHANGED mid
  BY DEF ReadCsw
<1>3. /\ mslot = "Busy" /\ OpOK(mop) /\ mop.own /\ Shapes /\ LeftIsRecent /\ mid /\ ed["out"].left = NoTd
      /\ IsBusy(stick) /\ stick.tag = tag => stick.mine /\ mop.pure /\ "out" \notin stick.halts
  BY <1>1, ExchangeIs
<1>4. Leaves("in", "csw", r) /\ r.ed.left \in {NoTd, "csw"}
  BY <1>3, RunLeaves DEF Dirs
<1>5. ResultOK(r) /\ Moves("in", "csw", r.ans, r.w.stick)
  BY <1>4 DEF Leaves
<1>6. mid' \in BOOLEAN /\ Apply("in", r)
  BY <1>2, <1>3 DEF Shapes
<1>7. /\ Shapes' /\ LeftIsRecent' /\ Goes(stick, stick') /\ OutHalted(stick, stick')
      /\ ed'["out"].left = NoTd
  BY <1>1, <1>3, <1>4, <1>5, <1>6, AfterApply DEF Dirs
<1>8. CASE r.ans = "ok" /\ ValidCsw(r.w.pkt)
  <2>1. /\ "stat" \in DOMAIN r.w.pkt /\ r.w.pkt.tag = tag /\ r.w \in InXact /\ r.w.ans = "ok"
    BY <1>4, <1>8 DEF ValidCsw, Leaves, OnWire
  <2>2. /\ IsBusy(stick) /\ stick.tag = tag /\ r.w.pkt.mine = stick.mine /\ r.w.stick.ph = "idle"
        /\ r.w.stick.halts = stick.halts /\ "in" \notin stick.halts
    BY <1>3, <2>1, InIs DEF Shapes
  <2>3. stick' = r.w.stick
    BY <1>6 DEF Apply
  <2>4. stick.halts = {}
    BY <1>3, <2>2 DEF Shapes, StickOK, Dirs
  <2>5. Known(FALSE, stick', ed'["out"].left)
    BY <1>7, <2>2, <2>3, <2>4 DEF Known, Quiet
  <2> DEFINE o == [mop EXCEPT !.own = @ /\ mop.pure /\ r.w.pkt.mine]
  <2>6. OpOK(o) /\ o.own
    BY <1>3, <2>2 DEF OpOK
  <2>7. mid' = FALSE /\ \E res : Command(o, res, FALSE)
    BY <1>2, <1>8
  <2> HIDE DEF o
  <2>8. PICK res : Command(o, res, mid')
    BY <2>7
  <2> QED
    BY <1>1, <1>3, <1>7, <2>5, <2>6, <2>7, <2>8, CommandKeeps
<1>9. CASE ~(r.ans = "ok" /\ ValidCsw(r.w.pkt))
  <2>1. mid' = mid /\ UNCHANGED bot
    BY <1>1, <1>2, <1>9 DEF bot
  <2>2. CASE ResetThen("broken")
    BY <1>1, <1>3, <1>7, <2>1, <2>2, ResetThenKeeps
  <2>3. IsBusy(stick') /\ stick.tag = tag => "out" \notin stick'.halts
    BY <1>3, <1>7 DEF OutHalted, Goes
  <2>4. CASE Goto("clrcsw")
    <3>1. mop' = [mop EXCEPT !.pc = "clrcsw"] /\ mslot' = mslot
      BY <2>4 DEF Goto
    <3>2. OpOK(mop') /\ mop'.own = mop.own /\ mop'.pc = "clrcsw" /\ mop'.pure = mop.pure /\ mop'.cmd = mop.cmd
      BY <1>3, <3>1, PlaceIs
    <3> QED
      BY <1>1, <1>3, <1>7, <2>1, <2>3, <3>1, <3>2, ExchangeKeeps DEF InExchange
  <2>5. CASE UNCHANGED <<mop, mslot>>
    BY <1>1, <1>3, <1>7, <2>1, <2>3, <2>5, ExchangeKeeps DEF InExchange
  <2>6. CASE Command(mop, "error", TRUE)
    <3>1. Command(mop, "error", mid') /\ Known(mid', stick', ed'["out"].left)
      BY <1>3, <2>1, <2>6 DEF Known, Shapes
    <3> QED
      BY <1>1, <1>3, <1>7, <3>1, CommandKeeps
  <2> QED
    BY <1>2, <1>9, <2>2, <2>4, <2>5, <2>6
<1> QED
  BY <1>8, <1>9

\* The stick after a control request.
LEMMA ClearedIs ==
    ASSUME StickOK(stick), NEW d \in Dirs
    PROVE  /\ StickOK(Cleared(d)) /\ Cleared(d).ph = stick.ph /\ Cleared(d).tag = stick.tag
           /\ Cleared(d).mine = stick.mine /\ Cleared(d).halts = stick.halts \ {d}
BY DEF StickOK, Cleared

LEMMA ResetIs == ASSUME StickOK(stick) PROVE StickOK(Reset) /\ Reset.ph = "idle"
BY DEF StickOK, Reset, Rested

LEMMA ControlIs ==
    ASSUME StickOK(stick), NEW c \in Controls
    PROVE  StickOK(c.stick) /\ c.pc \in {"clrdata", "clrcsw", "reset", "clrin", "clrout"}
BY ClearedIs, ResetIs DEF Controls, Dirs

\* Only the stick and the place of the call have changed.
LEMMA SameShapes ==
    ASSUME Shapes, LeftIsRecent, StickOK(stick'), mid' \in BOOLEAN, UNCHANGED <<tag, ed>>,
           usbFaults' \in 0 .. MaxUsbFaults, usbFaults <= usbFaults'
    PROVE  Shapes' /\ LeftIsRecent'
<1>1. ASSUME NEW t, Behind(t, tag, usbFaults) PROVE Behind(t, tag', usbFaults')
  BY <1>1, BehindStays, MsdAssumption DEF Shapes
<1> QED
  BY <1>1 DEF Shapes, LeftIsRecent

LEMMA ControlKeeps == ASSUME MsdInv, Control PROVE MsdInv'
<1>1. mop # NoOp /\ UNCHANGED <<tag, ed, usbFaults>>
  BY DEF Control
<1>2. PICK c \in Controls :
        /\ At(c.pc) /\ stick' = c.stick /\ mid' = (mid /\ c.pc # "clrout")
        /\ IF c.next = "broken" THEN Command(mop, "error", FALSE) ELSE Goto(c.next)
  BY DEF Control
<1>3. /\ mslot = "Busy" /\ OpOK(mop) /\ mop.own /\ Shapes /\ LeftIsRecent /\ mop.pc = c.pc
      /\ Placed(mop, mid, stick, ed["out"].left, tag, usbFaults) /\ StickOK(stick)
  BY <1>1, <1>2, InFlight DEF At, Shapes
<1>4. Shapes' /\ LeftIsRecent'
  BY <1>1, <1>2, <1>3, ControlIs, SameShapes DEF Shapes
<1>5. mid /\ mid \in BOOLEAN
  BY <1>2, <1>3, ControlIs DEF Placed, InExchange, Shapes
<1>6. ASSUME NEW pc, Goto(pc), Placed([mop EXCEPT !.pc = pc], mid', stick', ed["out"].left, tag, usbFaults)
      PROVE  MsdInv'
  BY <1>1, <1>3, <1>4, <1>6, PlaceKeeps DEF Goto
<1>7. ASSUME NEW pc, NEW e, e = [mop EXCEPT !.pc = pc]
      PROVE  OpOK(e) /\ e.pc = pc /\ e.own /\ e.pure = mop.pure /\ e.then = mop.then /\ e.cmd = mop.cmd
  BY <1>3, <1>7, PlaceIs
<1>8. CASE c.pc \in {"clrdata", "clrcsw"}
  <2>1. PICK d \in Dirs, pc \in {"csw", "csw2"} :
          /\ c.stick = Cleared(d) /\ c.next = pc /\ (c.pc = "clrdata" /\ mop.cmd.kind = "write" => d = "out")
    BY <1>8 DEF Controls, Dirs
  <2>2. Placed([mop EXCEPT !.pc = pc], mid', stick', ed["out"].left, tag, usbFaults)
    <3> DEFINE e == [mop EXCEPT !.pc = pc]
    <3>1. OpOK(e) /\ e.pc = pc /\ e.own /\ e.pure = mop.pure
      BY <1>7
    <3>2. stick' = Cleared(d) /\ mid'
      BY <1>2, <1>5, <1>8, <2>1
    <3>3. /\ stick'.ph = stick.ph /\ stick'.tag = stick.tag /\ stick'.mine = stick.mine
          /\ stick'.halts = stick.halts \ {d}
      BY <1>3, <3>2, ClearedIs
    <3> HIDE DEF e
    <3> QED
      BY <1>3, <1>8, <2>1, <3>1, <3>2, <3>3 DEF Placed, InExchange, IsBusy, e
  <2> QED
    BY <1>2, <1>6, <2>1, <2>2
<1>9. CASE c.pc = "reset"
  <2>1. c.stick = Reset /\ c.next = "clrin"
    BY <1>9 DEF Controls
  <2>2. Placed([mop EXCEPT !.pc = "clrin"], mid', stick', ed["out"].left, tag, usbFaults)
    <3> DEFINE e == [mop EXCEPT !.pc = "clrin"]
    <3>1. OpOK(e) /\ e.pc = "clrin" /\ e.own /\ e.pure = mop.pure /\ e.then = mop.then
      BY <1>7
    <3>2. stick'.ph = "idle" /\ mid'
      BY <1>2, <1>3, <1>5, <1>9, <2>1, ResetIs
    <3> HIDE DEF e
    <3> QED
      BY <1>3, <1>9, <3>1, <3>2 DEF Placed, InExchange, IsBusy, e
  <2> QED
    BY <1>2, <1>6, <2>1, <2>2
<1>10. CASE c.pc = "clrin"
  <2>1. c.stick = Cleared("in") /\ c.next = "clrout"
    BY <1>10 DEF Controls
  <2>2. Placed([mop EXCEPT !.pc = "clrout"], mid', stick', ed["out"].left, tag, usbFaults)
    <3> DEFINE e == [mop EXCEPT !.pc = "clrout"]
    <3>1. OpOK(e) /\ e.pc = "clrout" /\ e.own /\ e.pure = mop.pure /\ e.then = mop.then
      BY <1>7
    <3>2. stick' = Cleared("in") /\ mid'
      BY <1>2, <1>5, <1>10, <2>1
    <3>3. stick'.ph = stick.ph /\ stick'.tag = stick.tag /\ stick'.halts = stick.halts \ {"in"}
      BY <1>3, <3>2, ClearedIs DEF Dirs
    <3> HIDE DEF e
    <3> QED
      BY <1>3, <1>10, <3>1, <3>2, <3>3 DEF Placed, InExchange, IsBusy, e
  <2> QED
    BY <1>2, <1>6, <2>1, <2>2
<1>11. CASE c.pc = "clrout"
  <2>0. c.stick = Cleared("out") /\ c.next = mop.then
    BY <1>11 DEF Controls
  <2>1. mid' = FALSE
    BY <1>2, <1>11
  <2>2. stick'.ph = stick.ph /\ stick'.tag = stick.tag /\ stick'.halts = stick.halts \ {"out"}
    BY <1>2, <1>3, <2>0, ClearedIs DEF Dirs
  <2>3. CASE mop.then = "broken"
    <3>1. Quiet(stick', ed'["out"].left) /\ stick'.halts = {}
      BY <1>1, <1>3, <1>11, <2>2, <2>3 DEF Placed, Quiet, StickOK, Dirs
    <3>2. Command(mop, "error", mid')
      BY <1>2, <2>0, <2>1, <2>3
    <3> QED
      BY <1>1, <1>3, <1>4, <2>1, <3>1, <3>2, CommandKeeps DEF Known
  <2>4. CASE mop.then = "cbw"
    <3> DEFINE e == [mop EXCEPT !.pc = "cbw"]
    <3>1. OpOK(e) /\ e.pc = "cbw" /\ e.own /\ e.pure = mop.pure
      BY <1>7
    <3> HIDE DEF e
    <3>2. Placed(e, mid', stick', ed["out"].left, tag, usbFaults)
      BY <1>3, <1>11, <2>1, <2>2, <2>4, <3>1 DEF Placed, InExchange, IsBusy
    <3> QED
      BY <1>2, <1>6, <2>0, <2>4, <3>2 DEF e
  <2> QED
    BY <1>3, <1>11, <2>3, <2>4 DEF Placed
<1> QED
  BY <1>3, <1>8, <1>9, <1>10, <1>11, ControlIs

LEMMA ControlFailsKeeps == ASSUME MsdInv, ControlFails PROVE MsdInv'
<1>1. mop # NoOp /\ UNCHANGED <<tag, mid, ed>> /\ usbFaults' = usbFaults + 1 /\ usbFaults + 1 <= MaxUsbFaults
      /\ Command(mop, "error", mid')
  BY DEF ControlFails, Spend, bot
<1>2. PICK c \in Controls : At(c.pc) /\ stick' \in {stick, c.stick}
  BY DEF ControlFails
<1>3. /\ mslot = "Busy" /\ OpOK(mop) /\ mop.own /\ Shapes /\ LeftIsRecent /\ mop.pc = c.pc /\ StickOK(stick)
      /\ Placed(mop, mid, stick, ed["out"].left, tag, usbFaults)
  BY <1>1, <1>2, InFlight DEF At, Shapes
<1>4. mid' /\ mid' \in BOOLEAN
  BY <1>1, <1>2, <1>3, ControlIs DEF Placed, InExchange, Shapes
<1>5. usbFaults' \in 0 .. MaxUsbFaults /\ usbFaults <= usbFaults'
  BY <1>1, <1>3, MsdAssumption DEF Shapes
<1>6. Shapes' /\ LeftIsRecent'
  BY <1>1, <1>2, <1>3, <1>4, <1>5, ControlIs, SameShapes
<1> QED
  BY <1>1, <1>3, <1>4, <1>6, CommandKeeps DEF Known

LEMMA CallKeeps == ASSUME MsdInv, NEW q \in Requests, Call(q) PROVE MsdInv'
<1> DEFINE o == [what |-> q.what, at |-> q.at, len |-> q.len, done |-> 0, out |-> <<>>, cur |-> <<>>,
                 up |-> mslot = "Ready", step |-> "tur", tries |-> 0, own |-> TRUE, pure |-> TRUE,
                 cmd |-> Cmd("tur", 0, 0), pc |-> "attach", then |-> "cbw", got |-> <<>>, sent |-> 0]
<1>1. mslot' = "Busy" /\ mop' = (IF o.up THEN Loop(o, mid) ELSE o) /\ UNCHANGED <<mid, tag, ed, stick, usbFaults>>
  BY DEF Call, bot
<1>2. OpOK(o) /\ o.own /\ o.pc = "attach" /\ (o.up <=> mslot = "Ready")
  BY DEF OpOK
<1> HIDE DEF o
<1>3. Shapes' /\ LeftIsRecent'
  BY <1>1 DEF MsdInv, Shapes, LeftIsRecent
<1>4. CASE o.up
  <2>1. Known(mid, stick, ed["out"].left)
    BY <1>2, <1>4 DEF MsdInv, Shapes, Known, Resting
  <2>2. Placed(Loop(o, mid), mid, stick, ed["out"].left, tag, usbFaults)
    BY <1>2, <2>1, LoopPlaced
  <2> QED
    BY <1>1, <1>3, <1>4, <2>2 DEF MsdInv
<1>5. CASE ~o.up
  <2>1. Placed(o, mid, stick, ed["out"].left, tag, usbFaults)
    BY <1>2, <1>5 DEF Placed, InExchange
  <2> QED
    BY <1>1, <1>3, <1>5, <2>1 DEF MsdInv
<1> QED
  BY <1>4, <1>5

\* A port reset, from whatever the stick was doing.
LEMMA PortResetIs ==
    ASSUME Shapes, PortReset, UNCHANGED <<bot, usbFaults>>
    PROVE  Shapes' /\ LeftIsRecent' /\ Quiet(stick', ed'["out"].left)
<1>1. StickOK(stick') /\ stick'.ph = "idle"
  BY DEF PortReset, Rested, StickOK, Dirs
<1>2. ed' = [d \in Dirs |-> IF ed[d].left = NoTd THEN ed[d] ELSE [ed[d] EXCEPT !.halted = TRUE, !.left = NoTd]]
  BY DEF PortReset
<1>3. \A d \in Dirs : EdOK(ed'[d]) /\ ed'[d].left = NoTd
  BY <1>2 DEF Shapes, EdOK
<1>4. ed' = [d \in Dirs |-> ed'[d]]
  BY <1>2
<1> QED
  BY <1>1, <1>3, <1>4 DEF Shapes, LeftIsRecent, Quiet, Dirs, bot

LEMMA BringUpKeeps ==
    ASSUME MsdInv, Attach \/ OpenIn \/ OpenOut \/ BringUpFails
    PROVE  MsdInv'
<1>1. mop # NoOp /\ mop.pc \in {"attach", "openin", "openout"}
  BY DEF Attach, OpenIn, OpenOut, BringUpFails, At
<1>2. /\ mslot = "Busy" /\ OpOK(mop) /\ mop.own /\ Shapes /\ LeftIsRecent /\ ~mop.up
      /\ mop.pc # "attach" => Quiet(stick, ed["out"].left)
  BY <1>1, InFlight DEF Placed
<1>3. ASSUME NEW pc \in {"openin", "openout"}, Goto(pc), Shapes', LeftIsRecent', Quiet(stick', ed'["out"].left)
      PROVE  MsdInv'
  <2>1. mop' = [mop EXCEPT !.pc = pc] /\ mslot' = mslot
    BY <1>3 DEF Goto
  <2>2. OpOK(mop') /\ mop'.pc = pc /\ mop'.own /\ ~mop'.up
    BY <1>2, <2>1, PlaceIs
  <2>3. Placed(mop', mid', stick', ed'["out"].left, tag', usbFaults')
    BY <1>3, <2>2 DEF Placed, InExchange
  <2> QED
    BY <1>2, <1>3, <2>1, <2>3, PlaceKeeps
<1>4. CASE Attach
  BY <1>2, <1>3, <1>4, PortResetIs DEF Attach
<1>5. EdOK(FreshEd) /\ FreshEd.left = NoTd
  BY DEF EdOK, FreshEd
<1>6. CASE OpenIn
  <2>1. ed' = [ed EXCEPT !["in"] = FreshEd] /\ UNCHANGED <<bot, stick, usbFaults>> /\ Goto("openout")
    BY <1>6 DEF OpenIn
  <2>2. ed'["out"] = ed["out"] /\ ed' = [d \in Dirs |-> ed'[d]] /\ \A d \in Dirs : EdOK(ed'[d])
    BY <1>2, <1>5, <2>1 DEF Shapes, Dirs
  <2>3. Shapes' /\ LeftIsRecent'
    BY <1>2, <2>1, <2>2 DEF Shapes, LeftIsRecent, bot
  <2>4. Quiet(stick', ed'["out"].left)
    BY <1>2, <1>6, <2>1, <2>2 DEF OpenIn, At
  <2> QED
    BY <1>3, <2>1, <2>3, <2>4
<1>7. CASE OpenOut
  <2>1. /\ ed' = [ed EXCEPT !["out"] = FreshEd] /\ UNCHANGED <<mslot, stick, usbFaults>> /\ tag' = 0 /\ mid' = FALSE
        /\ mop' = Execute(mop, Cmd("tur", 0, 0), FALSE) /\ mop.pc = "openout"
    BY <1>7 DEF OpenOut, At
  <2>2. ed'["out"] = FreshEd /\ ed' = [d \in Dirs |-> ed'[d]] /\ \A d \in Dirs : EdOK(ed'[d])
    BY <1>2, <1>5, <2>1 DEF Shapes, Dirs
  <2>3. Shapes' /\ LeftIsRecent'
    <3>1. tag' \in 0 .. TagSpace - 1
      BY <2>1, MsdAssumption
    <3>2. mid' \in BOOLEAN
      BY <2>1
    <3>3. ed'["out"].left = NoTd
      BY <1>5, <2>2
    <3> QED
      BY <1>2, <2>1, <2>2, <3>1, <3>2, <3>3 DEF Shapes, LeftIsRecent
  <2> DEFINE e == Execute(mop, Cmd("tur", 0, 0), FALSE)
  <2>4. OpOK(e) /\ e.own /\ e.pure /\ e.pc = "cbw"
    BY <1>2 DEF Execute, OpOK
  <2> HIDE DEF e
  <2>5. Placed(e, mid', stick', ed'["out"].left, tag', usbFaults')
    BY <1>2, <2>1, <2>4 DEF Placed, InExchange, IsBusy, Quiet
  <2> QED
    BY <1>2, <2>1, <2>3, <2>5, PlaceKeeps DEF e
<1>8. CASE BringUpFails
  <2>1. mop' = NoOp /\ mslot' = "Empty" /\ UNCHANGED <<bot, usbFaults>>
    BY <1>2, <1>8 DEF BringUpFails, EndCall
  <2>2. Shapes' /\ LeftIsRecent'
    <3>1. CASE UNCHANGED <<stick, ed>>
      BY <1>2, <2>1, <3>1 DEF Shapes, LeftIsRecent, bot
    <3>2. CASE PortReset
      BY <1>2, <2>1, <3>2, PortResetIs
    <3> QED
      BY <1>8, <3>1, <3>2 DEF BringUpFails
  <2> QED
    BY <2>1, <2>2 DEF MsdInv
<1> QED
  BY <1>4, <1>6, <1>7, <1>8

LEMMA ReturnKeeps == ASSUME MsdInv, Return PROVE MsdInv'
<1>1. mop # NoOp /\ mop.pc \in {"ret", "refuse"} /\ EndCall /\ UNCHANGED <<bot, ed, stick, usbFaults>>
  BY DEF Return, At
<1>2. Shapes /\ LeftIsRecent /\ (~mid => Resting)
  BY <1>1, InFlight DEF Placed, Resting
<1>3. Shapes' /\ LeftIsRecent' /\ Known(mid', stick', ed'["out"].left)
  BY <1>1, <1>2 DEF Shapes, LeftIsRecent, Known, Resting, bot
<1> QED
  BY <1>1, <1>3, EndKeeps

LEMMA CancelKeeps == ASSUME MsdInv, MaxUsbFaults + 1 < TagSpace, Cancel PROVE MsdInv'
<1>1. mop # NoOp /\ EndCall
  BY DEF Cancel
<1>2. /\ Shapes /\ LeftIsRecent /\ Placed(mop, mid, stick, ed["out"].left, tag, usbFaults)
  BY <1>1, InFlight
<1>3. ASSUME Shapes', LeftIsRecent', mid' PROVE MsdInv'
  BY <1>1, <1>3, EndKeeps DEF Known, Shapes
<1>4. CASE At("cbw") /\ tag' = (tag + 1) % TagSpace /\ mid' = TRUE
           /\ \E r \in CancelledTd("out", [cmd |-> mop.cmd, tag |-> (tag + 1) % TagSpace]) : Apply("out", r)
  <2> DEFINE td == [cmd |-> mop.cmd, tag |-> (tag + 1) % TagSpace]
  <2>1. PICK r \in CancelledTd("out", td) : Apply("out", r)
    BY <1>4
  <2>2. /\ ResultOK(r) /\ r.w.f = 1 /\ Moves("out", td, r.ans, r.w.stick)
        /\ r.ed.left \in {NoTd, td, ed["out"].left}
    BY <1>2, CancelLeaves DEF Dirs
  <2>3. /\ ed' = [ed EXCEPT !["out"] = r.ed] /\ stick' = r.w.stick /\ StickOK(r.w.stick)
        /\ usbFaults' = usbFaults + 1 /\ usbFaults + 1 <= MaxUsbFaults
    BY <2>1, <2>2 DEF Apply, Spend, Moves, Goes, Begins
  <2>4. ed'["out"] = r.ed /\ ed' = [d \in Dirs |-> ed'[d]] /\ \A d \in Dirs : EdOK(ed'[d])
    BY <1>2, <2>2, <2>3 DEF Shapes, ResultOK, Dirs
  <2>5. Shapes'
    BY <1>2, <1>4, <2>3, <2>4, NextTag, MsdAssumption DEF Shapes
  <2>6. LeftIsRecent'
    <3>1. Behind(tag', tag', usbFaults')
      BY <2>5, LastIsRecent, MsdAssumption DEF Shapes
    <3>2. ASSUME NEW t, Behind(t, tag, usbFaults) PROVE Behind(t, tag', usbFaults')
      BY <1>2, <1>4, <2>3, <3>2, NextIsNew DEF Shapes
    <3>3. r.ed.left = td => r.ed.left.tag = tag'
      BY <1>4
    <3> QED
      BY <1>2, <2>2, <2>4, <3>1, <3>2, <3>3 DEF LeftIsRecent
  <2> QED
    BY <1>3, <1>4, <2>5, <2>6
<1>5. ASSUME InExchange(mop.pc), UNCHANGED bot, NEW d \in Dirs, NEW td, d = "out" => "cmd" \notin DOMAIN td,
             NEW r \in CancelledTd(d, td), Apply(d, r)
      PROVE  MsdInv'
  <2>1. tag' = tag /\ mid' = mid /\ mid /\ mid \in BOOLEAN
    BY <1>2, <1>5 DEF bot, Placed, Shapes
  <2>2. /\ ResultOK(r) /\ Moves(d, td, r.ans, r.w.stick) /\ r.ed.left \in {NoTd, td, ed[d].left}
    BY <1>2, <1>5, CancelLeaves
  <2>3. Shapes' /\ LeftIsRecent'
    BY <1>2, <1>5, <2>1, <2>2, AfterApply
  <2> QED
    BY <1>3, <2>1, <2>3
<1>6. CASE /\ At("data") /\ mop.cmd.kind = "write" /\ UNCHANGED bot
           /\ \E r \in CancelledTd("out", [cell |-> Payload(mop)[mop.sent + 1]]) : Apply("out", r)
  <2>1. "cmd" \notin DOMAIN [cell |-> Payload(mop)[mop.sent + 1]]
    OBVIOUS
  <2> QED
    BY <1>5, <1>6, <2>1 DEF At, InExchange, Dirs
<1>7. CASE /\ At("data") /\ UNCHANGED bot
           /\ \E r \in CancelledTd("in", mop.cmd.kind) : Apply("in", r)
  BY <1>5, <1>7 DEF At, InExchange, Dirs
<1>8. CASE /\ At("csw") \/ At("csw2")
           /\ UNCHANGED bot /\ \E r \in CancelledTd("in", "csw") : Apply("in", r)
  BY <1>5, <1>8 DEF At, InExchange, Dirs
<1>9. CASE /\ \E c \in Controls : At(c.pc) /\ stick' \in {stick, c.stick}
           /\ Spend(1) /\ UNCHANGED <<bot, ed, medium>>
  <2>1. PICK c \in Controls : At(c.pc) /\ stick' \in {stick, c.stick}
    BY <1>9
  <2>2. mid' /\ mid' \in BOOLEAN /\ tag' = tag /\ ed' = ed /\ StickOK(stick')
    BY <1>2, <1>9, <2>1, ControlIs DEF Placed, InExchange, Shapes, At, bot
  <2>3. usbFaults' \in 0 .. MaxUsbFaults /\ usbFaults <= usbFaults'
    BY <1>2, <1>9, MsdAssumption DEF Spend, Shapes
  <2> QED
    BY <1>2, <1>3, <2>2, <2>3, SameShapes
<1> QED
  BY <1>4, <1>6, <1>7, <1>8, <1>9 DEF Cancel

\* The controller serves a descriptor that nobody waits for: from the OUT
\* endpoint it may begin a command, one of the last; from the IN endpoint it
\* takes nothing that a call could miss.
LEMMA ServeLeftKeeps == ASSUME MsdInv, NEW d \in Dirs, ServeLeft(d) PROVE MsdInv'
<1>1. PICK w \in OnWire(d, ed[d].left) :
        /\ w.ans # "nak"
        /\ stick' = w.stick /\ Spend(w.f)
        /\ ed' = [ed EXCEPT ![d] = Served(d, w)]
  BY DEF ServeLeft
<1>2. ed[d].left # NoTd /\ mop' = mop /\ mslot' = mslot /\ mid' = mid /\ tag' = tag
  BY DEF ServeLeft, bot
<1>3. Shapes /\ LeftIsRecent /\ StickOK(stick) /\ EdOK(ed[d])
  BY DEF MsdInv, Shapes
<1>4. WireOK(w) /\ Moves(d, ed[d].left, w.ans, w.stick)
  BY <1>3, TransferIs
<1>5. PICK e : ed' = [ed EXCEPT ![d] = e] /\ EdOK(e) /\ e.left \in {NoTd, ed[d].left}
  <2>1. /\ EdOK([ed[d] EXCEPT !.halted = TRUE, !.left = NoTd])
        /\ [ed[d] EXCEPT !.halted = TRUE, !.left = NoTd].left = NoTd
    BY <1>3 DEF EdOK
  <2>2. /\ EdOK([ed[d] EXCEPT !.carry = Flip(@), !.left = NoTd])
        /\ [ed[d] EXCEPT !.carry = Flip(@), !.left = NoTd].left = NoTd
    BY <1>3 DEF EdOK
  <2>3. EdOK(Served(d, w)) /\ Served(d, w).left \in {NoTd, ed[d].left}
    <3>1. w.ans = "dropped" => ~Overruns(d, ed[d].left, w)
      BY DEF Overruns
    <3>2. \/ Served(d, w) = ed[d]
          \/ Served(d, w) = [ed[d] EXCEPT !.halted = TRUE, !.left = NoTd]
          \/ Served(d, w) = [ed[d] EXCEPT !.carry = Flip(@), !.left = NoTd]
      BY <3>1 DEF Served
    <3> QED
      BY <1>3, <2>1, <2>2, <3>2
  <2> QED
    BY <1>1, <2>3
<1>6. /\ ed' = [x \in Dirs |-> ed'[x]] /\ \A x \in Dirs : EdOK(ed'[x])
      /\ ed'["out"].left \in {NoTd, ed["out"].left}
  BY <1>3, <1>5 DEF Shapes, Dirs
<1>7. usbFaults' \in 0 .. MaxUsbFaults /\ usbFaults <= usbFaults' /\ usbFaults \in Nat /\ usbFaults' \in Nat
  <2>1. w.f \in {0, 1}
    BY <1>4 DEF WireOK
  <2> QED
    BY <1>1, <1>3, <2>1, MsdAssumption DEF Spend, Shapes
<1>8. StickOK(stick')
  BY <1>1, <1>4 DEF Moves, Goes, Begins
<1>9. Shapes' /\ LeftIsRecent'
  BY <1>2, <1>3, <1>6, <1>7, <1>8, BehindStays DEF Shapes, LeftIsRecent
<1>10. ASSUME IsBusy(stick) => Behind(stick.tag, tag, usbFaults), IsBusy(stick')
       PROVE  Behind(stick'.tag, tag, usbFaults')
  <2>1. CASE Goes(stick, stick')
    BY <1>7, <1>10, <2>1, BehindStays DEF Goes
  <2>2. CASE d = "out" /\ Begins(stick, stick', ed[d].left)
    BY <1>2, <1>3, <1>7, <2>2, BehindStays DEF Begins, LeftIsRecent
  <2> QED
    BY <1>1, <1>4, <2>1, <2>2 DEF Moves
<1>11. ed["out"].left = NoTd => /\ d = "in" /\ Goes(stick, stick') /\ OutHalted(stick, stick')
                               /\ ed'["out"].left = NoTd /\ (stick.ph = "idle" => stick' = stick)
  <2>1. ASSUME d = "in"
        PROVE  Goes(stick, stick') /\ OutHalted(stick, stick') /\ (stick.ph = "idle" => stick' = stick)
    <3>1. w \in InXact
      BY <2>1 DEF OnWire
    <3> QED
      BY <1>1, <1>3, <3>1, InIs
  <2> QED
    BY <1>2, <1>6, <2>1 DEF Dirs
<1>12. Quiet(stick, ed["out"].left) => Quiet(stick', ed'["out"].left) /\ stick' = stick
  BY <1>11 DEF Quiet
<1>13. mop # NoOp => Placed(mop, mid, stick', ed'["out"].left, tag, usbFaults')
  <2> SUFFICES ASSUME mop # NoOp PROVE Placed(mop, mid, stick', ed'["out"].left, tag, usbFaults')
    OBVIOUS
  <2>1. Placed(mop, mid, stick, ed["out"].left, tag, usbFaults)
    BY DEF MsdInv
  <2>2. ASSUME InExchange(mop.pc), IsBusy(stick'), stick'.tag = tag
        PROVE  stick'.mine /\ mop.pure /\ ("out" \in stick'.halts => mop.pc = "clrdata" /\ mop.cmd.kind = "write")
    BY <1>11, <2>1, <2>2 DEF Placed, Goes, OutHalted
  <2>3. ASSUME mop.pc \in {"reset", "clrin", "clrout"}, mop.then = "broken"
        PROVE  /\ ed'["out"].left = NoTd /\ (mop.pc # "reset" => stick'.ph = "idle")
               /\ (mop.pc = "clrout" => "in" \notin stick'.halts)
    BY <1>11, <2>1, <2>3 DEF Placed
  <2>4. InExchange(mop.pc) => mid /\ ed'["out"].left = NoTd
    BY <1>11, <2>1 DEF Placed
  <2> QED
    BY <1>10, <1>12, <2>1, <2>2, <2>3, <2>4 DEF Placed
<1>14. mslot = "Ready" /\ ~mid => Resting'
  BY <1>12 DEF MsdInv, Resting
<1> QED
  BY <1>2, <1>9, <1>13, <1>14 DEF MsdInv

(***************************************************************************)
(* The theorem.                                                            *)
(***************************************************************************)

\* At first the stick answers nothing, and there is no driver.
LEMMA InitMsdInv == MsdInit => MsdInv
<1> SUFFICES ASSUME MsdInit PROVE MsdInv
  OBVIOUS
<1>1. StickOK(stick)
  <2>1. stick \in [ph : {"lost"}, cmd : {stick.cmd}, tag : {stick.tag}, mine : {stick.mine}, buf : {stick.buf},
                   stat : {stick.stat}, halts : {Dirs}, tog : {stick.tog}]
    BY DEF MsdInit, Lost, Rested
  <2> QED
    BY <2>1 DEF StickOK
<1>2. EdOK(FreshEd) /\ FreshEd.left = NoTd
  BY DEF EdOK, FreshEd
<1>3. ed = [d \in Dirs |-> ed[d]] /\ (\A d \in Dirs : EdOK(ed[d])) /\ ed["out"].left = NoTd
  BY <1>2 DEF MsdInit, Dirs
<1>4. tag \in 0 .. TagSpace - 1 /\ usbFaults \in 0 .. MaxUsbFaults
  BY MsdAssumption DEF MsdInit
<1>5. mid \in BOOLEAN /\ mslot # "Ready" /\ mop = NoOp
  BY DEF MsdInit
<1> QED
  BY <1>1, <1>3, <1>4, <1>5 DEF MsdInv, Shapes, LeftIsRecent

\* Every step keeps the invariant, as long as fewer faults happen than there
\* are tags.
LEMMA NextMsdInv ==
    ASSUME MsdInv, MaxUsbFaults + 1 < TagSpace, [MsdNext]_msdVars
    PROVE  MsdInv'
<1>1. CASE UNCHANGED msdVars
  BY <1>1 DEF msdVars, bot, MsdInv, Shapes, LeftIsRecent, Resting
<1>2. CASE MsdNext
  BY <1>2, CallKeeps, BringUpKeeps, ReturnKeeps, CancelKeeps, SendCbwKeeps, DataOutKeeps, DataInKeeps,
     ReadCswKeeps, ControlKeeps, ControlFailsKeeps, ServeLeftKeeps DEF MsdNext
<1> QED
  BY <1>1, <1>2

\* Whatever is lost, halted, cut short or cancelled, in whatever order: a call
\* may start a command only at a stick that expects one, and every status and
\* cell the engine accepts was made for the command it is waiting for.  Faults
\* are fewer than tags (2^32 in the code), because each may leave an old command
\* queued for good, to be served when its tag has come round again.
THEOREM CommandsAlwaysStandAlone ==
    ASSUME MaxUsbFaults + 1 < TagSpace
    PROVE  MsdSpec => []CommandsStandAlone
<1>1. MsdInv => CommandsStandAlone
  BY DEF MsdInv, CommandsStandAlone, KnownState, OwnAnswers, Resting, Quiet, Placed
<1>2. MsdInv /\ [MsdNext]_msdVars => MsdInv'
  BY NextMsdInv
<1> QED
  BY <1>1, <1>2, InitMsdInv, PTL DEF MsdSpec

----------------------------------------------------------------------------
(***************************************************************************)
(* Arithmetic and sequences.                                               *)
(***************************************************************************)

\* Division, and what rounding up to whole blocks gives.
LEMMA DivIs ==
    ASSUME NEW b \in Nat \ {0}, NEW x \in Nat
    PROVE  x \div b \in Nat /\ x % b \in 0 .. b - 1 /\ x = (x \div b) * b + (x % b)
OBVIOUS
LEMMA TimesGrows == ASSUME NEW b \in Nat \ {0}, NEW z \in Int, z >= 1 PROVE z * b >= b
OBVIOUS
LEMMA RoundedUp ==
    ASSUME NEW b \in Nat \ {0}, NEW x \in Nat
    PROVE  /\ (x + b - 1) \div b \in Nat /\ ((x + b - 1) \div b) * b >= x
           /\ x % b = 0 => ((x + b - 1) \div b) * b = x
<1> DEFINE q == (x + b - 1) \div b
           r == (x + b - 1) % b
           p == x \div b
<1>1. x + b - 1 \in Nat
  OBVIOUS
<1>2. x + b - 1 = q * b + r /\ q \in Nat /\ r \in 0 .. b - 1
  BY <1>1, DivIs
<1>3. p \in Nat /\ (x % b = 0 => x = p * b)
  BY DivIs
<1>4. \A y, z \in Nat : y > z => y * b - z * b >= b
  <2>1. TAKE y, z \in Nat
  <2>2. y * b - z * b = (y - z) * b
    OBVIOUS
  <2> QED
    BY <2>2, TimesGrows
<1> HIDE DEF q, r, p
<1>5. q * b >= x
  BY <1>2
<1>6. ASSUME x % b = 0 PROVE q * b = x
  <2>1. q * b \in Nat /\ p * b \in Nat
    BY <1>2, <1>3
  <2>2. q > p \/ q = p \/ p > q
    BY <1>2, <1>3
  <2> QED
    BY <1>2, <1>3, <1>4, <1>6, <2>1, <2>2
<1> QED
  BY <1>2, <1>5, <1>6 DEF q

\* A sequence of anything.
IsSeq(s) == s \in Seq({s[i] : i \in DOMAIN s})

LEMMA EmptyIs == IsSeq(<<>>) /\ Len(<<>>) = 0
BY DEF IsSeq
LEMMA AppendIs ==
    ASSUME NEW s, IsSeq(s), NEW e
    PROVE  LET a == Append(s, e) IN
           /\ IsSeq(a) /\ Len(a) = Len(s) + 1 /\ Len(s) \in Nat /\ a[Len(s) + 1] = e
           /\ \A i \in 1 .. Len(s) : a[i] = s[i]
<1> DEFINE S == {s[i] : i \in DOMAIN s} \cup {e}
           a == Append(s, e)
<1>1. s \in Seq(S) /\ e \in S
  BY DEF IsSeq
<1> HIDE DEF S
<1>2. /\ a \in Seq(S) /\ Len(a) = Len(s) + 1 /\ Len(s) \in Nat /\ a[Len(s) + 1] = e
      /\ \A i \in 1 .. Len(s) : a[i] = s[i]
  BY <1>1
<1> HIDE DEF a
<1>3. a \in Seq({a[i] : i \in DOMAIN a})
  BY <1>2
<1> QED
  BY <1>2, <1>3 DEF a, IsSeq
\* An appended part of a sequence.
Joined(f, s, w, k) == f \o SubSeq(s, w + 1, w + k)
Fun(f, n) == f = [i \in 1 .. n |-> f[i]]
JoinsTo(j, f, n, s, w, k) ==
    Fun(j, n + k) /\ \A i \in 1 .. n + k : j[i] = IF i <= n THEN f[i] ELSE s[w + i - n]
LEMMA JoinIs ==
    ASSUME NEW n \in Nat, NEW f, NEW s, IsSeq(s), NEW w \in Nat, NEW k \in Nat, w + k <= Len(s),
           Fun(f, n)
    PROVE  JoinsTo(Joined(f, s, w, k), f, n, s, w, k)
<1> DEFINE S == {s[i] : i \in DOMAIN s} \cup {f[i] : i \in 1 .. n}
           t == SubSeq(s, w + 1, w + k)
           j == f \o t
<1>1. s \in Seq(S) /\ f \in Seq(S) /\ Len(f) = n
  <2>1. f \in [1 .. n -> S]
    BY DEF Fun
  <2>2. f \in Seq(S)
    BY <2>1, SeqDef
  <2>3. DOMAIN f = 1 .. n
    BY <2>1
  <2>4. s \in Seq(S)
    BY SeqMonotonic DEF IsSeq
  <2> QED
    BY <2>2, <2>3, <2>4, LenProperties
<1> HIDE DEF S
<1>2. t \in Seq(S) /\ Len(t) = k /\ \A i \in 1 .. k : t[i] = s[w + i]
  <2>1. Len(s) \in Nat /\ \A i \in w + 1 .. w + k : s[i] \in S
    BY <1>1, ElementOfSeq
  <2>2. /\ t \in Seq(S) /\ Len(t) = IF w + 1 <= w + k THEN w + k - (w + 1) + 1 ELSE 0
        /\ \A i \in 1 .. w + k - (w + 1) + 1 : t[i] = s[w + 1 + i - 1]
    BY <2>1, SubSeqProperties, w + 1 \in Int, w + k \in Int
  <2> HIDE DEF t
  <2>3. \A i \in 1 .. k : i \in 1 .. w + k - (w + 1) + 1 /\ w + 1 + i - 1 = w + i
    OBVIOUS
  <2> QED
    BY <2>2, <2>3
<1> HIDE DEF t
<1>3. j \in Seq(S) /\ Len(j) = n + k /\ \A i \in 1 .. n + k : j[i] = IF i <= n THEN f[i] ELSE t[i - n]
  BY <1>1, <1>2, ConcatProperties
<1>4. \A i \in 1 .. n + k : j[i] = IF i <= n THEN f[i] ELSE s[w + i - n]
  <2>1. ASSUME NEW i \in 1 .. n + k, i > n PROVE t[i - n] = s[w + i - n]
    <3>1. i - n \in 1 .. k /\ w + (i - n) = w + i - n
      BY <2>1
    <3> QED
      BY <1>2, <3>1
  <2> QED
    BY <1>3, <2>1
<1>5. j = [i \in 1 .. n + k |-> j[i]]
  BY <1>3, LenProperties
<1> HIDE DEF j
<1> QED
  BY <1>4, <1>5 DEF Joined, j, t, Fun, JoinsTo

(***************************************************************************)
(* What a packet does to the data: the stick goes from s to t, the medium  *)
(* from m to n.                                                            *)
(***************************************************************************)
First(c) == c.lba * BlockCells
Stats == {"passed", "failed", "phase", "bad", "short"}
DeviceOK(s) == s.tog = [d \in Dirs |-> s.tog[d]] /\ s.stat \in Stats

\* Nothing of the data moves, though a command may end early.
Stays(s, t, m, n) ==
    /\ n = m /\ (t.ph \in {"out", "in"} => t = s)
    /\ t.ph = "status" => t.tag = s.tag /\ t.cmd = s.cmd /\ (IF s.ph = "status" THEN t.stat = s.stat ELSE t.stat # "passed")
    /\ t.ph = "status" => s.ph \in {"in", "out", "status"}
\* Packet p begins a command.
Starts(s, t, m, n, p) ==
    /\ n = m /\ s.ph = "idle" /\ "cmd" \in DOMAIN p /\ t.cmd = p.cmd /\ t.tag = p.tag /\ t.buf = <<>>
    /\ t.ph = IF Expect(p.cmd) = 0 THEN "status" ELSE IF p.cmd.kind = "write" THEN "out" ELSE "in"
    /\ t.tog["out"] = Flip(s.tog["out"])
\* Packet p is the next cell of a write.
Fills(s, t, m, n, p) ==
    /\ s.ph = "out" /\ "cmd" \notin DOMAIN p /\ t.cmd = s.cmd /\ t.tag = s.tag /\ t.stat = s.stat
    /\ t.tog["out"] = Flip(s.tog["out"])
    /\ LET buf == Append(s.buf, p.cell) IN
       \/ Len(buf) < Expect(s.cmd) /\ t.ph = "out" /\ t.buf = buf /\ n = m
       \/ /\ ~(Len(buf) < Expect(s.cmd)) /\ t.ph = "status"
          /\ n = IF s.stat = "passed" THEN Written(m, s.cmd, buf) ELSE m
\* The stick sends the next cell of a read, or of another answer.
Gives(s, t, m, n, p) ==
    /\ n = m /\ s.ph = "in" /\ "cell" \in DOMAIN p /\ t.cmd = s.cmd /\ t.tag = s.tag /\ t.ph \in {"in", "status"}
    /\ s.cmd.kind = "read" => p.cell = m[First(s.cmd) + Len(s.buf)]
    /\ LET buf == Append(s.buf, p.cell) IN
       IF Len(buf) = Expect(s.cmd) THEN t.ph = "status" ELSE t.ph = "in" /\ t.buf = buf

\* A bulk-OUT packet, the toggles of both ends being the same or not.
OutDoes(s, w, m, p, same) ==
    /\ DeviceOK(w.stick)
    /\ \/ Stays(s, w.stick, m, w.medium) /\ (same /\ w.ans = "ok" => w.stick.ph # "out")
          /\ (w.ans = "stall" /\ "out" \notin s.halts => w.stick.ph # "out")
       \/ Starts(s, w.stick, m, w.medium, p) /\ same /\ w.ans = "ok"
       \/ Fills(s, w.stick, m, w.medium, p) /\ same /\ w.ans = "ok"
InDoes(s, w, m) ==
    /\ DeviceOK(w.stick)
    /\ \/ Stays(s, w.stick, m, w.medium) /\ (w.ans = "ok" => "cell" \notin DOMAIN w.pkt)
       \/ Gives(s, w.stick, m, w.medium, w.pkt) /\ w.ans \in {"ok", "dropped"}

LEMMA WireParts ==
    ASSUME NEW ans, NEW s, NEW m, NEW pkt, NEW f
    PROVE  LET w == Wire(ans, s, m, pkt, f) IN w.ans = ans /\ w.stick = s /\ w.medium = m /\ w.pkt = pkt
BY DEF Wire
LEMMA LostData == ASSUME NEW s, DeviceOK(s) PROVE Lost(s).ph = "lost" /\ DeviceOK(Lost(s))
BY DEF Lost, Rested, DeviceOK, Stats
LEMMA EndsData ==
    ASSUME NEW s, StickOK(s), NEW st
    PROVE  LET t == Ends(s, st) IN
           /\ t.ph = "status" /\ t.stat = st /\ t.tag = s.tag /\ t.cmd = s.cmd /\ t.tog = s.tog
BY DEF StickOK, Ends
LEMMA BegunData ==
    ASSUME NEW s, StickOK(s), NEW p, NEW st
    PROVE  LET t == Begun(s, p, st) IN
           /\ t.cmd = p.cmd /\ t.tag = p.tag /\ t.buf = <<>> /\ t.tog = s.tog /\ t.stat = st
           /\ t.ph = IF Expect(p.cmd) = 0 THEN "status" ELSE IF p.cmd.kind = "write" THEN "out" ELSE "in"
BY DEF StickOK, Begun
LEMMA FlipData ==
    ASSUME NEW s, StickOK(s), DeviceOK(s), NEW d \in Dirs
    PROVE  LET t == [s EXCEPT !.tog[d] = Flip(@)] IN
           /\ StickOK(t) /\ DeviceOK(t) /\ t.tog[d] = Flip(s.tog[d])
           /\ t.ph = s.ph /\ t.cmd = s.cmd /\ t.tag = s.tag /\ t.buf = s.buf /\ t.stat = s.stat /\ t.mine = s.mine
           /\ t.halts = s.halts
<1> DEFINE g == [s.tog EXCEPT ![d] = Flip(@)]
           t == [s EXCEPT !.tog = g]
<1>1. g[d] = Flip(s.tog[d]) /\ g = [x \in Dirs |-> g[x]]
  BY DEF DeviceOK
<1>2. /\ StickOK(t) /\ t.tog = g
      /\ t.ph = s.ph /\ t.cmd = s.cmd /\ t.tag = s.tag /\ t.buf = s.buf /\ t.stat = s.stat /\ t.mine = s.mine
      /\ t.halts = s.halts
  BY DEF StickOK
<1>3. t = [s EXCEPT !.tog[d] = Flip(@)]
  OBVIOUS
<1> HIDE DEF g, t
<1> QED
  BY <1>1, <1>2, <1>3 DEF DeviceOK

\* What a stick that expects a command or a cell makes of packet p.
TakenAs(s, w, p) ==
    \/ w.medium = medium /\ w.stick.ph = "lost"
    \/ /\ w.medium = medium /\ s.ph = "out" /\ w.stick.ph = "status" /\ w.stick.tag = s.tag
       /\ w.stick.cmd = s.cmd /\ w.stick.stat # "passed"
    \/ /\ w.ans = "ok" /\ w.medium = medium /\ s.ph = "idle" /\ "cmd" \in DOMAIN p
       /\ w.stick.cmd = p.cmd /\ w.stick.tag = p.tag /\ w.stick.buf = <<>> /\ w.stick.tog = s.tog
       /\ w.stick.ph = IF Expect(p.cmd) = 0 THEN "status" ELSE IF p.cmd.kind = "write" THEN "out" ELSE "in"
    \/ /\ w.ans = "ok" /\ s.ph = "out" /\ "cmd" \notin DOMAIN p /\ w.stick.cmd = s.cmd /\ w.stick.tag = s.tag
       /\ w.stick.stat = s.stat /\ w.stick.tog = s.tog
       /\ LET buf == Append(s.buf, p.cell) IN
          \/ Len(buf) < Expect(s.cmd) /\ w.stick.ph = "out" /\ w.stick.buf = buf /\ w.medium = medium
          \/ /\ ~(Len(buf) < Expect(s.cmd)) /\ w.stick.ph = "status"
             /\ w.medium = IF s.stat = "passed" THEN Written(medium, s.cmd, buf) ELSE medium
LEMMA TakesDoes ==
    ASSUME NEW s, NEW p, StickOK(s), DeviceOK(s), s.ph \in {"idle", "out"}, NEW w \in Takes(s, p)
    PROVE  /\ DeviceOK(w.stick) /\ w.ans \in {"ok", "stall"}
           /\ TakenAs(s, w, p)
<1>1. CASE s.ph = "idle" /\ "cmd" \in DOMAIN p
  <2>1. CASE \E st \in Stats : \E f : w = Wire("ok", Begun(s, p, st), medium, [none |-> TRUE], f)
    <3>1. PICK st \in Stats : \E f : w = Wire("ok", Begun(s, p, st), medium, [none |-> TRUE], f)
      BY <2>1
    <3>2. w.ans = "ok" /\ w.stick = Begun(s, p, st) /\ w.medium = medium
      BY <3>1, WireParts
    <3>3. /\ w.stick.cmd = p.cmd /\ w.stick.tag = p.tag /\ w.stick.buf = <<>> /\ w.stick.tog = s.tog
          /\ w.stick.ph = IF Expect(p.cmd) = 0 THEN "status" ELSE IF p.cmd.kind = "write" THEN "out" ELSE "in"
          /\ w.stick.stat = st
      BY <3>2, BegunData
    <3> HIDE <3>1
    <3> QED
      BY <1>1, <3>2, <3>3 DEF DeviceOK, TakenAs
  <2>2. CASE w = Wire("stall", Lost(s), medium, [none |-> TRUE], 1)
    BY <2>2, WireParts, LostData DEF TakenAs
  <2> QED
    BY <1>1, <2>1, <2>2 DEF Takes, Stats
<1>2. CASE s.ph = "idle" /\ "cmd" \notin DOMAIN p
  <2>1. w = Wire("stall", Lost(s), medium, [none |-> TRUE], 0)
    BY <1>2 DEF Takes
  <2> QED
    BY <2>1, WireParts, LostData DEF TakenAs
<1>3. CASE s.ph = "out"
  <2> DEFINE buf == Append(s.buf, p.cell)
             m == IF s.stat = "passed" THEN Written(medium, s.cmd, buf) ELSE medium
  <2>1. CASE "cmd" \in DOMAIN p
    <3>1. w = Wire("ok", Ends(s, "phase"), medium, [none |-> TRUE], 0)
      BY <1>3, <2>1 DEF Takes
    <3>2. w.ans = "ok" /\ w.stick = Ends(s, "phase") /\ w.medium = medium
      BY <3>1, WireParts
    <3> QED
      BY <1>3, <3>2, EndsData DEF DeviceOK, TakenAs, Stats
  <2>2. CASE "cmd" \notin DOMAIN p /\ Len(buf) < Expect(s.cmd)
    <3>1. w = Wire("ok", [s EXCEPT !.buf = buf], medium, [none |-> TRUE], 0)
      BY <1>3, <2>2 DEF Takes
    <3>2. w.ans = "ok" /\ w.stick = [s EXCEPT !.buf = buf] /\ w.medium = medium
      BY <3>1, WireParts
    <3> HIDE DEF buf
    <3>3. /\ w.stick.buf = buf /\ w.stick.ph = "out" /\ w.stick.cmd = s.cmd /\ w.stick.tag = s.tag
          /\ w.stick.stat = s.stat /\ w.stick.tog = s.tog
      BY <1>3, <3>2 DEF StickOK
    <3> QED
      BY <1>3, <2>2, <3>2, <3>3 DEF DeviceOK, TakenAs, buf
  <2>3. CASE "cmd" \notin DOMAIN p /\ ~(Len(buf) < Expect(s.cmd))
    <3>1. w = Wire("ok", Ends(s, s.stat), m, [none |-> TRUE], 0)
      BY <1>3, <2>3 DEF Takes
    <3> HIDE DEF m, buf
    <3>2. w.ans = "ok" /\ w.stick = Ends(s, s.stat) /\ w.medium = m
      BY <3>1, WireParts
    <3>3. /\ w.stick.ph = "status" /\ w.stick.cmd = s.cmd /\ w.stick.tag = s.tag
          /\ w.stick.stat = s.stat /\ w.stick.tog = s.tog
      BY <3>2, EndsData
    <3> QED
      BY <1>3, <2>3, <3>2, <3>3 DEF DeviceOK, TakenAs, m, buf
  <2> QED
    BY <2>1, <2>2, <2>3
<1> QED
  BY <1>1, <1>2, <1>3

LEMMA OutData ==
    ASSUME StickOK(stick), DeviceOK(stick), NEW p, NEW w \in Out(p)
    PROVE  OutDoes(stick, w, medium, p, ed["out"].carry = stick.tog["out"])
<1> DEFINE s == [stick EXCEPT !.tog["out"] = Flip(@)]
           same == ed["out"].carry = stick.tog["out"]
<1>1. /\ StickOK(s) /\ DeviceOK(s) /\ s.tog["out"] = Flip(stick.tog["out"]) /\ s.ph = stick.ph /\ s.cmd = stick.cmd
      /\ s.tag = stick.tag /\ s.buf = stick.buf /\ s.stat = stick.stat
  BY FlipData DEF Dirs
<1>2. CASE \E ans \in {"ok", "stall", "nak"} :
             /\ w = Wire(ans, stick, medium, NoPkt, 0)
             /\ ans = "ok" => ~same
             /\ ans = "stall" => "out" \in stick.halts
             /\ ans = "nak" => stick.ph \in {"in", "status"}
  <2>1. PICK ans \in {"ok", "stall", "nak"} :
          /\ w = Wire(ans, stick, medium, NoPkt, 0) /\ (ans = "ok" => ~same)
          /\ ans = "stall" => "out" \in stick.halts
    BY <1>2
  <2>2. w.ans = ans /\ w.stick = stick /\ w.medium = medium
    BY <2>1, WireParts
  <2> QED
    BY <2>1, <2>2 DEF OutDoes, Stays
<1>3. CASE w = Wire("stall", Lost(stick), medium, NoPkt, 0)
  <2>1. w.ans = "stall" /\ w.stick = Lost(stick) /\ w.medium = medium
    BY <1>3, WireParts
  <2> QED
    BY <2>1, LostData DEF OutDoes, Stays
<1>4. CASE stick.ph \in {"idle", "out"} /\ same /\ w \in Takes(s, p)
  <2> HIDE DEF s
  <2>1. /\ DeviceOK(w.stick) /\ w.ans \in {"ok", "stall"}
        /\ TakenAs(s, w, p)
    BY <1>1, <1>4, TakesDoes
  <2> QED
    BY <1>1, <1>4, <2>1 DEF OutDoes, Stays, Starts, Fills, TakenAs
<1>5. CASE /\ stick.ph = "out"
           /\ \E st \in {"failed", "short"} :
                w = Wire("stall", [Ends(stick, st) EXCEPT !.halts = @ \cup {"out"}], medium, NoPkt, 1)
  <2>1. PICK st \in {"failed", "short"} :
          w = Wire("stall", [Ends(stick, st) EXCEPT !.halts = @ \cup {"out"}], medium, NoPkt, 1)
    BY <1>5
  <2>2. w.ans = "stall" /\ w.stick = [Ends(stick, st) EXCEPT !.halts = @ \cup {"out"}] /\ w.medium = medium
    BY <2>1, WireParts
  <2>3. StickOK(Ends(stick, st))
    BY EndsIs
  <2>4. /\ w.stick.ph = "status" /\ w.stick.stat = st /\ w.stick.tag = stick.tag /\ w.stick.cmd = stick.cmd
        /\ w.stick.tog = stick.tog
    BY <2>2, <2>3, EndsData DEF StickOK
  <2> QED
    BY <1>5, <2>2, <2>4 DEF OutDoes, Stays, DeviceOK, Stats
<1> HIDE DEF s
<1>6. stick.ph \in {"idle", "in", "out", "status", "lost"}
  BY DEF StickOK
<1> QED
  BY <1>2, <1>3, <1>4, <1>5, <1>6 DEF Out, s

LEMMA SendsData ==
    ASSUME NEW s, StickOK(s), DeviceOK(s), s.ph \in {"in", "status"}, NEW x \in Sends(s)
    PROVE  /\ DeviceOK(x.s)
           /\ \/ x.s.ph = "idle" /\ "cell" \notin DOMAIN x.pkt
              \/ /\ x.s.ph = "status" /\ s.ph = "in" /\ x.s.stat # "passed" /\ x.s.tag = s.tag /\ x.s.cmd = s.cmd
                 /\ "cell" \notin DOMAIN x.pkt
              \/ Gives(s, x.s, medium, medium, x.pkt)
<1>1. CASE s.ph = "in"
  <2> DEFINE c == s.cmd
             cell == IF c.kind = "read" THEN medium[c.lba * BlockCells + Len(s.buf)] ELSE 0
             buf == Append(s.buf, cell)
             t == IF Len(buf) = Expect(c) THEN Ends(s, s.stat) ELSE [s EXCEPT !.buf = buf]
             pkt == [cell |-> cell, mine |-> s.mine]
  <2>1. CASE x = [pkt |-> pkt, f |-> 0, s |-> t]
    <3>1. "cell" \in DOMAIN pkt /\ pkt.cell = cell
      OBVIOUS
    <3>2. x.pkt = pkt /\ x.s = t
      BY <2>1
    <3>3. c.kind = "read" => cell = medium[First(c) + Len(s.buf)]
      BY DEF First
    <3> HIDE DEF pkt, cell
    <3>4. /\ t.cmd = s.cmd /\ t.tag = s.tag /\ t.tog = s.tog /\ t.stat = s.stat
          /\ IF Len(buf) = Expect(c) THEN t.ph = "status" ELSE t.ph = "in" /\ t.buf = buf
      <4> HIDE DEF buf
      <4>1. CASE Len(buf) = Expect(c)
        BY <4>1, EndsData
      <4>2. CASE Len(buf) # Expect(c)
        BY <1>1, <4>2 DEF StickOK
      <4> QED
        BY <4>1, <4>2
    <3> HIDE DEF t
    <3>5. DeviceOK(t)
      BY <3>4 DEF DeviceOK
    <3>6. Gives(s, t, medium, medium, pkt)
      BY <1>1, <3>1, <3>3, <3>4 DEF Gives
    <3> QED
      BY <3>2, <3>5, <3>6
  <2>2. CASE \E st \in {"failed", "short"} : x = [pkt |-> NoPkt, f |-> 1, s |-> Ends(s, st)]
    <3>1. PICK st \in {"failed", "short"} : x = [pkt |-> NoPkt, f |-> 1, s |-> Ends(s, st)]
      BY <2>2
    <3>2. x.s = Ends(s, st) /\ "cell" \notin DOMAIN x.pkt
      BY <3>1 DEF NoPkt
    <3> QED
      BY <1>1, <3>2, EndsData DEF DeviceOK, Stats
  <2> HIDE DEF c, cell, buf, t, pkt
  <2> QED
    BY <1>1, <2>1, <2>2 DEF Sends, c, cell, buf, t, pkt
<1>2. CASE s.ph = "status"
  <2>1. x = [pkt |-> [stat |-> s.stat, tag |-> s.tag, mine |-> s.mine], f |-> 0, s |-> Rested(s.halts, s.tog)]
    BY <1>2 DEF Sends
  <2>2. x.s.ph = "idle" /\ x.s.tog = s.tog /\ x.s.stat = "passed"
    BY <2>1 DEF Rested
  <2>3. x.pkt = [stat |-> s.stat, tag |-> s.tag, mine |-> s.mine]
    BY <2>1
  <2>4. "cell" \notin DOMAIN x.pkt
    BY <2>3
  <2> QED
    BY <2>2, <2>4 DEF DeviceOK, Stats
<1> QED
  BY <1>1, <1>2

LEMMA InData ==
    ASSUME StickOK(stick), DeviceOK(stick), NEW w \in InXact
    PROVE  InDoes(stick, w, medium)
<1> DEFINE s == [stick EXCEPT !.tog["in"] = Flip(@)]
<1>1. /\ StickOK(s) /\ DeviceOK(s) /\ s.ph = stick.ph /\ s.cmd = stick.cmd
      /\ s.tag = stick.tag /\ s.buf = stick.buf /\ s.stat = stick.stat
  BY FlipData DEF Dirs
<1>2. CASE \E ans \in {"stall", "nak"} : w = Wire(ans, stick, medium, NoPkt, 0)
  <2>1. PICK ans \in {"stall", "nak"} : w = Wire(ans, stick, medium, NoPkt, 0)
    BY <1>2
  <2>2. w.ans = ans /\ w.stick = stick /\ w.medium = medium
    BY <2>1, WireParts
  <2> QED
    BY <2>1, <2>2 DEF InDoes, Stays
<1>3. CASE w = Wire("stall", Lost(stick), medium, NoPkt, 0)
  <2>1. w.ans = "stall" /\ w.stick = Lost(stick) /\ w.medium = medium
    BY <1>3, WireParts
  <2> QED
    BY <2>1, LostData DEF InDoes, Stays
<1>4. CASE /\ stick.ph \in {"in", "status"}
           /\ \E x \in Sends(s) : \E ans \in {"ok", "dropped"} : w = Wire(ans, x.s, medium, x.pkt, x.f)
  <2> HIDE DEF s
  <2>1. PICK x \in Sends(s), ans \in {"ok", "dropped"} : w = Wire(ans, x.s, medium, x.pkt, x.f)
    BY <1>4
  <2>2. w.ans = ans /\ w.stick = x.s /\ w.medium = medium /\ w.pkt = x.pkt
    BY <2>1, WireParts
  <2>3. /\ DeviceOK(x.s)
        /\ \/ x.s.ph = "idle" /\ "cell" \notin DOMAIN x.pkt
           \/ /\ x.s.ph = "status" /\ s.ph = "in" /\ x.s.stat # "passed" /\ x.s.tag = s.tag /\ x.s.cmd = s.cmd
              /\ "cell" \notin DOMAIN x.pkt
           \/ Gives(s, x.s, medium, medium, x.pkt)
    BY <1>1, <1>4, SendsData
  <2>4. Gives(s, x.s, medium, medium, x.pkt) => Gives(stick, x.s, medium, medium, x.pkt)
    BY <1>1 DEF Gives
  <2> QED
    BY <1>1, <2>2, <2>3, <2>4 DEF InDoes, Stays
<1>5. CASE /\ stick.ph \in {"in", "status"}
           /\ \E t : /\ w = Wire("stall", [t EXCEPT !.halts = @ \cup {"in"}], medium, NoPkt, 1)
                     /\ \/ stick.ph = "status" /\ t = stick
                        \/ stick.ph = "in" /\ \E st \in {"failed", "short"} : t = Ends(stick, st)
  <2>1. PICK t : /\ w = Wire("stall", [t EXCEPT !.halts = @ \cup {"in"}], medium, NoPkt, 1)
                 /\ \/ stick.ph = "status" /\ t = stick
                    \/ stick.ph = "in" /\ \E st \in {"failed", "short"} : t = Ends(stick, st)
    BY <1>5
  <2>2. w.ans = "stall" /\ w.stick = [t EXCEPT !.halts = @ \cup {"in"}] /\ w.medium = medium
    BY <2>1, WireParts
  <2>3. /\ StickOK(t) /\ t.tag = stick.tag /\ t.cmd = stick.cmd /\ t.tog = stick.tog /\ t.ph = "status"
        /\ t.stat \in Stats /\ IF stick.ph = "status" THEN t.stat = stick.stat ELSE t.stat # "passed"
    BY <2>1, EndsIs, EndsData DEF DeviceOK, Stats
  <2>4. /\ w.stick.tag = stick.tag /\ w.stick.cmd = stick.cmd /\ w.stick.tog = stick.tog
        /\ w.stick.ph = "status" /\ w.stick.stat = t.stat
    BY <2>2, <2>3 DEF StickOK
  <2> QED
    BY <1>5, <2>2, <2>3, <2>4 DEF InDoes, Stays, DeviceOK, Stats
<1> HIDE DEF s
<1>6. stick.ph \in {"idle", "in", "out", "status", "lost"}
  BY DEF StickOK
<1> QED
  BY <1>2, <1>3, <1>4, <1>5, <1>6 DEF InXact, s

(***************************************************************************)
(* The data, of a stick s with medium m, q left on the OUT endpoint, and   *)
(* the cells a asked and k acknowledged.                                   *)
(***************************************************************************)
Cells == 0 .. Capacity - 1

\* A write may bring v to cell c: what is there, or what was asked for.
Right(v, c, m, a) == c \in Cells => v = m[c] \/ (v = Name(c) /\ c \in a)

\* What the stick has of a write, and the cell it may still get.
NextCell(s, p, m, a) ==
    IF "cmd" \in DOMAIN p THEN p.cmd.lba \in Nat
    ELSE s.ph = "out" => Right(p.cell, First(s.cmd) + Len(s.buf), m, a)
StickWrites(s, m, a) ==
    s.ph = "out" =>
      /\ s.cmd.kind = "write" /\ s.cmd.lba \in Nat /\ IsSeq(s.buf)
      /\ \A i \in 1 .. Len(s.buf) : Right(s.buf[i], First(s.cmd) + i - 1, m, a)
OwnCells(m, a, k) ==
    /\ m = [c \in Cells |-> m[c]]
    /\ \A c \in Cells : (m[c] = Name(c) /\ c \in a) \/ (m[c] = 0 /\ c \notin k)
DiskOK(s, q, m, a, k) ==
    /\ DeviceOK(s) /\ StickWrites(s, m, a) /\ OwnCells(m, a, k)
    /\ q # NoTd => NextCell(s, q, m, a)

(***************************************************************************)
(* A call o.                                                               *)
(***************************************************************************)
InRecovery(pc) == pc \in {"reset", "clrin", "clrout"}
InCommand(pc) == InExchange(pc) \/ InRecovery(pc) \/ pc = "cbw"
\* Its command is yet to begin; at the end of a reset.
Resets(o) == InRecovery(o.pc) /\ o.then = "cbw"
ToBegin(o) == o.pc = "cbw" \/ Resets(o)
\* Outside of any command.
Between == {"attach", "openin", "openout", "ret", "refuse"}
ReadWrite == {"read", "write"}
Kinds == {"tur", "inquiry", "capacity", "sense"} \cup ReadWrite

\* What it has done so far is right.
Asks(o, m, a) ==
    /\ o.at \in Nat /\ o.len \in Nat /\ o.done \in 0 .. o.len /\ o.what \in ReadWrite
    /\ o.what = "write" /\ o.at + o.len <= Capacity => CellsOf(o.at, o.len) \subseteq a
    /\ o.what = "read" => o.out = [i \in 1 .. o.done |-> m[o.at + i - 1]]
    /\ o.what = "write" => \A c \in CellsOf(o.at, o.done) : m[c] = Name(c)
    /\ ~o.up => o.done = 0

\* Its command c is for the chunk it is at, and a write carries what may be
\* brought to each cell; before a reset it carries new bytes only.
Writes(o, c, m, a) ==
    /\ o.what = "write"
    /\ \A i \in 1 .. Expect(c) : Right(Payload(o)[i], First(c) + i - 1, m, a)
OfChunk(o, c, m, a) ==
    /\ o.up /\ o.at + o.len <= Capacity /\ o.done < o.len
    /\ c = Cmd(c.kind, Chunk(o).lba, Chunk(o).n)
    /\ c.kind = "write" => Writes(o, c, m, a)
HasCommand(o, m, a) ==
    /\ o.cmd.kind \in Kinds /\ o.cmd.lba \in Nat
    /\ o.cmd.kind \in ReadWrite => OfChunk(o, o.cmd, m, a) /\ (o.cmd.kind = "write" /\ Resets(o) => Aligned(Chunk(o)))

Copied(o, m) == \A i \in 1 .. Len(o.got) : First(o.cmd) + i - 1 \in Cells => o.got[i] = m[First(o.cmd) + i - 1]
Stored(o, m) == \A i \in 1 .. Expect(o.cmd) : First(o.cmd) + i - 1 \in Cells => m[First(o.cmd) + i - 1] = Payload(o)[i]

\* The stick works at its command; the OUT endpoint carries the toggle b.
Answers(o, s, b, m) ==
    /\ s.cmd = o.cmd /\ (s.ph = "in" => o.cmd.kind # "write")
    /\ s.ph = "out" =>
         /\ o.pc = "data" /\ b = s.tog["out"] /\ Len(s.buf) = o.sent /\ o.sent < Expect(o.cmd)
         /\ \A i \in 1 .. o.sent : s.buf[i] = Payload(o)[i]
    /\ s.ph = "in" /\ o.cmd.kind = "read" =>
         /\ IsSeq(s.buf) /\ Len(o.got) <= Len(s.buf) /\ Len(s.buf) < Expect(o.cmd)
         /\ Len(o.got) = Len(s.buf) => Copied(o, m)
    /\ s.ph = "status" /\ o.cmd.kind = "read" /\ Len(o.got) = Expect(o.cmd) => Copied(o, m)
    /\ s.ph = "status" /\ o.cmd.kind = "write" /\ s.stat = "passed" => Stored(o, m)
Exchanges(o, s, b, t, m) ==
    /\ IsSeq(o.got) /\ (s.ph = "out" => s.tag = t)
    /\ IsBusy(s) /\ s.tag = t => Answers(o, s, b, m)

Carries(o, md, s, b, t, m, a) ==
    /\ Asks(o, m, a) /\ (InCommand(o.pc) \/ o.pc \in Between)
    /\ o.pc = "ret" => o.done = o.len /\ o.at + o.len <= Capacity
    /\ o.pc \in {"ret", "refuse"} /\ md => o.done = 0
    /\ InCommand(o.pc) => HasCommand(o, m, a)
    /\ ToBegin(o) => o.got = <<>> /\ o.sent = 0
    /\ Resets(o) => o.done = 0
    /\ o.pc \in {"cbw", "clrin", "clrout"} => s.ph # "out"
    /\ InExchange(o.pc) => Exchanges(o, s, b, t, m)

DataInv ==
    /\ DiskOK(stick, ed["out"].left, medium, asked, usbAcked)
    /\ mop # NoOp => Carries(mop, mid, stick, ed["out"].carry, tag, medium, asked)

LEMMA StatusData ==
    ASSUME StickOK(stick), NEW w \in InXact, w.ans = "ok", "stat" \in DOMAIN w.pkt
    PROVE  stick.ph = "status" /\ w.pkt.stat = stick.stat
<1> DEFINE s == [stick EXCEPT !.tog["in"] = Flip(@)]
<1>1. s.ph = stick.ph /\ s.stat = stick.stat
  BY DEF StickOK
<1>2. \A t : Wire("stall", t, medium, NoPkt, 0).ans = "stall" /\ Wire("nak", t, medium, NoPkt, 0).ans = "nak"
             /\ Wire("stall", t, medium, NoPkt, 1).ans = "stall"
  BY WireParts
<1> HIDE DEF s
<1>3. PICK x \in Sends(s) : \E ans : w = Wire(ans, x.s, medium, x.pkt, x.f)
  BY <1>2 DEF InXact, s
<1>4. stick.ph \notin {"lost", "idle", "out"}
  BY <1>2 DEF InXact
<1>5. w.pkt = x.pkt
  BY <1>3, WireParts
<1>6. CASE s.ph = "in"
  <2>1. CASE \E cell, z : x = [pkt |-> [cell |-> cell, mine |-> s.mine], f |-> 0, s |-> z]
    <3>1. PICK cell, z : x = [pkt |-> [cell |-> cell, mine |-> s.mine], f |-> 0, s |-> z]
      BY <2>1
    <3>2. x.pkt = [cell |-> cell, mine |-> s.mine]
      BY <3>1
    <3>3. "stat" \notin DOMAIN x.pkt
      BY <3>2
    <3> QED
      BY <1>5, <3>3
  <2>2. CASE \E z : x = [pkt |-> NoPkt, f |-> 1, s |-> z]
    <3>1. "stat" \notin DOMAIN x.pkt
      BY <2>2 DEF NoPkt
    <3> QED
      BY <1>5, <3>1
  <2> QED
    BY <1>6, <2>1, <2>2 DEF Sends
<1>7. CASE s.ph # "in"
  <2>1. x.pkt = [stat |-> s.stat, tag |-> s.tag, mine |-> s.mine]
    BY <1>7 DEF Sends
  <2>2. x.pkt.stat = s.stat
    BY <2>1
  <2> QED
    BY <1>1, <1>4, <1>5, <1>7, <2>2 DEF StickOK
<1> QED
  BY <1>6, <1>7

(***************************************************************************)
(* What a call of run_bulk_td does to the data.                            *)
(***************************************************************************)
OutResult(td, r) ==
    /\ OutDoes(stick, r.w, medium, td, ed["out"].carry = stick.tog["out"])
    /\ r.ed.left = NoTd \/ (r.w.stick = stick /\ r.w.medium = medium)
InResult(r) == InDoes(stick, r.w, medium)

LEMMA IdleData ==
    ASSUME DeviceOK(stick), NEW f, NEW e
    PROVE  LET r == [w |-> NoTransfer(f), ans |-> "error", ed |-> e] IN
           (\A td : OutResult(td, r)) /\ InResult(r)
<1> DEFINE r == [w |-> NoTransfer(f), ans |-> "error", ed |-> e]
<1>1. r.w = NoTransfer(f) /\ r.ed = e
  OBVIOUS
<1>2. r.w.ans = "nak" /\ r.w.stick = stick /\ r.w.medium = medium
  BY <1>1, WireParts DEF NoTransfer
<1> HIDE DEF r
<1>3. Stays(stick, r.w.stick, medium, r.w.medium)
  BY <1>2 DEF Stays
<1> QED
  BY <1>2, <1>3 DEF OutResult, InResult, OutDoes, InDoes, r

\* A transfer's data does not depend on what is said of it afterwards.
LEMMA SameData ==
    ASSUME NEW w, NEW v, v.ans = w.ans, v.stick = w.stick, v.medium = w.medium, v.pkt = w.pkt
    PROVE  /\ \A s, m, p, same : OutDoes(s, w, m, p, same) => OutDoes(s, v, m, p, same)
           /\ \A s, m : InDoes(s, w, m) => InDoes(s, v, m)
BY DEF OutDoes, InDoes

LEMMA TransferData ==
    ASSUME Shapes, DeviceOK(stick), NEW d \in Dirs, NEW td, ed[d].left = NoTd, NEW r \in Drained(d, td) \cup Disturbed(d, td)
    PROVE  /\ d = "out" => OutResult(td, r) /\ (r.ans = "ok" => r.ed.carry = Flip(ed["out"].carry))
           /\ d = "in" => InResult(r)
<1>1. StickOK(stick) /\ EdOK(ed[d]) /\ FreshEd.left = NoTd
  BY DEF Shapes, FreshEd
<1>2. \A w \in OnWire(d, td) : /\ WireOK(w)
                               /\ d = "out" => OutDoes(stick, w, medium, td, ed["out"].carry = stick.tog["out"])
                               /\ d = "in" => InDoes(stick, w, medium)
  BY <1>1, TransferIs, OutData, InData DEF OnWire
<1>3. CASE r \in Drained(d, td)
  <2> DEFINE Drains(w, e) ==
        /\ r = [w |-> w, ans |-> IF Overruns(d, td, w) \/ w.ans = "nak" THEN "error" ELSE w.ans, ed |-> e]
        /\ e \in {FreshEd, ed[d], [ed[d] EXCEPT !.carry = Flip(@)]}
        /\ w.ans = "ok" /\ ~Overruns(d, td, w) => e = [ed[d] EXCEPT !.carry = Flip(@)]
  <2>1. PICK w \in OnWire(d, td) : \E e : Drains(w, e)
    BY <1>3 DEF Drained
  <2>2. PICK e : Drains(w, e)
    BY <2>1
  <2>3. e.left = NoTd /\ r.w = w /\ r.ed = e
    BY <1>1, <2>2 DEF EdOK
  <2>4. d = "out" /\ r.ans = "ok" => e = [ed["out"] EXCEPT !.carry = Flip(@)]
    BY <2>2 DEF Overruns
  <2>5. d = "out" /\ r.ans = "ok" => e.carry = Flip(ed["out"].carry)
    BY <1>1, <2>4 DEF EdOK
  <2> QED
    BY <1>2, <2>3, <2>5 DEF OutResult, InResult
<1>4. CASE r \in Disturbed(d, td)
  <2>1. CASE \E e : r = [w |-> NoTransfer(1), ans |-> "error", ed |-> e]
    <3>1. PICK e : r = [w |-> NoTransfer(1), ans |-> "error", ed |-> e]
      BY <2>1
    <3>2. r.ans = "error"
      BY <3>1
    <3> QED
      BY <3>1, <3>2, IdleData
  <2>2. CASE \E w \in OnWire(d, td) : r = [w |-> [w EXCEPT !.f = 1], ans |-> "error", ed |-> FreshEd]
    <3>1. PICK w \in OnWire(d, td) : r = [w |-> [w EXCEPT !.f = 1], ans |-> "error", ed |-> FreshEd]
      BY <2>2
    <3>2. r.w = [w EXCEPT !.f = 1] /\ r.ed = FreshEd /\ r.ans = "error"
      BY <3>1
    <3>3. r.w.ans = w.ans /\ r.w.stick = w.stick /\ r.w.medium = w.medium /\ r.w.pkt = w.pkt
      BY <1>2, <3>2 DEF WireOK
    <3> QED
      BY <1>1, <1>2, <3>2, <3>3, SameData DEF OutResult, InResult
  <2> QED
    BY <1>4, <2>1, <2>2 DEF Disturbed
<1> QED
  BY <1>3, <1>4

LEMMA RunData ==
    ASSUME Shapes, DeviceOK(stick), NEW d \in Dirs, NEW td, NEW r \in RunBulkTd(d, td)
    PROVE  /\ d = "out" => OutResult(td, r) /\ (r.ans = "ok" => r.ed.carry = Flip(ed["out"].carry))
           /\ d = "in" => InResult(r)
<1>1. CASE \E e : r = [w |-> NoTransfer(0), ans |-> "error", ed |-> e]
  <2>1. PICK e : r = [w |-> NoTransfer(0), ans |-> "error", ed |-> e]
    BY <1>1
  <2>2. r.ans = "error"
    BY <2>1
  <2> QED
    BY <2>1, <2>2, IdleData
<1>2. CASE ed[d].left = NoTd /\ r \in Drained(d, td) \cup Disturbed(d, td)
  BY <1>2, TransferData
<1> QED
  BY <1>1, <1>2 DEF RunBulkTd

LEMMA CancelData ==
    ASSUME Shapes, DeviceOK(stick), NEW d \in Dirs, NEW td, NEW r \in CancelledTd(d, td)
    PROVE  /\ d = "out" => OutResult(td, r)
           /\ d = "in" => InResult(r)
<1>1. CASE \E q \in RunBulkTd(d, td) : r = [q EXCEPT !.w.f = 1]
  <2>1. PICK q \in RunBulkTd(d, td) : r = [q EXCEPT !.w.f = 1]
    BY <1>1
  <2>2. ResultOK(q)
    BY RunLeaves DEF Leaves
  <2>3. r.ed = q.ed /\ r.w = [q.w EXCEPT !.f = 1]
    BY <2>1, <2>2 DEF ResultOK
  <2>4. r.w.ans = q.w.ans /\ r.w.stick = q.w.stick /\ r.w.medium = q.w.medium /\ r.w.pkt = q.w.pkt
    BY <2>2, <2>3 DEF ResultOK, WireOK
  <2>5. ASSUME d = "out" PROVE OutResult(td, r)
    <3>1. OutResult(td, q)
      BY <2>5, RunData
    <3> QED
      BY <2>3, <2>4, <3>1, SameData DEF OutResult
  <2>6. ASSUME d = "in" PROVE InResult(r)
    <3>1. InResult(q)
      BY <2>6, RunData
    <3> QED
      BY <2>4, <3>1, SameData DEF InResult
  <2> QED
    BY <2>5, <2>6
<1>2. CASE \E e : r = [w |-> NoTransfer(1), ans |-> "error", ed |-> e]
  BY <1>2, IdleData
<1> QED
  BY <1>1, <1>2 DEF CancelledTd

\* From medium m to n, a cell changes to what was asked for.
Kept(m, n, a) == n = [c \in Cells |-> n[c]] /\ \A c \in Cells : n[c] = m[c] \/ (n[c] = Name(c) /\ c \in a)

LEMMA KeptOwn ==
    ASSUME NEW m, NEW n, NEW a, NEW k, OwnCells(m, a, k), Kept(m, n, a)
    PROVE  OwnCells(n, a, k)
BY DEF OwnCells, Kept
LEMMA SameKept == ASSUME NEW m, NEW a, NEW k, OwnCells(m, a, k) PROVE Kept(m, m, a)
BY DEF OwnCells, Kept

\* A medium.
OnDisk(m) == m = [x \in Cells |-> m[x]]
\* The cells of buf are where command c brings them.
Landed(n, c, buf) == \A i \in 1 .. Len(buf) : First(c) + i - 1 \in Cells => n[First(c) + i - 1] = buf[i]
LEMMA WrittenIs ==
    ASSUME NEW m, OnDisk(m), NEW c, c.lba \in Nat, NEW buf, IsSeq(buf), NEW a,
           \A i \in 1 .. Len(buf) : Right(buf[i], First(c) + i - 1, m, a)
    PROVE  LET n == Written(m, c, buf) IN
           Kept(m, n, a) /\ Landed(n, c, buf)
<1> DEFINE n == Written(m, c, buf)
           z == CellsOf(First(c), Len(buf))
<1>1. First(c) \in Nat /\ Len(buf) \in Nat /\ Capacity \in Nat
  BY MsdAssumption DEF First, IsSeq, Capacity
<1>2. DOMAIN m = Cells
  BY DEF OnDisk
<1>3. n = [x \in Cells |-> IF x \in z THEN buf[x - First(c) + 1] ELSE m[x]]
  BY <1>2 DEF Written, First
<1>4. \A x \in z : x \in Cells /\ x - First(c) + 1 \in 1 .. Len(buf) /\ First(c) + (x - First(c) + 1) - 1 = x
  BY <1>1 DEF CellsOf, Cells
<1> HIDE DEF n, z
<1>6. \A x \in z : Right(n[x], x, m, a)
  <2>1. TAKE x \in z
  <2>2. n[x] = buf[x - First(c) + 1]
    BY <1>3, <1>4
  <2>3. Right(buf[x - First(c) + 1], First(c) + (x - First(c) + 1) - 1, m, a)
    BY <1>4
  <2> QED
    BY <1>4, <2>2, <2>3
<1>7. Kept(m, n, a)
  BY <1>3, <1>6 DEF Kept, Right
<1>8. ASSUME NEW i \in 1 .. Len(buf), First(c) + i - 1 \in Cells PROVE n[First(c) + i - 1] = buf[i]
  <2> DEFINE x == First(c) + i - 1
  <2>1. x \in z /\ x - First(c) + 1 = i /\ x \in Cells
    BY <1>1, <1>8 DEF z, CellsOf, Cells
  <2> HIDE DEF x
  <2>2. n[x] = buf[i]
    BY <1>3, <2>1
  <2> QED
    BY <2>2 DEF x
<1> QED
  BY <1>7, <1>8 DEF n, Landed

\* A cell more.
LEMMA AppendRight ==
    ASSUME NEW s, NEW m, NEW a, NEW p, StickWrites(s, m, a), NextCell(s, p, m, a), "cmd" \notin DOMAIN p, s.ph = "out"
    PROVE  LET buf == Append(s.buf, p.cell) IN
           /\ IsSeq(buf) /\ Len(buf) = Len(s.buf) + 1 /\ Len(s.buf) \in Nat /\ buf[Len(s.buf) + 1] = p.cell
           /\ \A i \in 1 .. Len(s.buf) : buf[i] = s.buf[i]
           /\ \A i \in 1 .. Len(buf) : Right(buf[i], First(s.cmd) + i - 1, m, a)
<1> DEFINE buf == Append(s.buf, p.cell)
<1>1. IsSeq(s.buf) /\ s.cmd.lba \in Nat
  BY DEF StickWrites
<1>2. /\ IsSeq(buf) /\ Len(buf) = Len(s.buf) + 1 /\ Len(s.buf) \in Nat /\ buf[Len(s.buf) + 1] = p.cell
      /\ \A i \in 1 .. Len(s.buf) : buf[i] = s.buf[i]
  BY <1>1, AppendIs
<1>3. First(s.cmd) \in Nat
  BY <1>1, MsdAssumption DEF First
<1>4. Right(p.cell, First(s.cmd) + (Len(s.buf) + 1) - 1, m, a)
  <2>1. First(s.cmd) + (Len(s.buf) + 1) - 1 = First(s.cmd) + Len(s.buf)
    BY <1>2, <1>3
  <2> QED
    BY <2>1 DEF NextCell
<1>5. \A i \in 1 .. Len(s.buf) + 1 : i \in 1 .. Len(s.buf) \/ i = Len(s.buf) + 1
  BY <1>2
<1>6. \A i \in 1 .. Len(s.buf) : Right(s.buf[i], First(s.cmd) + i - 1, m, a)
  BY DEF StickWrites
<1> HIDE DEF buf
<1>7. \A i \in 1 .. Len(buf) : Right(buf[i], First(s.cmd) + i - 1, m, a)
  BY <1>2, <1>4, <1>5, <1>6
<1> QED
  BY <1>2, <1>7 DEF buf

\* A packet to the stick.
LEMMA OutKeeps ==
    ASSUME NEW s, NEW q, NEW m, NEW a, NEW k, DiskOK(s, q, m, a, k), NEW w, NEW p, NEW same,
           OutDoes(s, w, m, p, same), NextCell(s, p, m, a)
    PROVE  /\ DiskOK(w.stick, NoTd, w.medium, a, k) /\ Kept(m, w.medium, a)
           /\ w.medium # m => s.ph = "out" /\ "cmd" \notin DOMAIN p /\ w.stick.ph = "status"
<1> DEFINE t == w.stick
           n == w.medium
<1>1. DeviceOK(t) /\ StickWrites(s, m, a) /\ OwnCells(m, a, k) /\ OnDisk(m)
  BY DEF OutDoes, DiskOK, OwnCells, OnDisk
<1>2. ASSUME n = m, StickWrites(t, m, a) PROVE DiskOK(t, NoTd, n, a, k) /\ Kept(m, n, a)
  BY <1>1, <1>2, SameKept DEF DiskOK
<1>3. CASE Stays(s, t, m, n)
  <2>1. StickWrites(t, m, a)
    BY <1>1, <1>3 DEF Stays, StickWrites
  <2> QED
    BY <1>2, <1>3, <2>1 DEF Stays
<1>4. CASE Starts(s, t, m, n, p)
  <2> HIDE DEF t, n
  <2>1. t.ph = "out" => t.cmd.kind = "write" /\ t.cmd.lba \in Nat /\ t.buf = <<>>
    BY <1>4 DEF Starts, NextCell
  <2>2. StickWrites(t, m, a)
    BY <2>1, EmptyIs DEF StickWrites
  <2> QED
    BY <1>2, <1>4, <2>2 DEF Starts, t, n
<1>5. CASE Fills(s, t, m, n, p)
  <2> DEFINE buf == Append(s.buf, p.cell)
  <2>1. /\ IsSeq(buf) /\ \A i \in 1 .. Len(buf) : Right(buf[i], First(s.cmd) + i - 1, m, a)
    BY <1>1, <1>5, AppendRight DEF Fills
  <2>2. s.cmd.kind = "write" /\ s.cmd.lba \in Nat
    BY <1>1, <1>5 DEF StickWrites, Fills
  <2>3. CASE t.ph = "out" /\ t.buf = buf /\ n = m
    <3>1. StickWrites(t, m, a)
      BY <1>5, <2>1, <2>2, <2>3 DEF StickWrites, Fills
    <3> QED
      BY <1>2, <2>3, <3>1
  <2>4. CASE t.ph = "status" /\ n = IF s.stat = "passed" THEN Written(m, s.cmd, buf) ELSE m
    <3>1. Kept(m, Written(m, s.cmd, buf), a)
      BY <1>1, <2>1, <2>2, WrittenIs
    <3>2. Kept(m, n, a)
      BY <1>1, <2>4, <3>1, SameKept
    <3> QED
      BY <1>1, <1>5, <2>4, <3>2, KeptOwn DEF DiskOK, StickWrites, Fills
  <2> QED
    BY <1>5, <2>3, <2>4 DEF Fills
<1> QED
  BY <1>3, <1>4, <1>5 DEF OutDoes

\* A packet from the stick.
LEMMA InKeeps ==
    ASSUME NEW s, NEW q, NEW m, NEW a, NEW k, DiskOK(s, q, m, a, k), NEW w, InDoes(s, w, m)
    PROVE  DiskOK(w.stick, q, w.medium, a, k) /\ w.medium = m /\ (w.stick.ph = "out" => w.stick = s)
<1>1. w.medium = m /\ (w.stick.ph = "out" => w.stick = s) /\ DeviceOK(w.stick)
  BY DEF InDoes, Stays, Gives
<1> QED
  BY <1>1 DEF DiskOK, StickWrites, NextCell

\* More cells asked for.
LEMMA AskedMore ==
    ASSUME NEW a, NEW b, a \subseteq b
    PROVE  /\ \A v, c, m : Right(v, c, m, a) => Right(v, c, m, b)
           /\ \A s, q, m, k : DiskOK(s, q, m, a, k) => DiskOK(s, q, m, b, k)
<1>1. \A v, c, m : Right(v, c, m, a) => Right(v, c, m, b)
  BY DEF Right
<1>2. ASSUME NEW s, NEW q, NEW m, NEW k, DiskOK(s, q, m, a, k) PROVE DiskOK(s, q, m, b, k)
  <2>1. StickWrites(s, m, b)
    BY <1>1, <1>2 DEF DiskOK, StickWrites
  <2>2. q # NoTd => NextCell(s, q, m, b)
    BY <1>1, <1>2 DEF DiskOK, NextCell
  <2> QED
    BY <1>2, <2>1, <2>2 DEF DiskOK, OwnCells
<1> QED
  BY <1>1, <1>2

(***************************************************************************)
(* The chunk a call is at.                                                 *)
(***************************************************************************)
LEMMA ChunkIs ==
    ASSUME NEW o, o.at \in Nat, o.len \in Nat, o.done \in 0 .. o.len
    PROVE  LET k == Chunk(o) IN
           /\ k.lba \in Nat /\ k.within \in Nat /\ k.take \in Nat /\ k.n \in Nat
           /\ k.lba * BlockCells + k.within = o.at + o.done /\ o.done + k.take <= o.len
           /\ k.n * BlockCells \in Nat /\ k.within + k.take <= k.n * BlockCells
           /\ Aligned(k) => k.within = 0 /\ k.n * BlockCells = k.take
<1> DEFINE cursor == o.at + o.done
           within == cursor % BlockCells
           take == IF o.len - o.done < DataCap - within THEN o.len - o.done ELSE DataCap - within
           n == (within + take + BlockCells - 1) \div BlockCells
           k == Chunk(o)
<1>1. k.lba = cursor \div BlockCells /\ k.within = within /\ k.take = take /\ k.n = n
  BY DEF Chunk
<1>2. BlockCells \in Nat \ {0} /\ DataCap \in Nat /\ DataCap >= BlockCells /\ cursor \in Nat
  BY MsdAssumption
<1>3. cursor \div BlockCells \in Nat /\ within \in 0 .. BlockCells - 1 /\ (cursor \div BlockCells) * BlockCells + within = cursor
  BY <1>2, DivIs
<1> HIDE DEF within
<1>4. take \in Nat /\ o.done + take <= o.len
  BY <1>2, <1>3
<1> HIDE DEF take
<1>5. within + take \in Nat
  BY <1>3, <1>4
<1>6. n \in Nat /\ n * BlockCells >= within + take /\ ((within + take) % BlockCells = 0 => n * BlockCells = within + take)
  BY <1>2, <1>5, RoundedUp
<1> HIDE DEF n, cursor, k
<1>7. n * BlockCells \in Nat
  BY <1>2, <1>6
<1>8. Aligned(k) => within = 0 /\ n * BlockCells = take
  BY <1>1, <1>3, <1>4, <1>6 DEF Aligned
<1> QED
  BY <1>1, <1>3, <1>4, <1>6, <1>7, <1>8 DEF cursor, k

\* The chunk and its bytes depend on these fields alone.
LEMMA SameChunk ==
    ASSUME NEW o, NEW e, e.at = o.at, e.len = o.len, e.done = o.done
    PROVE  Chunk(e) = Chunk(o) /\ (e.cur = o.cur => Payload(e) = Payload(o))
BY DEF Chunk, Payload

LEMMA PayloadIs ==
    ASSUME NEW o, NEW i \in 1 .. Chunk(o).n * BlockCells
    PROVE  LET k == Chunk(o) IN
           Payload(o)[i] = IF k.within < i /\ i <= k.within + k.take THEN Name(k.lba * BlockCells + i - 1) ELSE o.cur[i]
BY DEF Payload

LEMMA ExpectIs ==
    ASSUME NEW o, NEW c, NEW m, NEW a, OfChunk(o, c, m, a), c.kind \in ReadWrite
    PROVE  Expect(c) = Chunk(o).n * BlockCells /\ First(c) = Chunk(o).lba * BlockCells /\ c.lba = Chunk(o).lba
<1>1. PICK k : c = Cmd(k, Chunk(o).lba, Chunk(o).n)
  BY DEF OfChunk
<1>2. c.lba = Chunk(o).lba /\ c.n = Chunk(o).n
  BY <1>1 DEF Cmd
<1> QED
  BY <1>2 DEF Expect, First, ReadWrite

\* The part of the chunk that is asked for.
LEMMA OwnPart ==
    ASSUME NEW o, o.at \in Nat, o.len \in Nat, o.done \in 0 .. o.len, o.at + o.len <= Capacity
    PROVE  LET k == Chunk(o)
               f == k.lba * BlockCells IN
           /\ f \in Nat
           /\ \A i \in 1 .. k.n * BlockCells : k.within < i /\ i <= k.within + k.take =>
                f + i - 1 \in CellsOf(o.at, o.len) /\ f + i - 1 \in Cells
           /\ \A c \in CellsOf(o.at, o.done + k.take) : c \in CellsOf(o.at, o.done) \/
                LET i == c - f + 1 IN
                c \in Cells /\ i \in 1 .. k.n * BlockCells /\ k.within < i /\ i <= k.within + k.take /\ f + i - 1 = c
<1> DEFINE k == Chunk(o)
           f == k.lba * BlockCells
           z == k.n * BlockCells
<1>1. /\ k.within \in Nat /\ k.take \in Nat /\ f + k.within = o.at + o.done /\ o.done + k.take <= o.len
      /\ z \in Nat /\ k.within + k.take <= z
  BY ChunkIs
<1>2. f \in Nat
  BY ChunkIs, MsdAssumption
<1>3. Capacity \in Nat
  BY MsdAssumption DEF Capacity
<1> HIDE DEF k, f, z
<1>4. \A i \in 1 .. z : k.within < i /\ i <= k.within + k.take =>
        f + i - 1 \in CellsOf(o.at, o.len) /\ f + i - 1 \in Cells
  BY <1>1, <1>2, <1>3 DEF CellsOf, Cells
<1>5. ASSUME NEW c \in CellsOf(o.at, o.done + k.take), c \notin CellsOf(o.at, o.done)
      PROVE  LET i == c - f + 1 IN
             c \in Cells /\ i \in 1 .. z /\ k.within < i /\ i <= k.within + k.take /\ f + i - 1 = c
  BY <1>1, <1>2, <1>3, <1>5 DEF CellsOf, Cells
<1> QED
  BY <1>2, <1>4, <1>5 DEF k, f, z

\* A whole block is written with new bytes; so is the part asked for of a
\* block that was read.
LEMMA WritesNew ==
    ASSUME NEW o, NEW m, NEW a, Asks(o, m, a), o.what = "write", o.at + o.len <= Capacity,
           \A i \in 1 .. Chunk(o).n * BlockCells :
             ~(Chunk(o).within < i /\ i <= Chunk(o).within + Chunk(o).take)
               => Right(o.cur[i], Chunk(o).lba * BlockCells + i - 1, m, a)
    PROVE  Writes(o, Cmd("write", Chunk(o).lba, Chunk(o).n), m, a)
<1> DEFINE k == Chunk(o)
           c == Cmd("write", k.lba, k.n)
<1>1. Expect(c) = k.n * BlockCells /\ First(c) = k.lba * BlockCells
  BY DEF Expect, Cmd, First
<1>2. \A i \in 1 .. k.n * BlockCells : k.within < i /\ i <= k.within + k.take =>
        k.lba * BlockCells + i - 1 \in CellsOf(o.at, o.len)
  BY OwnPart DEF Asks
<1>3. CellsOf(o.at, o.len) \subseteq a
  BY DEF Asks
<1>4. ASSUME NEW i \in 1 .. k.n * BlockCells PROVE Right(Payload(o)[i], k.lba * BlockCells + i - 1, m, a)
  BY <1>2, <1>3, PayloadIs DEF Right
<1> HIDE DEF k, c
<1> QED
  BY <1>1, <1>4 DEF Writes, k, c
LEMMA WritesWhole ==
    ASSUME NEW o, NEW m, NEW a, Asks(o, m, a), o.what = "write", o.at + o.len <= Capacity, Aligned(Chunk(o))
    PROVE  Writes(o, Cmd("write", Chunk(o).lba, Chunk(o).n), m, a)
<1> DEFINE k == Chunk(o)
<1>1. k.within = 0 /\ k.n * BlockCells = k.take
  BY ChunkIs DEF Asks
<1>2. k.take \in Nat
  BY ChunkIs DEF Asks
<1>3. \A i \in 1 .. k.n * BlockCells : k.within < i /\ i <= k.within + k.take
  BY <1>1, <1>2
<1> HIDE DEF k
<1> QED
  BY <1>3, WritesNew DEF k
LEMMA WritesOver ==
    ASSUME NEW o, NEW m, NEW a, Asks(o, m, a), o.what = "write", OfChunk(o, o.cmd, m, a), o.cmd.kind = "read",
           Copied(o, m), Len(o.got) = Expect(o.cmd),
           NEW e, e.at = o.at, e.len = o.len, e.done = o.done, e.cur = o.got, e.what = o.what, e.out = o.out, e.up = o.up
    PROVE  Writes(e, Cmd("write", Chunk(o).lba, Chunk(o).n), m, a)
<1>1. Chunk(e) = Chunk(o)
  BY SameChunk
<1>2. Asks(e, m, a) /\ e.at + e.len <= Capacity
  BY DEF Asks, OfChunk
<1>3. Expect(o.cmd) = Chunk(o).n * BlockCells /\ First(o.cmd) = Chunk(o).lba * BlockCells
  BY ExpectIs DEF OfChunk, ReadWrite
<1>4. \A i \in 1 .. Chunk(o).n * BlockCells : Right(e.cur[i], Chunk(o).lba * BlockCells + i - 1, m, a)
  BY <1>3 DEF Copied, Right
<1> QED
  BY <1>1, <1>2, <1>4, WritesNew

\* A write that was stored, and a read that was copied, are done.
LEMMA WroteMore ==
    ASSUME NEW o, NEW m, NEW a, Asks(o, m, a), OfChunk(o, o.cmd, m, a), o.cmd.kind = "write", Stored(o, m)
    PROVE  \A c \in CellsOf(o.at, o.done + Chunk(o).take) : m[c] = Name(c)
<1> DEFINE k == Chunk(o)
           f == k.lba * BlockCells
<1>1. /\ o.what = "write" /\ o.at + o.len <= Capacity
      /\ Expect(o.cmd) = k.n * BlockCells /\ First(o.cmd) = f
  BY ExpectIs DEF OfChunk, ReadWrite, Writes
<1>2. ASSUME NEW c \in CellsOf(o.at, o.done + k.take), c \notin CellsOf(o.at, o.done) PROVE m[c] = Name(c)
  <2> DEFINE i == c - f + 1
  <2>1. c \in Cells /\ i \in 1 .. k.n * BlockCells /\ k.within < i /\ i <= k.within + k.take /\ f + i - 1 = c
    BY <1>1, <1>2, OwnPart DEF Asks
  <2>2. Payload(o)[i] = Name(f + i - 1)
    BY <2>1, PayloadIs
  <2> HIDE DEF i, f, k
  <2> QED
    BY <1>1, <2>1, <2>2 DEF Stored
<1> HIDE DEF k
<1> QED
  BY <1>1, <1>2 DEF Asks, k
\* All of a command's data has come.
GotAll(o) == IsSeq(o.got) /\ Len(o.got) = Expect(o.cmd)
LEMMA ReadMore ==
    ASSUME NEW o, NEW m, NEW a, Asks(o, m, a), OfChunk(o, o.cmd, m, a), o.cmd.kind = "read", o.what = "read",
           Copied(o, m), GotAll(o)
    PROVE  LET k == Chunk(o) IN
           o.out \o SubSeq(o.got, k.within + 1, k.within + k.take) = [i \in 1 .. o.done + k.take |-> m[o.at + i - 1]]
<1> DEFINE k == Chunk(o)
           f == k.lba * BlockCells
<1>1. /\ o.at + o.len <= Capacity /\ o.at \in Nat /\ o.len \in Nat /\ o.done \in 0 .. o.len
      /\ o.out = [i \in 1 .. o.done |-> m[o.at + i - 1]]
      /\ Len(o.got) = k.n * BlockCells /\ First(o.cmd) = f
  BY ExpectIs DEF OfChunk, Asks, ReadWrite, GotAll
<1>2. /\ k.within \in Nat /\ k.take \in Nat /\ f + k.within = o.at + o.done /\ o.done + k.take <= o.len
      /\ k.within + k.take <= Len(o.got) /\ Len(o.got) \in Nat
  BY <1>1, ChunkIs
<1>3. f \in Nat /\ Capacity \in Nat
  BY ChunkIs, MsdAssumption DEF Asks, Capacity
<1> HIDE DEF k, f
<1>4. ASSUME NEW i \in 1 .. o.done + k.take PROVE (IF i <= o.done THEN o.out[i] ELSE o.got[k.within + i - o.done]) = m[o.at + i - 1]
  <2>1. CASE i <= o.done
    <3>1. i \in 1 .. o.done
      BY <1>1, <1>2, <2>1
    <3> QED
      BY <1>1, <2>1, <3>1
  <2>2. CASE i > o.done
    <3> DEFINE j == k.within + i - o.done
    <3>0. j \in 1 .. Len(o.got)
      BY <1>1, <1>2, <2>2
    <3>1. f + j - 1 = o.at + i - 1 /\ f + j - 1 \in Cells
      <4>1. o.at \in Nat /\ o.done \in Nat /\ o.len \in Nat /\ i \in Nat /\ i >= 1 /\ i <= o.done + k.take
        BY <1>1, <1>2
      <4>2. /\ k.within \in Nat /\ k.take \in Nat /\ f + k.within = o.at + o.done /\ o.done + k.take <= o.len
            /\ f \in Nat /\ Capacity \in Nat /\ o.at + o.len <= Capacity
        BY <1>1, <1>2, <1>3
      <4>3. f + j - 1 = o.at + i - 1
        BY <4>1, <4>2
      <4>4. o.at + i - 1 \in 0 .. Capacity - 1
        BY <4>1, <4>2
      <4> QED
        BY <4>3, <4>4 DEF Cells
    <3> HIDE DEF j
    <3>2. o.got[j] = m[f + j - 1]
      BY <1>1, <3>0, <3>1 DEF Copied
    <3>3. o.got[j] = m[o.at + i - 1]
      BY <3>1, <3>2
    <3>4. ~(i <= o.done)
      BY <1>1, <1>2, <2>2
    <3> QED
      BY <3>3, <3>4 DEF j
  <2> QED
    BY <1>1, <1>2, <2>1, <2>2
<1>5. Fun(o.out, o.done) /\ o.done \in Nat
  BY <1>1 DEF Fun
<1> DEFINE j == Joined(o.out, o.got, k.within, k.take)
<1>6. JoinsTo(j, o.out, o.done, o.got, k.within, k.take)
  BY <1>2, <1>5, JoinIs DEF GotAll
<1> HIDE DEF j
<1>7. j = [i \in 1 .. o.done + k.take |-> m[o.at + i - 1]]
  BY <1>4, <1>6 DEF Fun, JoinsTo
<1> QED
  BY <1>7 DEF k, j, Joined

(***************************************************************************)
(* Every way on from the end of a command, for the data.                   *)
(***************************************************************************)
LEMMA SameAsks ==
    ASSUME NEW o, NEW e, NEW m, NEW a, Asks(o, m, a), e.at = o.at, e.len = o.len, e.done = o.done,
           e.what = o.what, e.out = o.out, e.up = o.up
    PROVE  Asks(e, m, a)
BY DEF Asks
LEMMA SameOf ==
    ASSUME NEW o, NEW e, NEW c, NEW m, NEW a, OfChunk(o, c, m, a), e.at = o.at, e.len = o.len, e.done = o.done,
           e.what = o.what, e.cur = o.cur, e.up = o.up
    PROVE  OfChunk(e, c, m, a)
<1>1. Chunk(e) = Chunk(o) /\ Payload(e) = Payload(o)
  BY SameChunk
<1>2. Writes(o, c, m, a) => Writes(e, c, m, a)
  BY <1>1 DEF Writes
<1> QED
  BY <1>1, <1>2 DEF OfChunk

LEMMA ExecuteCarries ==
    ASSUME NEW o, OpOK(o), NEW m, NEW a, Asks(o, m, a), NEW c, c.kind \in Kinds, c.lba \in Nat, NEW md \in BOOLEAN,
           c.kind \in ReadWrite => OfChunk(o, c, m, a) /\ (md /\ c.kind = "write" => Aligned(Chunk(o))),
           md => o.done = 0, NEW s, ~md => s.ph # "out", NEW b, NEW t
    PROVE  Carries(Execute(o, c, md), md, s, b, t, m, a)
<1> DEFINE e == Execute(o, c, md)
<1>1. /\ e.at = o.at /\ e.len = o.len /\ e.done = o.done /\ e.what = o.what /\ e.out = o.out /\ e.up = o.up
      /\ e.cur = o.cur /\ e.cmd = c /\ e.pc = (IF md THEN "reset" ELSE "cbw") /\ e.then = "cbw"
      /\ e.got = <<>> /\ e.sent = 0
  BY DEF OpOK, Execute
<1> HIDE DEF e
<1>2. Asks(e, m, a) /\ Chunk(e) = Chunk(o)
  BY <1>1, SameAsks, SameChunk
<1>3. c.kind \in ReadWrite => OfChunk(e, c, m, a)
  BY <1>1, SameOf
<1>4. HasCommand(e, m, a)
  BY <1>1, <1>2, <1>3 DEF HasCommand, Resets, InRecovery
<1>5. (~md => e.pc = "cbw") /\ (md => e.pc = "reset")
  BY <1>1
<1>6. Carries(e, md, s, b, t, m, a)
  BY <1>1, <1>2, <1>4, <1>5 DEF Carries, Between, InCommand, InExchange, InRecovery, Resets
<1> QED
  BY <1>6 DEF e

LEMMA LoopCarries ==
    ASSUME NEW o, OpOK(o), NEW m, NEW a, Asks(o, m, a), o.up, NEW md \in BOOLEAN,
           md => o.done = 0, NEW s, ~md => s.ph # "out", NEW b, NEW t
    PROVE  Carries(Loop(o, md), md, s, b, t, m, a)
<1> DEFINE k == Chunk(o)
<1>1. ASSUME NEW pc \in {"ret", "refuse"}, pc = "ret" => o.done = o.len /\ o.at + o.len <= Capacity
      PROVE  Carries([o EXCEPT !.pc = pc], md, s, b, t, m, a)
  <2> DEFINE e == [o EXCEPT !.pc = pc]
  <2>1. /\ e.at = o.at /\ e.len = o.len /\ e.done = o.done /\ e.what = o.what /\ e.out = o.out /\ e.up = o.up
        /\ e.pc = pc
    BY DEF OpOK
  <2> HIDE DEF e
  <2>2. Asks(e, m, a)
    BY <2>1, SameAsks
  <2> QED
    BY <1>1, <2>1, <2>2 DEF Carries, Between, InCommand, InExchange, InRecovery, Resets, ToBegin, e
<1>2. ASSUME o.at + o.len <= Capacity, o.done # o.len, NEW kind \in ReadWrite,
             kind = "write" => o.what = "write" /\ Aligned(k)
      PROVE  Carries(Execute([o EXCEPT !.cur = <<>>], Cmd(kind, k.lba, k.n), md), md, s, b, t, m, a)
  <2> DEFINE e == [o EXCEPT !.cur = <<>>]
             c == Cmd(kind, k.lba, k.n)
  <2>1. /\ e.at = o.at /\ e.len = o.len /\ e.done = o.done /\ e.what = o.what /\ e.out = o.out /\ e.up = o.up
        /\ OpOK(e)
    BY DEF OpOK
  <2>2. c.kind = kind /\ c.lba = k.lba
    BY DEF Cmd
  <2> HIDE DEF e
  <2>3. Asks(e, m, a) /\ Chunk(e) = k
    BY <2>1, SameAsks, SameChunk
  <2>4. k.lba \in Nat /\ o.done < o.len
    BY <1>2, ChunkIs DEF Asks
  <2> HIDE DEF k
  <2>5. kind = "write" => Writes(e, c, m, a)
    BY <1>2, <2>1, <2>3, WritesWhole
  <2> HIDE DEF c
  <2>6. OfChunk(e, c, m, a)
    BY <1>2, <2>1, <2>2, <2>3, <2>4, <2>5 DEF OfChunk, c
  <2> QED
    BY <1>2, <2>1, <2>2, <2>3, <2>4, <2>6, ExecuteCarries DEF Kinds, e, c
<1>3. CASE o.at + o.len > Capacity
  BY <1>1, <1>3 DEF Loop
<1>4. o.at + o.len <= Capacity \/ o.at + o.len > Capacity
  BY MsdAssumption DEF Asks, Capacity
<1>5. CASE o.at + o.len <= Capacity /\ o.done = o.len
  <2>1. ~(o.at + o.len > Capacity)
    BY <1>5, MsdAssumption DEF Asks, Capacity
  <2> QED
    BY <1>1, <1>5, <2>1 DEF Loop
<1>6. CASE o.at + o.len <= Capacity /\ o.done # o.len
  <2>1. ~(o.at + o.len > Capacity)
    BY <1>6, MsdAssumption DEF Asks, Capacity
  <2> DEFINE kind == IF o.what = "write" /\ Aligned(k) THEN "write" ELSE "read"
  <2>2. kind \in ReadWrite /\ (kind = "write" => o.what = "write" /\ Aligned(k))
    BY DEF ReadWrite
  <2>3. Loop(o, md) = Execute([o EXCEPT !.cur = <<>>], Cmd(kind, k.lba, k.n), md)
    BY <1>6, <2>1 DEF Loop
  <2> HIDE DEF kind, k
  <2> QED
    BY <1>2, <1>6, <2>2, <2>3
<1> QED
  BY <1>3, <1>4, <1>5, <1>6

\* A command that passed has done what it was for.
Delivers(o, m) ==
    /\ o.cmd.kind = "read" => GotAll(o) /\ Copied(o, m)
    /\ o.cmd.kind = "write" => Stored(o, m)
LEMMA PassedCarries ==
    ASSUME NEW o, OpOK(o), NEW m, NEW a, Asks(o, m, a), HasCommand(o, m, a), o.cmd.kind # "sense",
           Delivers(o, m), NEW s, s.ph # "out", NEW b, NEW t
    PROVE  Carries(Passed(o, FALSE), FALSE, s, b, t, m, a)
<1> DEFINE k == Chunk(o)
<1>1. ASSUME NEW kind \in {"inquiry", "capacity"}
      PROVE  Carries(Execute(o, Cmd(kind, 0, 0), FALSE), FALSE, s, b, t, m, a)
  <2> DEFINE c == Cmd(kind, 0, 0)
  <2>1. c.kind \in Kinds /\ c.lba \in Nat /\ c.kind \notin ReadWrite
    BY DEF Cmd, Kinds, ReadWrite
  <2> HIDE DEF c
  <2> QED
    BY <2>1, ExecuteCarries DEF c
<1>2. Carries(Loop([o EXCEPT !.up = TRUE], FALSE), FALSE, s, b, t, m, a)
  <2> DEFINE e == [o EXCEPT !.up = TRUE]
  <2>1. OpOK(e) /\ e.up /\ e.at = o.at /\ e.len = o.len /\ e.done = o.done /\ e.what = o.what /\ e.out = o.out
    BY DEF OpOK
  <2> HIDE DEF e
  <2>2. Asks(e, m, a)
    BY <2>1 DEF Asks
  <2> QED
    BY <2>1, <2>2, LoopCarries DEF e
<1>3. o.cmd.kind \in ReadWrite => OfChunk(o, o.cmd, m, a) /\ o.up
  BY DEF HasCommand, OfChunk
<1>4. k.take \in Nat /\ o.done + k.take \in 0 .. o.len /\ o.done \in Nat
  BY ChunkIs DEF Asks
<1>5. CASE o.cmd.kind = "write"
  <2> DEFINE e == [o EXCEPT !.done = @ + k.take]
  <2>1. /\ OpOK(e) /\ e.up = o.up /\ e.at = o.at /\ e.len = o.len /\ e.done = o.done + k.take /\ e.what = o.what
    BY DEF OpOK
  <2>2. \A c \in CellsOf(o.at, o.done + k.take) : m[c] = Name(c)
    BY <1>3, <1>5, WroteMore DEF ReadWrite, Delivers
  <2> HIDE DEF e, k
  <2>3. o.what = "write" /\ o.up
    BY <1>3, <1>5 DEF OfChunk, Writes, ReadWrite
  <2>4. Asks(e, m, a)
    BY <1>4, <2>1, <2>2, <2>3 DEF Asks
  <2>5. Carries(Loop(e, FALSE), FALSE, s, b, t, m, a)
    BY <2>1, <2>3, <2>4, LoopCarries
  <2>6. Loop(e, FALSE) = Passed(o, FALSE)
    BY <1>5 DEF Passed, e, k
  <2> QED
    BY <2>5, <2>6
<1>6. CASE o.cmd.kind = "read" /\ o.what = "read"
  <2> DEFINE j == o.out \o SubSeq(o.got, k.within + 1, k.within + k.take)
             e == [o EXCEPT !.done = @ + k.take, !.out = j]
  <2>1. j = [i \in 1 .. o.done + k.take |-> m[o.at + i - 1]]
    BY <1>3, <1>6, ReadMore DEF ReadWrite, Delivers
  <2> HIDE DEF j, k
  <2>2. /\ OpOK(e) /\ e.up = o.up /\ e.at = o.at /\ e.len = o.len /\ e.done = o.done + k.take /\ e.what = o.what
        /\ e.out = j
    BY DEF OpOK
  <2> HIDE DEF e
  <2>3. o.up
    BY <1>3, <1>6 DEF ReadWrite
  <2>4. Asks(e, m, a)
    BY <1>4, <1>6, <2>1, <2>2, <2>3 DEF Asks
  <2>5. Carries(Loop(e, FALSE), FALSE, s, b, t, m, a)
    BY <2>2, <2>3, <2>4, LoopCarries
  <2>6. Loop(e, FALSE) = Passed(o, FALSE)
    BY <1>6 DEF Passed, e, j, k
  <2> QED
    BY <2>5, <2>6
<1>7. CASE o.cmd.kind = "read" /\ o.what # "read"
  <2> DEFINE e == [o EXCEPT !.cur = o.got]
             c == Cmd("write", k.lba, k.n)
  <2>1. /\ OpOK(e) /\ e.up = o.up /\ e.at = o.at /\ e.len = o.len /\ e.done = o.done /\ e.what = o.what
        /\ e.out = o.out /\ e.cur = o.got
    BY DEF OpOK
  <2>2. c.kind = "write" /\ c.lba = k.lba /\ k.lba \in Nat
    BY ChunkIs DEF Cmd, Asks
  <2>3. o.what = "write"
    BY <1>7 DEF Asks, ReadWrite
  <2> HIDE DEF e
  <2>4. Asks(e, m, a) /\ Chunk(e) = k
    BY <2>1, SameAsks, SameChunk
  <2>5. Writes(e, c, m, a)
    BY <1>3, <1>7, <2>1, <2>3, WritesOver DEF ReadWrite, Delivers, GotAll
  <2> HIDE DEF c, k
  <2>6. OfChunk(e, c, m, a)
    BY <1>3, <1>7, <2>1, <2>2, <2>4, <2>5 DEF OfChunk, ReadWrite, c
  <2>7. Carries(Execute(e, c, FALSE), FALSE, s, b, t, m, a)
    BY <2>1, <2>2, <2>4, <2>6, ExecuteCarries DEF Kinds, ReadWrite
  <2>8. Execute(e, c, FALSE) = Passed(o, FALSE)
    BY <1>7 DEF Passed, e, c, k
  <2> QED
    BY <2>7, <2>8
<1>8. o.cmd.kind \in {"tur", "inquiry", "capacity", "read", "write"}
  BY DEF HasCommand, Kinds, ReadWrite
<1>9. CASE o.cmd.kind \in {"tur", "inquiry", "capacity"}
  <2>1. /\ o.cmd.kind = "tur" => Passed(o, FALSE) = Execute(o, Cmd("inquiry", 0, 0), FALSE)
        /\ o.cmd.kind = "inquiry" => Passed(o, FALSE) = Execute(o, Cmd("capacity", 0, 0), FALSE)
        /\ o.cmd.kind = "capacity" => Passed(o, FALSE) = Loop([o EXCEPT !.up = TRUE], FALSE)
    BY DEF Passed
  <2> QED
    BY <1>1, <1>2, <1>9, <2>1
<1> QED
  BY <1>5, <1>6, <1>7, <1>8, <1>9

\* The call ends, or goes on with its data in order.
CarriesOn(md, s, b, t, m, a) == mop' = NoOp \/ Carries(mop', md, s, b, t, m, a)
LEMMA CommandCarries ==
    ASSUME NEW o, OpOK(o), NEW m, NEW a, Asks(o, m, a), HasCommand(o, m, a), NEW md \in BOOLEAN, NEW res,
           Command(o, res, md), md => res \notin {"failed", "passed"}, res = "passed" => Delivers(o, m),
           NEW s, ~md => s.ph # "out", NEW b, NEW t
    PROVE  CarriesOn(md, s, b, t, m, a)
<1>1. ASSUME NEW e, OpOK(e), Asks(e, m, a), NEW kind \in {"tur", "sense"}, md => e.done = 0
      PROVE  Carries(Execute(e, Cmd(kind, 0, 0), md), md, s, b, t, m, a)
  <2> DEFINE c == Cmd(kind, 0, 0)
  <2>1. c.kind \in Kinds /\ c.lba \in Nat /\ c.kind \notin ReadWrite
    BY DEF Cmd, Kinds, ReadWrite
  <2> HIDE DEF c
  <2> QED
    BY <1>1, <2>1, ExecuteCarries DEF c
<1>2. CASE o.cmd.kind = "sense"
  <2> DEFINE e == [o EXCEPT !.tries = @ + 1]
  <2>1. OpOK(e) /\ e.at = o.at /\ e.len = o.len /\ e.done = o.done /\ e.what = o.what /\ e.out = o.out /\ e.up = o.up
    BY DEF OpOK
  <2> HIDE DEF e
  <2>2. Asks(e, m, a)
    BY <2>1, SameAsks
  <2>3. CASE ~o.up /\ mop' = Execute(e, Cmd("tur", 0, 0), md)
    <3>1. e.done = 0
      BY <2>1, <2>3 DEF Asks
    <3> QED
      BY <1>1, <2>1, <2>2, <2>3, <3>1 DEF CarriesOn
  <2> QED
    BY <1>2, <2>3 DEF Command, EndCall, CarriesOn, e
<1>3. CASE o.cmd.kind # "sense" /\ res = "failed"
  <2> DEFINE e == [o EXCEPT !.step = o.cmd.kind]
  <2>1. OpOK(e) /\ e.at = o.at /\ e.len = o.len /\ e.done = o.done /\ e.what = o.what /\ e.out = o.out /\ e.up = o.up
    BY DEF OpOK
  <2>2. mop' = Execute(e, Cmd("sense", 0, 0), md)
    BY <1>3 DEF Command
  <2> HIDE DEF e
  <2>3. Asks(e, m, a)
    BY <2>1, SameAsks
  <2> QED
    BY <1>1, <1>3, <2>1, <2>2, <2>3 DEF CarriesOn
<1>4. CASE o.cmd.kind # "sense" /\ res = "passed"
  <2>1. md = FALSE /\ s.ph # "out"
    BY <1>4
  <2>2. mop' = Passed(o, FALSE)
    BY <1>4, <2>1 DEF Command
  <2>3. Carries(Passed(o, FALSE), FALSE, s, b, t, m, a)
    BY <1>4, <2>1, PassedCarries
  <2> QED
    BY <2>1, <2>2, <2>3 DEF CarriesOn
<1>5. CASE o.cmd.kind # "sense" /\ res \notin {"failed", "passed"}
  BY <1>5 DEF Command, EndCall, CarriesOn
<1> QED
  BY <1>2, <1>3, <1>4, <1>5

(***************************************************************************)
(* The data of an exchange: a call o goes on as e.                         *)
(***************************************************************************)

\* The same call, at another place of its exchange.
SameCall(o, e) ==
    /\ e.at = o.at /\ e.len = o.len /\ e.done = o.done /\ e.what = o.what /\ e.out = o.out /\ e.up = o.up
    /\ e.cur = o.cur /\ e.cmd = o.cmd
LEMMA SameOfCall ==
    ASSUME NEW o, NEW e, SameCall(o, e)
    PROVE  /\ Payload(e) = Payload(o) /\ Chunk(e) = Chunk(o)
           /\ \A m : Stored(o, m) <=> Stored(e, m)
           /\ \A m : e.got = o.got => (Copied(o, m) <=> Copied(e, m))
           /\ \A m, a : Asks(o, m, a) => Asks(e, m, a)
           /\ \A c, m, a : OfChunk(o, c, m, a) => OfChunk(e, c, m, a)
           /\ \A m, a : HasCommand(o, m, a) /\ ~Resets(e) => HasCommand(e, m, a)
<1>1. Payload(e) = Payload(o) /\ Chunk(e) = Chunk(o)
  BY SameChunk DEF SameCall
<1>2. \A m : Stored(o, m) <=> Stored(e, m)
  BY <1>1 DEF SameCall, Stored
<1>3. \A m : e.got = o.got => (Copied(o, m) <=> Copied(e, m))
  BY DEF SameCall, Copied
<1>4. \A m, a : Asks(o, m, a) => Asks(e, m, a)
  BY SameAsks DEF SameCall
<1>5. \A c, m, a : OfChunk(o, c, m, a) => OfChunk(e, c, m, a)
  BY SameOf DEF SameCall
<1>6. \A m, a : HasCommand(o, m, a) /\ ~Resets(e) => HasCommand(e, m, a)
  BY <1>5 DEF SameCall, HasCommand
<1> QED
  BY <1>1, <1>2, <1>3, <1>4, <1>5, <1>6

LEMMA ExchangeCarries ==
    ASSUME NEW o, NEW e, SameCall(o, e), NEW m, NEW a, Asks(o, m, a), HasCommand(o, m, a), InExchange(e.pc),
           NEW s, NEW b, NEW t, Exchanges(e, s, b, t, m), NEW md
    PROVE  Carries(e, md, s, b, t, m, a)
<1>1. ~Resets(e) /\ ~InRecovery(e.pc) /\ e.pc \notin {"ret", "refuse", "cbw", "clrin", "clrout"}
  BY DEF InExchange, Resets, InRecovery
<1>2. Asks(e, m, a) /\ HasCommand(e, m, a)
  BY <1>1, SameOfCall
<1> QED
  BY <1>1, <1>2 DEF Carries, InCommand, ToBegin

\* A stick that stays at its command, or ends it early.
LEMMA StaysExchanges ==
    ASSUME NEW o, NEW s, NEW b, NEW t, NEW m, NEW a, Exchanges(o, s, b, t, m), StickWrites(s, m, a),
           NEW z, Stays(s, z, m, m),
           NEW e, SameCall(o, e), e.got = o.got, NEW c,
           z.ph = "out" => e.pc = o.pc /\ e.sent = o.sent /\ c = b
    PROVE  Exchanges(e, z, c, t, m)
<1>1. Payload(e) = Payload(o) /\ (Stored(o, m) <=> Stored(e, m)) /\ (Copied(o, m) <=> Copied(e, m)) /\ e.cmd = o.cmd
  BY SameOfCall DEF SameCall
<1>2. CASE IsBusy(z) /\ z.tag = t
  <2>1. IsBusy(s) /\ s.tag = t /\ Answers(o, s, b, m)
    BY <1>2 DEF Stays, IsBusy, Exchanges
  <2>2. CASE z = s
    BY <1>1, <2>1, <2>2 DEF Answers, Exchanges
  <2>3. CASE z.ph = "status"
    <3>1. s.ph = "in" /\ o.cmd.kind = "read" => Len(o.got) # Expect(o.cmd)
      <4> SUFFICES ASSUME s.ph = "in", o.cmd.kind = "read" PROVE Len(o.got) # Expect(o.cmd)
        OBVIOUS
      <4>1. IsSeq(s.buf) /\ IsSeq(o.got) /\ Len(o.got) <= Len(s.buf) /\ Len(s.buf) < Expect(o.cmd)
        BY <2>1 DEF Answers, Exchanges
      <4>2. Len(s.buf) \in Nat /\ Len(o.got) \in Nat
        BY <4>1 DEF IsSeq
      <4> QED
        BY <4>1, <4>2
    <3>2. s.ph = "out" => o.cmd.kind = "write"
      BY <2>1 DEF StickWrites, Answers
    <3>3. z.cmd = o.cmd /\ (s.ph = "status" => z.stat = s.stat) /\ (s.ph # "status" => z.stat # "passed") /\ s.ph \in {"in", "out", "status"}
      BY <2>1, <2>3 DEF Stays, Answers
    <3> QED
      BY <1>1, <2>1, <2>3, <3>1, <3>2, <3>3 DEF Answers, Exchanges
  <2> QED
    BY <1>2, <2>2, <2>3 DEF Stays, IsBusy
<1>3. CASE ~(IsBusy(z) /\ z.tag = t)
  BY <1>3 DEF Exchanges, Stays, IsBusy
<1> QED
  BY <1>2, <1>3

\* Sizes are numbers.
LEMMA SizesAre ==
    ASSUME NEW o, NEW m, NEW a, Asks(o, m, a), HasCommand(o, m, a)
    PROVE  Expect(o.cmd) \in Nat /\ First(o.cmd) \in Nat
<1>1. First(o.cmd) \in Nat
  BY MsdAssumption DEF HasCommand, First
<1>2. o.cmd.kind \in ReadWrite => Expect(o.cmd) \in Nat
  BY ExpectIs, ChunkIs DEF HasCommand, Asks
<1>3. o.cmd.kind \notin ReadWrite => Expect(o.cmd) \in Nat
  BY DEF Expect, ReadWrite
<1> QED
  BY <1>1, <1>2, <1>3

\* A packet from the stick that the engine does not take for data.
LEMMA InExchanges ==
    ASSUME NEW o, NEW s, NEW b, NEW t, NEW m, NEW a, Exchanges(o, s, b, t, m), StickWrites(s, m, a),
           Expect(o.cmd) \in Nat, First(o.cmd) \in Nat, NEW w, InDoes(s, w, m), NEW e, SameCall(o, e), e.got = o.got,
           w.stick.ph = "out" => e.pc = o.pc /\ e.sent = o.sent
    PROVE  Exchanges(e, w.stick, b, t, m)
<1>1. CASE Stays(s, w.stick, m, w.medium)
  <2>1. Stays(s, w.stick, m, m)
    BY <1>1 DEF Stays
  <2> QED
    BY <2>1, StaysExchanges
<1>2. CASE Gives(s, w.stick, m, w.medium, w.pkt)
  <2> DEFINE z == w.stick
  <2>1. z.ph \in {"in", "status"} /\ s.ph = "in" /\ z.tag = s.tag /\ z.cmd = s.cmd /\ IsSeq(e.got)
    BY <1>2 DEF Gives, Exchanges
  <2>2. CASE IsBusy(z) /\ z.tag = t
    <3>1. Answers(o, s, b, m) /\ e.cmd = o.cmd /\ o.cmd.kind # "write"
      BY <2>1, <2>2 DEF Exchanges, IsBusy, Answers, SameCall
    <3>2. CASE o.cmd.kind = "read"
      <4> DEFINE buf == Append(s.buf, w.pkt.cell)
      <4>1. IsSeq(s.buf) /\ IsSeq(o.got) /\ Len(o.got) <= Len(s.buf) /\ Len(s.buf) < Expect(o.cmd)
        BY <2>1, <3>1, <3>2 DEF Answers, Exchanges
      <4>2. Len(s.buf) \in Nat /\ Len(o.got) \in Nat
        BY <4>1 DEF IsSeq
      <4>3. IsSeq(buf) /\ Len(buf) = Len(s.buf) + 1
        BY <4>1, AppendIs
      <4>4. IF Len(buf) = Expect(s.cmd) THEN z.ph = "status" ELSE z.ph = "in" /\ z.buf = buf
        BY <1>2 DEF Gives
      <4> HIDE DEF buf
      <4>5. z.ph = "in" => IsSeq(z.buf) /\ Len(e.got) < Len(z.buf) /\ Len(z.buf) < Expect(o.cmd) /\ Len(e.got) # Len(z.buf)
        <5> SUFFICES ASSUME z.ph = "in" PROVE IsSeq(z.buf) /\ Len(e.got) < Len(z.buf) /\ Len(z.buf) < Expect(o.cmd) /\ Len(e.got) # Len(z.buf)
          OBVIOUS
        <5>1. z.buf = buf /\ Len(buf) # Expect(o.cmd)
          BY <3>1, <4>4 DEF Answers
        <5> QED
          BY <4>1, <4>2, <4>3, <5>1
      <4>6. z.ph = "status" => Len(e.got) # Expect(o.cmd)
        BY <4>1, <4>2
      <4> QED
        BY <2>1, <3>1, <3>2, <4>5, <4>6 DEF Exchanges, Answers
    <3>3. CASE o.cmd.kind # "read"
      BY <2>1, <3>1, <3>3 DEF Exchanges, Answers
    <3> QED
      BY <3>2, <3>3
  <2>3. CASE ~(IsBusy(z) /\ z.tag = t)
    BY <2>1, <2>3 DEF Exchanges
  <2> QED
    BY <2>2, <2>3
<1> QED
  BY <1>1, <1>2 DEF InDoes

\* A cell that the engine takes.
LEMMA InTakes ==
    ASSUME NEW o, NEW s, NEW b, NEW t, NEW m, NEW a, Exchanges(o, s, b, t, m), StickWrites(s, m, a),
           Expect(o.cmd) \in Nat, First(o.cmd) \in Nat, NEW w, InDoes(s, w, m), w.ans = "ok", "cell" \in DOMAIN w.pkt,
           NEW e, SameCall(o, e), e.got = Append(o.got, w.pkt.cell)
    PROVE  Exchanges(e, w.stick, b, t, m)
<1> DEFINE z == w.stick
           buf == Append(s.buf, w.pkt.cell)
<1>1. Gives(s, z, m, w.medium, w.pkt)
  BY DEF InDoes
<1>2. IsSeq(o.got)
  BY DEF Exchanges
<1>3. /\ IsSeq(e.got) /\ Len(e.got) = Len(o.got) + 1 /\ Len(o.got) \in Nat /\ e.got[Len(o.got) + 1] = w.pkt.cell
      /\ \A i \in 1 .. Len(o.got) : e.got[i] = o.got[i]
  BY <1>2, AppendIs
<1>4. z.ph \in {"in", "status"} /\ s.ph = "in" /\ z.tag = s.tag /\ z.cmd = s.cmd /\ e.cmd = o.cmd
  BY <1>1 DEF Gives, SameCall
<1>5. CASE IsBusy(z) /\ z.tag = t
  <2>1. Answers(o, s, b, m) /\ o.cmd.kind # "write"
    BY <1>4, <1>5 DEF Exchanges, IsBusy, Answers
  <2>2. CASE o.cmd.kind = "read"
    <3>1. IsSeq(s.buf) /\ Len(o.got) <= Len(s.buf) /\ Len(s.buf) < Expect(o.cmd) /\ (Len(o.got) = Len(s.buf) => Copied(o, m)) /\ s.cmd = o.cmd
      BY <1>4, <2>1, <2>2 DEF Answers
    <3>2. IsSeq(buf) /\ Len(buf) = Len(s.buf) + 1 /\ Len(s.buf) \in Nat
      BY <3>1, AppendIs
    <3>3. IF Len(buf) = Expect(o.cmd) THEN z.ph = "status" ELSE z.ph = "in" /\ z.buf = buf
      BY <1>1, <3>1 DEF Gives
    <3>4. w.pkt.cell = m[First(o.cmd) + Len(s.buf)]
      BY <1>1, <2>2, <3>1 DEF Gives
    <3> HIDE DEF buf
    <3>5. Len(o.got) = Len(s.buf) => Copied(e, m)
      <4> SUFFICES ASSUME Len(o.got) = Len(s.buf), NEW i \in 1 .. Len(e.got), First(o.cmd) + i - 1 \in Cells
                   PROVE  e.got[i] = m[First(o.cmd) + i - 1]
        BY <1>4 DEF Copied
      <4>1. CASE i \in 1 .. Len(o.got)
        BY <1>3, <3>1, <4>1 DEF Copied
      <4>2. CASE i = Len(o.got) + 1
        <5>2. First(o.cmd) + i - 1 = First(o.cmd) + Len(s.buf)
          BY <1>3, <4>2
        <5> QED
          BY <1>3, <3>4, <4>2, <5>2
      <4> QED
        BY <1>3, <4>1, <4>2
    <3>6. z.ph = "in" => IsSeq(z.buf) /\ Len(e.got) <= Len(z.buf) /\ Len(z.buf) < Expect(o.cmd) /\ (Len(e.got) = Len(z.buf) => Copied(e, m))
      <4> SUFFICES ASSUME z.ph = "in" PROVE IsSeq(z.buf) /\ Len(e.got) <= Len(z.buf) /\ Len(z.buf) < Expect(o.cmd) /\ (Len(e.got) = Len(z.buf) => Copied(e, m))
        OBVIOUS
      <4>1. z.buf = buf /\ Len(buf) # Expect(o.cmd)
        BY <3>3
      <4> QED
        BY <1>3, <3>1, <3>2, <3>5, <4>1
    <3>7. z.ph = "status" /\ Len(e.got) = Expect(o.cmd) => Copied(e, m)
      <4> SUFFICES ASSUME z.ph = "status", Len(e.got) = Expect(o.cmd) PROVE Len(o.got) = Len(s.buf)
        BY <3>5
      <4> QED
        BY <1>3, <3>1, <3>2
    <3> QED
      BY <1>3, <1>4, <2>1, <2>2, <3>6, <3>7 DEF Exchanges, Answers
  <2>3. CASE o.cmd.kind # "read"
    BY <1>3, <1>4, <2>1, <2>3 DEF Exchanges, Answers
  <2> QED
    BY <2>2, <2>3
<1>6. CASE ~(IsBusy(z) /\ z.tag = t)
  BY <1>3, <1>4, <1>6 DEF Exchanges
<1> QED
  BY <1>5, <1>6

\* The cell a write sends is the one the stick expects.
SentCell(o) == [cell |-> Payload(o)[o.sent + 1]]
LEMMA SentIsNext ==
    ASSUME NEW o, NEW s, NEW b, NEW t, NEW m, NEW a, Exchanges(o, s, b, t, m), StickWrites(s, m, a),
           Asks(o, m, a), HasCommand(o, m, a), o.cmd.kind = "write"
    PROVE  "cmd" \notin DOMAIN SentCell(o) /\ NextCell(s, SentCell(o), m, a)
<1>1. "cmd" \notin DOMAIN SentCell(o) /\ SentCell(o).cell = Payload(o)[o.sent + 1]
  BY DEF SentCell
<1>2. ASSUME s.ph = "out" PROVE Right(Payload(o)[o.sent + 1], First(s.cmd) + Len(s.buf), m, a)
  <2>1. IsBusy(s) /\ s.tag = t /\ Answers(o, s, b, m) /\ IsSeq(s.buf)
    BY <1>2 DEF Exchanges, IsBusy, StickWrites
  <2>2. s.cmd = o.cmd /\ Len(s.buf) = o.sent /\ o.sent < Expect(o.cmd) /\ o.sent \in Nat
    BY <1>2, <2>1 DEF Answers, IsSeq
  <2>3. Expect(o.cmd) \in Nat /\ First(o.cmd) \in Nat
    BY SizesAre
  <2>4. o.sent + 1 \in 1 .. Expect(o.cmd) /\ First(o.cmd) + (o.sent + 1) - 1 = First(s.cmd) + Len(s.buf)
    BY <2>2, <2>3
  <2>5. Right(Payload(o)[o.sent + 1], First(o.cmd) + (o.sent + 1) - 1, m, a)
    BY <2>4 DEF HasCommand, OfChunk, Writes, ReadWrite
  <2> QED
    BY <2>4, <2>5
<1> HIDE DEF SentCell
<1> QED
  BY <1>1, <1>2 DEF NextCell

\* A cell that the stick acknowledges.
LEMMA OutTakes ==
    ASSUME NEW o, NEW s, NEW b, NEW t, NEW m, NEW a, Exchanges(o, s, b, t, m), StickWrites(s, m, a),
           Asks(o, m, a), HasCommand(o, m, a), o.cmd.kind = "write", OnDisk(m),
           NEW w, OutDoes(s, w, m, SentCell(o), b = s.tog["out"]), w.ans = "ok",
           NEW e, SameCall(o, e), e.got = o.got, e.sent = o.sent + 1,
           e.pc = IF o.sent + 1 = Expect(o.cmd) THEN "csw" ELSE "data"
    PROVE  Exchanges(e, w.stick, Flip(b), t, w.medium) /\ (w.medium # m => Stored(o, w.medium))
<1> DEFINE z == w.stick
           n == w.medium
           p == SentCell(o)
<1>1. "cmd" \notin DOMAIN p /\ NextCell(s, p, m, a)
  BY SentIsNext
<1>2. ~Starts(s, z, m, n, p)
  BY <1>1 DEF Starts
<1>3. CASE Stays(s, z, m, n) /\ (b = s.tog["out"] => z.ph # "out")
  <2>1. n = m /\ Stays(s, z, m, m)
    BY <1>3 DEF Stays
  <2>2. z.ph # "out"
    BY <1>3 DEF Stays, Exchanges, IsBusy, Answers
  <2>3. Exchanges(e, z, Flip(b), t, m)
    BY <2>1, <2>2, StaysExchanges
  <2> QED
    BY <2>1, <2>3
<1>4. CASE Fills(s, z, m, n, p) /\ b = s.tog["out"]
  <2> DEFINE buf == Append(s.buf, p.cell)
  <2>1. s.ph = "out" /\ z.cmd = s.cmd /\ z.tag = s.tag /\ z.stat = s.stat /\ z.tog["out"] = Flip(b)
    BY <1>4 DEF Fills
  <2>2. s.tag = t /\ Answers(o, s, b, m) /\ IsSeq(o.got)
    BY <2>1 DEF Exchanges, IsBusy
  <2>3. s.cmd = o.cmd /\ Len(s.buf) = o.sent /\ o.sent < Expect(o.cmd) /\ \A i \in 1 .. o.sent : s.buf[i] = Payload(o)[i]
    BY <2>1, <2>2 DEF Answers
  <2>4. /\ IsSeq(buf) /\ Len(buf) = Len(s.buf) + 1 /\ Len(s.buf) \in Nat /\ buf[Len(s.buf) + 1] = p.cell
        /\ \A i \in 1 .. Len(s.buf) : buf[i] = s.buf[i]
        /\ \A i \in 1 .. Len(buf) : Right(buf[i], First(s.cmd) + i - 1, m, a)
    BY <1>1, <2>1, AppendRight
  <2>5. p.cell = Payload(o)[o.sent + 1]
    BY DEF SentCell
  <2>6. Expect(o.cmd) \in Nat /\ First(o.cmd) \in Nat
    BY SizesAre
  <2>7. \/ Len(buf) < Expect(o.cmd) /\ z.ph = "out" /\ z.buf = buf /\ n = m
        \/ /\ ~(Len(buf) < Expect(o.cmd)) /\ z.ph = "status"
           /\ n = IF s.stat = "passed" THEN Written(m, s.cmd, buf) ELSE m
    BY <1>4, <2>3 DEF Fills
  <2> HIDE DEF p, buf
  <2>8. \A i \in 1 .. Len(buf) : buf[i] = Payload(o)[i]
    <3>1. \A i \in 1 .. Len(buf) : i \in 1 .. Len(s.buf) \/ i = Len(s.buf) + 1
      BY <2>4
    <3> QED
      BY <2>3, <2>4, <2>5, <3>1
  <2>9. Payload(e) = Payload(o) /\ e.cmd = o.cmd /\ IsSeq(e.got) /\ (Stored(o, n) <=> Stored(e, n))
    BY <2>2, SameOfCall DEF SameCall
  <2>10. CASE Len(buf) < Expect(o.cmd) /\ z.ph = "out" /\ z.buf = buf /\ n = m
    <3>1. e.pc = "data" /\ e.sent = Len(buf) /\ e.sent < Expect(e.cmd)
      BY <2>3, <2>4, <2>6, <2>9, <2>10
    <3> QED
      BY <2>1, <2>2, <2>3, <2>8, <2>9, <2>10, <3>1 DEF Exchanges, Answers
  <2>11. CASE /\ ~(Len(buf) < Expect(o.cmd)) /\ z.ph = "status"
              /\ n = IF s.stat = "passed" THEN Written(m, s.cmd, buf) ELSE m
    <3>1. Len(buf) = Expect(o.cmd)
      BY <2>3, <2>4, <2>6, <2>11
    <3>2. s.cmd.lba \in Nat
      BY <2>1 DEF StickWrites
    <3>3. s.stat = "passed" => Stored(o, n)
      <4>1. Landed(Written(m, s.cmd, buf), s.cmd, buf)
        BY <2>4, <3>2, WrittenIs
      <4> QED
        BY <2>3, <2>8, <2>11, <3>1, <4>1 DEF Stored, Landed
    <3> QED
      BY <2>1, <2>3, <2>9, <2>11, <3>3 DEF Exchanges, Answers
  <2> QED
    BY <2>7, <2>10, <2>11
<1> HIDE DEF p
<1> QED
  BY <1>2, <1>3, <1>4 DEF OutDoes, p

\* A cell that the stick refuses.
LEMMA OutStops ==
    ASSUME NEW o, NEW s, NEW b, NEW t, NEW m, NEW a, Exchanges(o, s, b, t, m), StickWrites(s, m, a),
           NEW w, NEW p, OutDoes(s, w, m, p, b = s.tog["out"]), w.ans = "stall",
           IsBusy(s) /\ s.tag = t => "out" \notin s.halts,
           NEW e, SameCall(o, e), e.got = o.got, NEW c
    PROVE  Exchanges(e, w.stick, c, t, w.medium) /\ w.medium = m
<1>1. Stays(s, w.stick, m, w.medium) /\ ("out" \notin s.halts => w.stick.ph # "out")
  BY DEF OutDoes
<1>2. w.medium = m /\ Stays(s, w.stick, m, m)
  BY <1>1 DEF Stays
<1>3. w.stick.ph # "out"
  BY <1>1 DEF Stays, Exchanges, IsBusy
<1> QED
  BY <1>2, <1>3, StaysExchanges

\* A CBW that the stick acknowledges: of tag t, which the stick does not hold.
LEMMA StartsExchange ==
    ASSUME NEW o, NEW s, NEW b, NEW t, NEW m, NEW a, s.ph # "out", IsBusy(s) => s.tag # t,
           Asks(o, m, a), HasCommand(o, m, a), o.got = <<>>, o.sent = 0,
           NEW w, NEW p, p.cmd = o.cmd, p.tag = t, "cmd" \in DOMAIN p,
           OutDoes(s, w, m, p, b = s.tog["out"]), w.ans = "ok",
           NEW z, z.ph = w.stick.ph, z.cmd = w.stick.cmd, z.tag = w.stick.tag, z.buf = w.stick.buf,
                  z.stat = w.stick.stat, z.tog = w.stick.tog,
           NEW e, SameCall(o, e), e.got = o.got, e.sent = o.sent,
           e.pc = IF Expect(o.cmd) = 0 THEN "csw" ELSE "data"
    PROVE  Exchanges(e, z, Flip(b), t, m)
<1>0. IsSeq(e.got) /\ Len(e.got) = 0 /\ e.cmd = o.cmd
  BY EmptyIs DEF SameCall
<1>1. CASE Stays(s, w.stick, m, w.medium)
  <2>1. z.ph # "out"
    BY <1>1 DEF Stays
  <2>2. ~(IsBusy(z) /\ z.tag = t)
    BY <1>1 DEF Stays, IsBusy
  <2> QED
    BY <1>0, <2>1, <2>2 DEF Exchanges
<1>2. CASE Starts(s, w.stick, m, w.medium, p) /\ b = s.tog["out"]
  <2>1. /\ z.cmd = o.cmd /\ z.tag = t /\ z.buf = <<>> /\ z.tog["out"] = Flip(b)
        /\ z.ph = IF Expect(o.cmd) = 0 THEN "status" ELSE IF o.cmd.kind = "write" THEN "out" ELSE "in"
    BY <1>2 DEF Starts
  <2>2. Expect(o.cmd) \in Nat
    BY SizesAre
  <2>3. Copied(e, m) /\ (Expect(o.cmd) = 0 => Stored(e, m))
    BY <1>0 DEF Copied, Stored
  <2>4. CASE Expect(o.cmd) = 0
    BY <1>0, <2>1, <2>3, <2>4 DEF Exchanges, Answers
  <2>5. CASE Expect(o.cmd) # 0
    <3>1. Expect(o.cmd) > 0 /\ Len(z.buf) = 0 /\ IsSeq(z.buf) /\ e.pc = "data" /\ e.sent = 0
      BY <2>1, <2>2, <2>5, EmptyIs
    <3> QED
      BY <1>0, <2>1, <2>3, <2>5, <3>1 DEF Exchanges, Answers
  <2> QED
    BY <2>4, <2>5
<1>3. ~Fills(s, w.stick, m, w.medium, p)
  BY DEF Fills
<1> QED
  BY <1>1, <1>2, <1>3 DEF OutDoes

\* The medium has changed under a call: only by its own write, which is there.
LEMMA KeptAsks ==
    ASSUME NEW o, NEW m, NEW n, NEW a, Asks(o, m, a), HasCommand(o, m, a), o.cmd.kind = "write",
           Kept(m, n, a), n # m => Stored(o, n)
    PROVE  Asks(o, n, a) /\ HasCommand(o, n, a)
<1>1. CASE n = m
  BY <1>1
<1>2. CASE n # m
  <2>1. OfChunk(o, o.cmd, m, a) /\ o.what = "write" /\ Stored(o, n)
    BY <1>2 DEF HasCommand, OfChunk, Writes, ReadWrite
  <2>2. \A c \in CellsOf(o.at, o.done) : m[c] = Name(c) => n[c] = Name(c)
    BY DEF Kept, CellsOf, Cells
  <2>3. Asks(o, n, a)
    BY <2>1, <2>2 DEF Asks
  <2>4. Writes(o, o.cmd, n, a)
    BY <2>1 DEF Writes, Right, Stored
  <2> QED
    BY <2>1, <2>3, <2>4 DEF HasCommand, OfChunk
<1> QED
  BY <1>1, <1>2

(***************************************************************************)
(* Each action keeps the data right.                                       *)
(***************************************************************************)

\* What is known of the stick, and of a call in flight.
LEMMA DataIs ==
    ASSUME MsdInv, DataInv
    PROVE  /\ Shapes /\ StickOK(stick) /\ DeviceOK(stick) /\ StickWrites(stick, medium, asked) /\ OnDisk(medium)
           /\ OwnCells(medium, asked, usbAcked) /\ DiskOK(stick, ed["out"].left, medium, asked, usbAcked)
BY DEF MsdInv, Shapes, DataInv, DiskOK, OwnCells, OnDisk
LEMMA CallIs ==
    ASSUME MsdInv, DataInv, mop # NoOp
    PROVE  /\ OpOK(mop) /\ Placed(mop, mid, stick, ed["out"].left, tag, usbFaults)
           /\ Carries(mop, mid, stick, ed["out"].carry, tag, medium, asked) /\ Asks(mop, medium, asked)
           /\ InCommand(mop.pc) => HasCommand(mop, medium, asked)
BY DEF MsdInv, Placed, DataInv, Carries
\* A call at its exchange.
LEMMA ExchangesIs ==
    ASSUME MsdInv, DataInv, mop # NoOp, InExchange(mop.pc)
    PROVE  /\ OpOK(mop) /\ Asks(mop, medium, asked) /\ HasCommand(mop, medium, asked)
           /\ Exchanges(mop, stick, ed["out"].carry, tag, medium)
           /\ mid = TRUE /\ ed["out"].left = NoTd /\ (stick.ph = "out" => mop.pc = "data" /\ mop.cmd.kind = "write")
<1>1. /\ OpOK(mop) /\ Asks(mop, medium, asked) /\ HasCommand(mop, medium, asked)
      /\ Exchanges(mop, stick, ed["out"].carry, tag, medium)
  BY CallIs DEF InCommand, Carries
<1>2. mid = TRUE /\ ed["out"].left = NoTd
  BY ExchangeIs DEF Shapes
<1>3. stick.ph = "out" => mop.pc = "data" /\ mop.cmd.kind = "write"
  BY <1>1, DataIs DEF Exchanges, IsBusy, Answers, StickWrites
<1> QED
  BY <1>1, <1>2, <1>3

\* A call ends, or goes on.
LEMMA EndsWith ==
    ASSUME DiskOK(stick', ed'["out"].left, medium', asked', usbAcked'),
           CarriesOn(mid', stick', ed'["out"].carry, tag', medium', asked')
    PROVE  DataInv'
BY DEF DataInv, CarriesOn

\* Of two sticks that hold the same.
Holds(s, z) ==
    /\ z.ph = s.ph /\ z.cmd = s.cmd /\ z.tag = s.tag /\ z.buf = s.buf /\ z.stat = s.stat /\ DeviceOK(z)
LEMMA SameDisk ==
    ASSUME NEW s, NEW z, Holds(s, z) \/ (z.ph = "idle" /\ DeviceOK(z)), NEW q, NEW m, NEW a, NEW k, DiskOK(s, q, m, a, k)
    PROVE  DiskOK(z, q, m, a, k)
BY DEF Holds, DiskOK, StickWrites, NextCell
LEMMA SameExchanges ==
    ASSUME NEW o, NEW s, NEW b, NEW t, NEW m, Exchanges(o, s, b, t, m), NEW z, Holds(s, z), s.ph # "out",
           NEW e, SameCall(o, e), e.got = o.got, NEW c
    PROVE  Exchanges(e, z, c, t, m)
<1>1. Payload(e) = Payload(o) /\ (Stored(o, m) <=> Stored(e, m)) /\ (Copied(o, m) <=> Copied(e, m)) /\ e.cmd = o.cmd
  BY SameOfCall DEF SameCall
<1> QED
  BY <1>1 DEF Holds, Exchanges, Answers, IsBusy

\* A transfer to the stick that may leave its descriptor behind.
LEMMA OutLeaves ==
    ASSUME MsdInv, DataInv, NEW td, NextCell(stick, td, medium, asked), NEW r, OutResult(td, r),
           r.ed.left \in {NoTd, td, ed["out"].left}
    PROVE  /\ DiskOK(r.w.stick, r.ed.left, r.w.medium, asked, usbAcked) /\ Kept(medium, r.w.medium, asked)
           /\ r.w.medium # medium => stick.ph = "out" /\ "cmd" \notin DOMAIN td
<1>1. DiskOK(stick, ed["out"].left, medium, asked, usbAcked)
  BY DataIs
<1>2. OutDoes(stick, r.w, medium, td, ed["out"].carry = stick.tog["out"])
  BY DEF OutResult
<1>3. /\ DiskOK(r.w.stick, NoTd, r.w.medium, asked, usbAcked) /\ Kept(medium, r.w.medium, asked)
      /\ r.w.medium # medium => stick.ph = "out" /\ "cmd" \notin DOMAIN td
  BY <1>1, <1>2, OutKeeps
<1>4. CASE r.w.stick = stick /\ r.w.medium = medium
  BY <1>1, <1>3, <1>4 DEF DiskOK
<1> QED
  BY <1>3, <1>4 DEF OutResult

\* Before its first command a call has done nothing.
LEMMA FirstAsks ==
    ASSUME NEW o, NEW m, NEW a, o.at \in Nat, o.len \in Nat, o.what \in ReadWrite, o.done = 0, o.out = <<>>,
           o.what = "write" /\ o.at + o.len <= Capacity => CellsOf(o.at, o.len) \subseteq a
    PROVE  Asks(o, m, a)
<1>1. CellsOf(o.at, 0) = {}
  BY DEF CellsOf
<1>2. <<>> = [i \in 1 .. 0 |-> m[o.at + i - 1]]
  OBVIOUS
<1> QED
  BY <1>1, <1>2 DEF Asks

LEMMA CallData == ASSUME MsdInv, DataInv, NEW q \in Requests, Call(q) PROVE DataInv'
<1> DEFINE o == [what |-> q.what, at |-> q.at, len |-> q.len, done |-> 0, out |-> <<>>, cur |-> <<>>,
                 up |-> mslot = "Ready", step |-> "tur", tries |-> 0, own |-> TRUE, pure |-> TRUE,
                 cmd |-> Cmd("tur", 0, 0), pc |-> "attach", then |-> "cbw", got |-> <<>>, sent |-> 0]
<1>1. /\ mop' = (IF o.up THEN Loop(o, mid) ELSE o) /\ UNCHANGED <<mid, tag, ed, stick, medium, usbAcked>>
      /\ asked' = asked \cup (IF q.what = "write" /\ q.at + q.len <= Capacity THEN CellsOf(q.at, q.len) ELSE {})
  BY DEF Call, bot
<1>2. /\ OpOK(o) /\ o.pc = "attach" /\ (o.up <=> mslot = "Ready") /\ o.done = 0 /\ o.out = <<>> /\ o.what = q.what
      /\ o.at = q.at /\ o.len = q.len
  BY DEF OpOK
<1>3. q.what \in ReadWrite /\ q.at \in Nat /\ q.len \in Nat
  BY MsdAssumption DEF ReadWrite
<1> HIDE DEF o
<1>4. Asks(o, medium, asked')
  BY <1>1, <1>2, <1>3, FirstAsks
<1>5. DiskOK(stick', ed'["out"].left, medium', asked', usbAcked')
  BY <1>1, DataIs, AskedMore
<1>6. CASE o.up
  <2>1. mid \in BOOLEAN /\ (~mid => stick.ph # "out")
    BY <1>2, <1>6 DEF MsdInv, Shapes, Resting, Quiet
  <2>2. Carries(Loop(o, mid), mid, stick, ed["out"].carry, tag, medium, asked')
    BY <1>2, <1>4, <1>6, <2>1, LoopCarries
  <2> QED
    BY <1>1, <1>5, <1>6, <2>2, EndsWith DEF CarriesOn
<1>7. CASE ~o.up
  <2>1. Carries(o, mid, stick, ed["out"].carry, tag, medium, asked')
    BY <1>2, <1>4 DEF Carries, Between, InCommand, InExchange, InRecovery, ToBegin, Resets
  <2> QED
    BY <1>1, <1>5, <1>7, <2>1, EndsWith DEF CarriesOn
<1> QED
  BY <1>6, <1>7

LEMMA PortResetData ==
    ASSUME MsdInv, DataInv, PortReset
    PROVE  DiskOK(stick', ed'["out"].left, medium, asked, usbAcked)
<1>1. stick'.ph = "idle" /\ DeviceOK(stick')
  <2>1. stick'.ph = "idle" /\ stick'.tog = [d \in Dirs |-> 0] /\ stick'.stat = "passed"
    BY DEF PortReset, Rested
  <2> QED
    BY <2>1 DEF DeviceOK, Stats
<1>2. ed'["out"].left = NoTd
  BY DataIs DEF PortReset, Shapes, EdOK, Dirs
<1>3. DiskOK(stick', ed["out"].left, medium, asked, usbAcked)
  BY <1>1, DataIs, SameDisk
<1> QED
  BY <1>2, <1>3 DEF DiskOK

LEMMA BringUpData ==
    ASSUME MsdInv, DataInv, Attach \/ OpenIn \/ OpenOut \/ BringUpFails
    PROVE  DataInv'
<1>1. mop # NoOp /\ mop.pc \in {"attach", "openin", "openout"} /\ UNCHANGED <<medium, asked, usbAcked>>
  BY DEF Attach, OpenIn, OpenOut, BringUpFails, At
<1>2. /\ OpOK(mop) /\ Placed(mop, mid, stick, ed["out"].left, tag, usbFaults) /\ Asks(mop, medium, asked)
  BY <1>1, CallIs
<1>3. ASSUME NEW pc \in {"openin", "openout"}, Goto(pc), DiskOK(stick', ed'["out"].left, medium, asked, usbAcked)
      PROVE  DataInv'
  <2>1. mop' = [mop EXCEPT !.pc = pc]
    BY <1>3 DEF Goto
  <2>2. /\ mop'.pc = pc /\ mop'.at = mop.at /\ mop'.len = mop.len /\ mop'.done = mop.done /\ mop'.what = mop.what
        /\ mop'.out = mop.out /\ mop'.up = mop.up
    BY <1>2, <2>1 DEF OpOK
  <2>3. Asks(mop', medium, asked)
    BY <1>2, <2>2, SameAsks
  <2>4. Carries(mop', mid', stick', ed'["out"].carry, tag', medium, asked)
    BY <2>2, <2>3 DEF Carries, Between, InCommand, InExchange, InRecovery, ToBegin, Resets
  <2> QED
    BY <1>1, <1>3, <2>4, EndsWith DEF CarriesOn
<1>4. CASE Attach
  BY <1>3, <1>4, PortResetData DEF Attach
<1>5. FreshEd.left = NoTd
  BY DEF FreshEd
<1>6. CASE OpenIn
  <2>1. ed' = [ed EXCEPT !["in"] = FreshEd] /\ stick' = stick /\ Goto("openout")
    BY <1>6 DEF OpenIn
  <2>2. ed'["out"] = ed["out"]
    BY <2>1, DataIs DEF Shapes, Dirs
  <2>3. DiskOK(stick', ed'["out"].left, medium, asked, usbAcked)
    BY <2>1, <2>2, DataIs
  <2> QED
    BY <1>3, <2>1, <2>3
<1>7. CASE OpenOut
  <2>1. /\ ed' = [ed EXCEPT !["out"] = FreshEd] /\ stick' = stick /\ mid' = FALSE
        /\ mop' = Execute(mop, Cmd("tur", 0, 0), FALSE) /\ mop.pc = "openout"
    BY <1>7 DEF OpenOut, At
  <2>2. ed'["out"] = FreshEd
    BY <2>1, DataIs DEF Shapes, Dirs
  <2>3. DiskOK(stick', ed'["out"].left, medium, asked, usbAcked)
    BY <1>5, <2>1, <2>2, DataIs DEF DiskOK
  <2>4. stick.ph # "out"
    BY <1>2, <2>1 DEF Placed, Quiet
  <2> DEFINE c == Cmd("tur", 0, 0)
  <2>5. c.kind \in Kinds /\ c.lba \in Nat /\ c.kind \notin ReadWrite
    BY DEF Cmd, Kinds, ReadWrite
  <2> HIDE DEF c
  <2>6. Carries(Execute(mop, c, FALSE), FALSE, stick, ed'["out"].carry, tag', medium, asked)
    BY <1>2, <2>4, <2>5, ExecuteCarries
  <2> QED
    BY <1>1, <2>1, <2>3, <2>6, EndsWith DEF CarriesOn, c
<1>8. CASE BringUpFails
  <2>1. mop' = NoOp
    BY <1>8 DEF BringUpFails, EndCall
  <2>2. DiskOK(stick', ed'["out"].left, medium, asked, usbAcked)
    BY <1>8, DataIs, PortResetData DEF BringUpFails
  <2> QED
    BY <1>1, <2>1, <2>2, EndsWith DEF CarriesOn
<1> QED
  BY <1>4, <1>6, <1>7, <1>8

\* What a write is acknowledged for is there.
LEMMA ReturnData == ASSUME MsdInv, DataInv, Return PROVE DataInv'
<1>1. /\ mop # NoOp /\ mop' = NoOp /\ UNCHANGED <<ed, stick, medium, asked>>
      /\ usbAcked' = usbAcked \cup (IF mop.pc = "ret" /\ mop.what = "write" THEN CellsOf(mop.at, mop.len) ELSE {})
  BY DEF Return, At, EndCall
<1>2. Carries(mop, mid, stick, ed["out"].carry, tag, medium, asked) /\ Asks(mop, medium, asked)
  BY <1>1, CallIs
<1>3. mop.pc = "ret" /\ mop.what = "write" => \A c \in CellsOf(mop.at, mop.len) : medium[c] = Name(c)
  BY <1>2 DEF Carries, Asks
<1>4. \A c \in Cells : Name(c) # 0
  BY MsdAssumption DEF Name, Cells, Capacity
<1>5. OwnCells(medium, asked, usbAcked')
  BY <1>1, <1>3, <1>4, DataIs DEF OwnCells
<1>6. DiskOK(stick, ed["out"].left, medium, asked, usbAcked')
  BY <1>5, DataIs DEF DiskOK
<1> QED
  BY <1>1, <1>6, EndsWith DEF CarriesOn

\* The stick after a control request.
LEMMA ClearedData ==
    ASSUME StickOK(stick), DeviceOK(stick), NEW d \in Dirs
    PROVE  Holds(stick, Cleared(d))
<1> DEFINE g == [stick.tog EXCEPT ![d] = 0]
           h == stick.halts \ {d}
           t == [stick EXCEPT !.halts = h, !.tog = g]
<1>1. g = [x \in Dirs |-> g[x]]
  BY DEF DeviceOK
<1> HIDE DEF g, h
<1>2. /\ t.ph = stick.ph /\ t.cmd = stick.cmd /\ t.tag = stick.tag /\ t.buf = stick.buf /\ t.stat = stick.stat
      /\ t.tog = g
  BY DEF StickOK
<1>3. t = Cleared(d)
  BY DEF Cleared, g, h
<1> HIDE DEF t
<1> QED
  BY <1>1, <1>2, <1>3 DEF Holds, DeviceOK
LEMMA ResetData ==
    ASSUME StickOK(stick), DeviceOK(stick)
    PROVE  Reset.ph = "idle" /\ DeviceOK(Reset)
<1>1. CASE stick.ph = "idle"
  BY <1>1 DEF Reset
<1>2. CASE stick.ph # "idle"
  <2>1. Reset.ph = "idle" /\ Reset.tog = stick.tog /\ Reset.stat = "passed"
    BY <1>2 DEF Reset, Rested
  <2> QED
    BY <2>1 DEF DeviceOK, Stats
<1> QED
  BY <1>1, <1>2
LEMMA ControlData ==
    ASSUME MsdInv, DataInv, NEW c \in Controls, stick' \in {stick, c.stick}
    PROVE  DiskOK(stick', ed["out"].left, medium, asked, usbAcked)
<1>1. Holds(stick, c.stick) \/ (c.stick.ph = "idle" /\ DeviceOK(c.stick))
  BY DataIs, ClearedData, ResetData DEF Controls, Dirs
<1> QED
  BY <1>1, DataIs, SameDisk

\* What a call was doing on the bus when it is dropped.
LEMMA CancelOut ==
    ASSUME MsdInv, DataInv, mop' = NoOp, UNCHANGED <<asked, usbAcked>>,
           NEW td, NextCell(stick, td, medium, asked), NEW r \in CancelledTd("out", td), Apply("out", r)
    PROVE  DataInv'
<1>1. OutResult(td, r) /\ r.ed.left \in {NoTd, td, ed["out"].left}
  BY DataIs, CancelData, CancelLeaves DEF Dirs
<1>2. DiskOK(r.w.stick, r.ed.left, r.w.medium, asked, usbAcked)
  BY <1>1, OutLeaves
<1>3. ed'["out"] = r.ed /\ stick' = r.w.stick /\ medium' = r.w.medium
  BY DataIs DEF Apply, Shapes, Dirs
<1> QED
  BY <1>2, <1>3, EndsWith DEF CarriesOn
LEMMA CancelIn ==
    ASSUME MsdInv, DataInv, mop' = NoOp, UNCHANGED <<asked, usbAcked>>,
           NEW td, NEW r \in CancelledTd("in", td), Apply("in", r)
    PROVE  DataInv'
<1>1. InDoes(stick, r.w, medium)
  BY DataIs, CancelData DEF Dirs, InResult
<1>2. DiskOK(r.w.stick, ed["out"].left, r.w.medium, asked, usbAcked)
  BY <1>1, DataIs, InKeeps
<1>3. ed'["out"] = ed["out"] /\ stick' = r.w.stick /\ medium' = r.w.medium
  BY DataIs DEF Apply, Shapes, Dirs
<1> QED
  BY <1>2, <1>3, EndsWith DEF CarriesOn

LEMMA CancelKeepsData == ASSUME MsdInv, DataInv, Cancel PROVE DataInv'
<1>1. mop # NoOp /\ mop' = NoOp /\ UNCHANGED <<asked, usbAcked>>
  BY DEF Cancel, EndCall
<1>2. CASE At("cbw") /\ \E r \in CancelledTd("out", [cmd |-> mop.cmd, tag |-> (tag + 1) % TagSpace]) : Apply("out", r)
  <2> DEFINE td == [cmd |-> mop.cmd, tag |-> (tag + 1) % TagSpace]
  <2>1. PICK r \in CancelledTd("out", td) : Apply("out", r)
    BY <1>2
  <2>2. mop.cmd.lba \in Nat
    BY <1>1, <1>2, CallIs DEF At, InCommand, HasCommand
  <2>3. "cmd" \in DOMAIN td /\ td.cmd = mop.cmd
    OBVIOUS
  <2> HIDE DEF td
  <2>4. NextCell(stick, td, medium, asked)
    BY <2>2, <2>3 DEF NextCell
  <2> QED
    BY <1>1, <2>1, <2>4, CancelOut
<1>3. CASE /\ At("data") /\ mop.cmd.kind = "write"
           /\ \E r \in CancelledTd("out", [cell |-> Payload(mop)[mop.sent + 1]]) : Apply("out", r)
  <2>1. PICK r \in CancelledTd("out", SentCell(mop)) : Apply("out", r)
    BY <1>3 DEF SentCell
  <2>2. NextCell(stick, SentCell(mop), medium, asked)
    BY <1>1, <1>3, DataIs, ExchangesIs, SentIsNext DEF At, InExchange
  <2> QED
    BY <1>1, <2>1, <2>2, CancelOut
<1>4. CASE \E td : \E r \in CancelledTd("in", td) : Apply("in", r)
  BY <1>1, <1>4, CancelIn
<1>5. CASE (\E c \in Controls : stick' \in {stick, c.stick}) /\ UNCHANGED <<ed, medium>>
  <2>1. DiskOK(stick', ed["out"].left, medium, asked, usbAcked)
    BY <1>5, ControlData
  <2> QED
    BY <1>1, <1>5, <2>1, EndsWith DEF CarriesOn
<1> QED
  BY <1>2, <1>3, <1>4, <1>5 DEF Cancel

\* A call whose exchange is given up.
LEMMA BrokenCarries ==
    ASSUME NEW o, NEW m, NEW a, Asks(o, m, a), HasCommand(o, m, a), OpOK(o),
           NEW e, e = [o EXCEPT !.pc = "reset", !.then = "broken"], NEW md, NEW s, NEW b, NEW t
    PROVE  Carries(e, md, s, b, t, m, a)
<1>1. SameCall(o, e) /\ e.pc = "reset" /\ e.then = "broken"
  BY DEF OpOK, SameCall
<1>2. ~Resets(e)
  BY <1>1 DEF Resets
<1>3. Asks(e, m, a) /\ HasCommand(e, m, a)
  BY <1>1, <1>2, SameOfCall
<1> QED
  BY <1>1, <1>2, <1>3 DEF Carries, InCommand, InRecovery, InExchange, ToBegin
\* A call that goes on elsewhere.
LEMMA PlaceSame ==
    ASSUME NEW o, OpOK(o), NEW pc
    PROVE  LET e == [o EXCEPT !.pc = pc] IN
           SameCall(o, e) /\ e.pc = pc /\ e.got = o.got /\ e.sent = o.sent /\ e.then = o.then
BY DEF OpOK, SameCall

LEMMA SendCbwData == ASSUME MsdInv, MaxUsbFaults + 1 < TagSpace, DataInv, SendCbw PROVE DataInv'
<1> DEFINE td == [cmd |-> mop.cmd, tag |-> (tag + 1) % TagSpace]
           x == stick.ph = "idle"
<1>1. mop # NoOp /\ mop.pc = "cbw" /\ tag' = (tag + 1) % TagSpace /\ mid' = TRUE /\ UNCHANGED <<asked, usbAcked>>
  BY DEF SendCbw, At
<1>2. PICK r \in RunBulkTd("out", td) :
        /\ ed' = [ed EXCEPT !["out"] = r.ed] /\ medium' = r.w.medium /\ Spend(r.w.f)
        /\ stick' = [r.w.stick EXCEPT !.mine = stick.ph = "idle" /\ r.w.stick.ph \in {"in", "out", "status"}]
        /\ CASE r.ans = "ok" -> Goto(IF Expect(mop.cmd) = 0 THEN "csw" ELSE "data")
             [] r.ans = "stall" -> ResetThen("broken")
             [] OTHER -> Command(mop, "error", TRUE)
  BY DEF SendCbw
<1>3. /\ OpOK(mop) /\ Placed(mop, mid, stick, ed["out"].left, tag, usbFaults) /\ Asks(mop, medium, asked)
      /\ HasCommand(mop, medium, asked) /\ mop.got = <<>> /\ mop.sent = 0 /\ stick.ph # "out"
  BY <1>1, CallIs DEF InCommand, Carries, ToBegin
<1>4. "cmd" \in DOMAIN td /\ td.cmd = mop.cmd /\ td.tag = tag'
  BY <1>1
<1>5. /\ OutResult(td, r) /\ (r.ans = "ok" => r.ed.carry = Flip(ed["out"].carry))
      /\ Leaves("out", td, r) /\ r.ed.left \in {NoTd, td}
  BY DataIs, RunData, RunLeaves DEF Dirs
<1> HIDE DEF td
<1>6. NextCell(stick, td, medium, asked)
  BY <1>3, <1>4 DEF NextCell, HasCommand
<1>7. DiskOK(r.w.stick, r.ed.left, r.w.medium, asked, usbAcked) /\ r.w.medium = medium
  BY <1>4, <1>5, <1>6, OutLeaves
<1>8. StickOK(r.w.stick) /\ DeviceOK(r.w.stick)
  BY <1>5, <1>7 DEF Leaves, Moves, Goes, Begins, DiskOK
<1>9. Holds(r.w.stick, stick') /\ stick'.tog = r.w.stick.tog
  BY <1>2, <1>8 DEF StickOK, Holds, DeviceOK
<1>10. ed'["out"] = r.ed
  BY <1>2, DataIs DEF Shapes, Dirs
<1>11. DiskOK(stick', ed'["out"].left, medium', asked', usbAcked')
  BY <1>1, <1>2, <1>7, <1>9, <1>10, SameDisk
<1>12. CASE r.ans = "ok"
  <2>1. PICK pc : pc = (IF Expect(mop.cmd) = 0 THEN "csw" ELSE "data") /\ mop' = [mop EXCEPT !.pc = pc]
    BY <1>2, <1>12 DEF Goto
  <2>2. SameCall(mop, mop') /\ mop'.pc = pc /\ mop'.got = mop.got /\ mop'.sent = mop.sent
    BY <1>3, <2>1, PlaceSame
  <2>3. IsBusy(stick) => stick.tag # tag'
    BY <1>1, <1>3, DataIs, NextIsNew DEF Placed, Shapes
  <2>4. OutDoes(stick, r.w, medium, td, ed["out"].carry = stick.tog["out"]) /\ r.w.ans = "ok"
    BY <1>5, <1>12 DEF OutResult, Leaves
  <2>5. Exchanges(mop', stick', Flip(ed["out"].carry), tag', medium)
    <3> DEFINE b == ed["out"].carry
               w == r.w
               e == mop'
               z == stick'
               t == tag'
    <3>1. z.ph = w.stick.ph /\ z.cmd = w.stick.cmd /\ z.tag = w.stick.tag /\ z.buf = w.stick.buf
          /\ z.stat = w.stick.stat /\ z.tog = w.stick.tog
      BY <1>9 DEF Holds
    <3>2. SameCall(mop, e) /\ e.got = mop.got /\ e.sent = mop.sent /\ e.pc = IF Expect(mop.cmd) = 0 THEN "csw" ELSE "data"
      BY <2>1, <2>2
    <3>3. "cmd" \in DOMAIN td /\ td.cmd = mop.cmd /\ td.tag = t /\ (IsBusy(stick) => stick.tag # t)
      BY <1>4, <2>3
    <3>4. OutDoes(stick, w, medium, td, b = stick.tog["out"]) /\ w.ans = "ok"
      BY <2>4
    <3> HIDE DEF b, w, e, z, t
    <3>5. Exchanges(e, z, Flip(b), t, medium)
      BY <1>3, <3>1, <3>2, <3>3, <3>4, StartsExchange
    <3> QED
      BY <3>5 DEF b, e, z, t
  <2>6. Carries(mop', mid', stick', ed'["out"].carry, tag', medium, asked)
    BY <1>3, <1>5, <1>10, <1>12, <2>1, <2>2, <2>5, ExchangeCarries DEF InExchange
  <2> QED
    BY <1>1, <1>2, <1>7, <1>11, <2>6, EndsWith DEF CarriesOn
<1>13. CASE r.ans = "stall"
  <2>1. mop' = [mop EXCEPT !.pc = "reset", !.then = "broken"]
    BY <1>2, <1>13 DEF ResetThen
  <2>2. Carries(mop', mid', stick', ed'["out"].carry, tag', medium, asked)
    BY <1>3, <2>1, BrokenCarries
  <2> QED
    BY <1>1, <1>2, <1>7, <1>11, <2>2, EndsWith DEF CarriesOn
<1>14. CASE r.ans \notin {"ok", "stall"}
  <2>1. Command(mop, "error", TRUE)
    BY <1>2, <1>14
  <2>2. CarriesOn(TRUE, stick', ed'["out"].carry, tag', medium, asked)
    BY <1>3, <2>1, CommandCarries
  <2> QED
    BY <1>1, <1>2, <1>7, <1>11, <2>2, EndsWith
<1> QED
  BY <1>12, <1>13, <1>14

LEMMA DataOutData == ASSUME MsdInv, DataInv, DataOut PROVE DataInv'
<1> DEFINE td == SentCell(mop)
           n == medium'
<1>1. /\ mop # NoOp /\ mop.pc = "data" /\ mop.cmd.kind = "write" /\ InExchange(mop.pc)
      /\ UNCHANGED <<mid, tag, asked, usbAcked>>
  BY DEF DataOut, At, InExchange, bot
<1>2. PICK r \in RunBulkTd("out", td) :
        /\ Apply("out", r)
        /\ CASE r.ans = "ok" -> /\ mop' = [mop EXCEPT !.sent = @ + 1,
                                      !.pc = IF mop.sent + 1 = Expect(mop.cmd) THEN "csw" ELSE "data"]
                                /\ UNCHANGED mslot
             [] r.ans = "stall" -> Goto("clrdata")
             [] OTHER -> Command(mop, "error", TRUE)
  BY DEF DataOut, SentCell
<1>3. /\ OpOK(mop) /\ Asks(mop, medium, asked) /\ HasCommand(mop, medium, asked)
      /\ Exchanges(mop, stick, ed["out"].carry, tag, medium) /\ mid = TRUE
  BY <1>1, ExchangesIs
<1>4. "cmd" \notin DOMAIN td /\ NextCell(stick, td, medium, asked)
  BY <1>1, <1>3, DataIs, SentIsNext
<1>5. /\ OutResult(td, r) /\ (r.ans = "ok" => r.ed.carry = Flip(ed["out"].carry))
      /\ Leaves("out", td, r) /\ r.ed.left \in {NoTd, td}
  BY DataIs, RunData, RunLeaves DEF Dirs
<1> HIDE DEF td
<1>6. DiskOK(r.w.stick, r.ed.left, r.w.medium, asked, usbAcked) /\ Kept(medium, r.w.medium, asked)
  BY <1>4, <1>5, OutLeaves
<1>7. ed'["out"] = r.ed /\ stick' = r.w.stick /\ n = r.w.medium
  BY <1>2, DataIs DEF Apply, Shapes, Dirs
<1>8. DiskOK(stick', ed'["out"].left, n, asked', usbAcked')
  BY <1>1, <1>6, <1>7
<1>9. OutDoes(stick, r.w, medium, td, ed["out"].carry = stick.tog["out"])
  BY <1>5 DEF OutResult
<1> DEFINE e == [mop EXCEPT !.sent = @ + 1, !.pc = IF mop.sent + 1 = Expect(mop.cmd) THEN "csw" ELSE "data"]
<1>10. /\ SameCall(mop, e) /\ e.got = mop.got /\ e.sent = mop.sent + 1
       /\ e.pc = IF mop.sent + 1 = Expect(mop.cmd) THEN "csw" ELSE "data"
  BY <1>3 DEF OpOK, SameCall
<1> HIDE DEF e
<1>11. r.w.ans = "ok" => /\ Exchanges(e, r.w.stick, Flip(ed["out"].carry), tag, r.w.medium)
                         /\ r.w.medium # medium => Stored(mop, r.w.medium)
  BY <1>1, <1>3, <1>9, <1>10, DataIs, OutTakes DEF td
<1>12. r.w.medium # medium => r.w.ans = "ok"
  BY <1>9 DEF OutDoes, Stays, Starts
<1>13. Asks(mop, n, asked) /\ HasCommand(mop, n, asked)
  BY <1>1, <1>3, <1>6, <1>7, <1>11, <1>12, KeptAsks
<1>14. CASE r.ans = "ok"
  <2>1. mop' = e
    BY <1>2, <1>14 DEF e
  <2>2. r.w.ans = "ok"
    BY <1>5, <1>14 DEF Leaves
  <2>3. Carries(mop', mid', stick', ed'["out"].carry, tag', n, asked)
    BY <1>1, <1>5, <1>7, <1>10, <1>11, <1>13, <1>14, <2>1, <2>2, ExchangeCarries DEF InExchange
  <2> QED
    BY <1>1, <1>8, <2>3, EndsWith DEF CarriesOn
<1>15. CASE r.ans = "stall"
  <2>1. mop' = [mop EXCEPT !.pc = "clrdata"] /\ r.w.ans = "stall"
    BY <1>2, <1>5, <1>15 DEF Goto, Leaves
  <2>2. SameCall(mop, mop') /\ mop'.pc = "clrdata" /\ mop'.got = mop.got
    BY <1>3, <2>1, PlaceSame
  <2>3. IsBusy(stick) /\ stick.tag = tag => "out" \notin stick.halts
    BY <1>1, ExchangeIs
  <2>4. Exchanges(mop', stick', ed'["out"].carry, tag, n)
    <3> DEFINE b == ed["out"].carry
               w == r.w
               g == mop'
               c == ed'["out"].carry
    <3>1. /\ Exchanges(mop, stick, b, tag, medium) /\ StickWrites(stick, medium, asked) /\ w.ans = "stall"
          /\ OutDoes(stick, w, medium, td, b = stick.tog["out"]) /\ SameCall(mop, g) /\ g.got = mop.got
      BY <1>3, <1>9, <2>1, <2>2, DataIs
    <3> HIDE DEF b, w, g, c
    <3>2. Exchanges(g, w.stick, c, tag, w.medium)
      BY <2>3, <3>1, OutStops
    <3> QED
      BY <1>7, <3>2 DEF w, g, c
  <2>5. Carries(mop', mid', stick', ed'["out"].carry, tag', n, asked)
    BY <1>1, <1>13, <2>2, <2>4, ExchangeCarries DEF InExchange
  <2> QED
    BY <1>1, <1>8, <2>5, EndsWith DEF CarriesOn
<1>16. CASE r.ans \notin {"ok", "stall"}
  <2>1. Command(mop, "error", TRUE)
    BY <1>2, <1>16
  <2>2. CarriesOn(TRUE, stick', ed'["out"].carry, tag', n, asked)
    BY <1>3, <1>13, <2>1, CommandCarries
  <2> QED
    BY <1>1, <1>3, <1>8, <2>2, EndsWith
<1> QED
  BY <1>14, <1>15, <1>16

\* A transfer from the stick.
LEMMA InApplied ==
    ASSUME MsdInv, DataInv, UNCHANGED <<asked, usbAcked>>, NEW r, InDoes(stick, r.w, medium), Apply("in", r)
    PROVE  /\ ed'["out"] = ed["out"] /\ stick' = r.w.stick /\ medium' = medium
           /\ DiskOK(stick', ed'["out"].left, medium, asked', usbAcked') /\ (stick'.ph = "out" => stick' = stick)
<1>1. DiskOK(r.w.stick, ed["out"].left, r.w.medium, asked, usbAcked) /\ r.w.medium = medium
      /\ (r.w.stick.ph = "out" => r.w.stick = stick)
  BY DataIs, InKeeps
<1>2. ed'["out"] = ed["out"] /\ stick' = r.w.stick /\ medium' = r.w.medium
  BY DataIs DEF Apply, Shapes, Dirs
<1> QED
  BY <1>1, <1>2
\* After it the call is elsewhere in its exchange.
LEMMA InGoesOn ==
    ASSUME MsdInv, DataInv, mop # NoOp, InExchange(mop.pc), mop.pc # "data" \/ mop.cmd.kind # "write",
           UNCHANGED <<mid, tag, asked, usbAcked>>,
           NEW r, InDoes(stick, r.w, medium), Apply("in", r),
           SameCall(mop, mop'), mop'.got = mop.got, InExchange(mop'.pc)
    PROVE  DataInv'
<1>1. /\ ed'["out"] = ed["out"] /\ stick' = r.w.stick /\ medium' = medium
      /\ DiskOK(stick', ed'["out"].left, medium, asked', usbAcked') /\ (stick'.ph = "out" => stick' = stick)
  BY InApplied
<1>2. /\ Asks(mop, medium, asked) /\ HasCommand(mop, medium, asked) /\ stick.ph # "out"
      /\ Exchanges(mop, stick, ed["out"].carry, tag, medium) /\ Expect(mop.cmd) \in Nat /\ First(mop.cmd) \in Nat
  BY ExchangesIs, SizesAre
<1> DEFINE b == ed["out"].carry
           e == mop'
<1>3. SameCall(mop, e) /\ e.got = mop.got /\ Exchanges(mop, stick, b, tag, medium) /\ StickWrites(stick, medium, asked)
  BY <1>2, DataIs
<1> HIDE DEF b, e
<1>4. Exchanges(e, r.w.stick, b, tag, medium)
  BY <1>1, <1>2, <1>3, InExchanges
<1>5. Carries(mop', mid', stick', b, tag', medium, asked)
  BY <1>1, <1>2, <1>4, ExchangeCarries DEF e
<1> QED
  BY <1>1, <1>5, EndsWith DEF CarriesOn, b
\* Or a command has failed.
LEMMA InFails ==
    ASSUME MsdInv, DataInv, mop # NoOp, InExchange(mop.pc), UNCHANGED <<mid, asked, usbAcked>>,
           NEW r, InDoes(stick, r.w, medium), Apply("in", r), Command(mop, "error", TRUE)
    PROVE  DataInv'
<1>1. /\ medium' = medium /\ DiskOK(stick', ed'["out"].left, medium, asked', usbAcked')
  BY InApplied
<1>2. OpOK(mop) /\ Asks(mop, medium, asked) /\ HasCommand(mop, medium, asked) /\ mid = TRUE
  BY ExchangesIs
<1>3. CarriesOn(TRUE, stick', ed'["out"].carry, tag', medium, asked)
  BY <1>2, CommandCarries
<1> QED
  BY <1>1, <1>2, <1>3, EndsWith

LEMMA DataInData == ASSUME MsdInv, DataInv, DataIn PROVE DataInv'
<1>1. /\ mop # NoOp /\ mop.pc = "data" /\ InExchange(mop.pc) /\ mop.cmd.kind # "write"
      /\ UNCHANGED <<mid, tag, asked, usbAcked>>
  BY DEF DataIn, At, InExchange, bot
<1>2. PICK r \in RunBulkTd("in", mop.cmd.kind) :
        /\ Apply("in", r)
        /\ CASE r.ans = "ok" /\ "cell" \in DOMAIN r.w.pkt ->
                  /\ mop' = [mop EXCEPT !.got = Append(@, r.w.pkt.cell),
                                        !.pure = @ /\ r.w.pkt.mine,
                                        !.pc = IF Len(mop.got) + 1 = Expect(mop.cmd) THEN "csw" ELSE "data"]
                  /\ UNCHANGED mslot
             [] r.ans = "ok" /\ r.w.pkt = NoPkt -> Goto("csw")
             [] r.ans = "stall" -> Goto("clrdata")
             [] r.ans = "dropped" -> UNCHANGED <<mop, mslot>>
             [] OTHER -> Command(mop, "error", TRUE)
  BY DEF DataIn
<1>3. /\ OpOK(mop) /\ Asks(mop, medium, asked) /\ HasCommand(mop, medium, asked)
      /\ Exchanges(mop, stick, ed["out"].carry, tag, medium) /\ mid = TRUE
      /\ Expect(mop.cmd) \in Nat /\ First(mop.cmd) \in Nat
  BY <1>1, ExchangesIs, SizesAre
<1>4. InDoes(stick, r.w, medium) /\ Leaves("in", mop.cmd.kind, r)
  BY DataIs, RunData, RunLeaves DEF Dirs, InResult
<1>5. CASE r.ans = "ok" /\ "cell" \in DOMAIN r.w.pkt
  <2>1. mop' = [mop EXCEPT !.got = Append(@, r.w.pkt.cell), !.pure = @ /\ r.w.pkt.mine,
                           !.pc = IF Len(mop.got) + 1 = Expect(mop.cmd) THEN "csw" ELSE "data"]
    <3>1. r.w.pkt # NoPkt
      BY <1>5 DEF NoPkt
    <3> QED
      BY <1>2, <1>5, <3>1
  <2>2. SameCall(mop, mop') /\ mop'.got = Append(mop.got, r.w.pkt.cell) /\ mop'.pc \in {"csw", "data"}
    BY <1>3, <2>1 DEF OpOK, SameCall
  <2>3. /\ ed'["out"] = ed["out"] /\ stick' = r.w.stick /\ medium' = medium
        /\ DiskOK(stick', ed'["out"].left, medium, asked', usbAcked')
    BY <1>1, <1>2, <1>4, InApplied
  <2> DEFINE b == ed["out"].carry
             e == mop'
             w == r.w
  <2>4. /\ SameCall(mop, e) /\ e.got = Append(mop.got, w.pkt.cell) /\ Exchanges(mop, stick, b, tag, medium)
        /\ StickWrites(stick, medium, asked) /\ InDoes(stick, w, medium) /\ w.ans = "ok" /\ "cell" \in DOMAIN w.pkt
    BY <1>3, <1>4, <1>5, <2>2, DataIs DEF Leaves
  <2> HIDE DEF b, e, w
  <2>5. Exchanges(e, w.stick, b, tag, medium)
    BY <1>3, <2>4, InTakes
  <2>6. Carries(mop', mid', stick', b, tag', medium, asked)
    BY <1>1, <1>3, <2>2, <2>3, <2>5, ExchangeCarries DEF e, w, InExchange
  <2> QED
    BY <1>1, <2>3, <2>6, EndsWith DEF CarriesOn, b
<1>6. ASSUME NEW pc \in {"csw", "clrdata"}, Goto(pc) PROVE DataInv'
  <2>1. SameCall(mop, mop') /\ mop'.pc = pc /\ mop'.got = mop.got
    BY <1>3, <1>6, PlaceSame DEF Goto
  <2> QED
    BY <1>1, <1>2, <1>4, <2>1, InGoesOn DEF InExchange
<1>7. ASSUME mop' = mop PROVE DataInv'
  <2>1. SameCall(mop, mop')
    BY <1>7 DEF SameCall
  <2> QED
    BY <1>1, <1>2, <1>4, <1>7, <2>1, InGoesOn
<1>8. ASSUME Command(mop, "error", TRUE) PROVE DataInv'
  BY <1>1, <1>2, <1>4, <1>8, InFails
<1> QED
  BY <1>2, <1>5, <1>6, <1>7, <1>8

LEMMA ReadCswData == ASSUME MsdInv, DataInv, ReadCsw PROVE DataInv'
<1> DEFINE Whole(r) == IF mop.cmd.kind = "write" THEN r.w.pkt.stat # "short" ELSE Len(mop.got) = Expect(mop.cmd)
<1>1. /\ mop # NoOp /\ mop.pc \in {"csw", "csw2"} /\ InExchange(mop.pc) /\ UNCHANGED <<tag, asked, usbAcked>>
  BY DEF ReadCsw, At, InExchange
<1>2. PICK r \in RunBulkTd("in", "csw") :
        /\ Apply("in", r)
        /\ IF r.ans = "ok" /\ ValidCsw(r.w.pkt)
           THEN /\ mid' = FALSE
                /\ Command([mop EXCEPT !.own = @ /\ mop.pure /\ r.w.pkt.mine],
                           IF r.w.pkt.stat = "failed" THEN "failed" ELSE IF Whole(r) THEN "passed" ELSE "short",
                           FALSE)
           ELSE /\ CASE r.ans = "ok" -> ResetThen("broken")
                     [] r.ans = "stall" -> IF At("csw") THEN Goto("clrcsw") ELSE ResetThen("broken")
                     [] r.ans = "dropped" -> UNCHANGED <<mop, mslot>>
                     [] OTHER -> Command(mop, "error", TRUE)
                /\ UNCHANGED mid
  BY DEF ReadCsw
<1>3. /\ OpOK(mop) /\ Asks(mop, medium, asked) /\ HasCommand(mop, medium, asked)
      /\ Exchanges(mop, stick, ed["out"].carry, tag, medium) /\ mid = TRUE
  BY <1>1, ExchangesIs
<1>4. InDoes(stick, r.w, medium) /\ Leaves("in", "csw", r)
  BY DataIs, RunData, RunLeaves DEF Dirs, InResult
<1>5. /\ ed'["out"] = ed["out"] /\ stick' = r.w.stick /\ medium' = medium
      /\ DiskOK(stick', ed'["out"].left, medium, asked', usbAcked')
  BY <1>1, <1>2, <1>4, InApplied
<1>6. CASE r.ans = "ok" /\ ValidCsw(r.w.pkt)
  <2>1. /\ "stat" \in DOMAIN r.w.pkt /\ r.w.pkt.tag = tag /\ r.w \in InXact /\ r.w.ans = "ok"
        /\ r.w.pkt.stat \notin {"bad", "phase"}
    BY <1>4, <1>6 DEF ValidCsw, Leaves, OnWire
  <2>2. /\ IsBusy(stick) /\ stick.tag = tag /\ r.w.stick.ph = "idle" /\ stick.ph = "status"
        /\ r.w.pkt.stat = stick.stat
    BY <2>1, DataIs, InIs, StatusData
  <2>3. Answers(mop, stick, ed["out"].carry, medium) /\ IsSeq(mop.got)
    BY <1>3, <2>2 DEF Exchanges
  <2> DEFINE o == [mop EXCEPT !.own = @ /\ mop.pure /\ r.w.pkt.mine]
             res == IF r.w.pkt.stat = "failed" THEN "failed" ELSE IF Whole(r) THEN "passed" ELSE "short"
  <2>4. OpOK(o) /\ SameCall(mop, o) /\ o.got = mop.got /\ o.pc = mop.pc
    BY <1>3 DEF OpOK, SameCall
  <2>5. mid' = FALSE /\ Command(o, res, FALSE)
    BY <1>2, <1>6
  <2>6. ASSUME res = "passed" PROVE Delivers(mop, medium)
    <3>1. Whole(r) /\ stick.stat # "failed"
      BY <2>2, <2>6
    <3>2. stick.stat \in Stats
      BY DataIs DEF DeviceOK
    <3>3. mop.cmd.kind = "write" => stick.stat = "passed"
      BY <2>1, <2>2, <3>1, <3>2 DEF Stats
    <3>4. mop.cmd.kind = "write" => Stored(mop, medium)
      BY <2>2, <2>3, <3>3 DEF Answers
    <3>5. mop.cmd.kind = "read" => GotAll(mop) /\ Copied(mop, medium)
      BY <2>2, <2>3, <3>1 DEF Answers, GotAll
    <3> QED
      BY <3>4, <3>5 DEF Delivers
  <2> HIDE DEF o, res
  <2>7. res = "passed" => Delivers(o, medium)
    BY <2>4, <2>6, SameOfCall DEF Delivers, GotAll, SameCall
  <2>8. ~Resets(o)
    BY <1>1, <2>4 DEF Resets, InRecovery
  <2>9. Asks(o, medium, asked) /\ HasCommand(o, medium, asked)
    BY <1>3, <2>4, <2>8, SameOfCall
  <2>10. CarriesOn(FALSE, stick', ed'["out"].carry, tag', medium, asked)
    BY <1>5, <2>2, <2>4, <2>5, <2>7, <2>9, CommandCarries
  <2> QED
    BY <1>1, <1>5, <2>5, <2>10, EndsWith
<1>7. CASE ~(r.ans = "ok" /\ ValidCsw(r.w.pkt))
  <2>1. mid' = mid
    BY <1>2, <1>7
  <2>2. CASE ResetThen("broken")
    <3>1. mop' = [mop EXCEPT !.pc = "reset", !.then = "broken"]
      BY <2>2 DEF ResetThen
    <3>2. Carries(mop', mid', stick', ed'["out"].carry, tag', medium, asked)
      BY <1>3, <3>1, BrokenCarries
    <3> QED
      BY <1>1, <1>5, <3>2, EndsWith DEF CarriesOn
  <2>3. CASE Goto("clrcsw")
    <3>1. SameCall(mop, mop') /\ mop'.pc = "clrcsw" /\ mop'.got = mop.got
      BY <1>3, <2>3, PlaceSame DEF Goto
    <3> QED
      BY <1>1, <1>2, <1>4, <2>1, <3>1, InGoesOn DEF InExchange
  <2>4. CASE UNCHANGED <<mop, mslot>>
    <3>1. mop' = mop /\ SameCall(mop, mop')
      BY <2>4 DEF SameCall
    <3> QED
      BY <1>1, <1>2, <1>4, <2>1, <3>1, InGoesOn
  <2>5. CASE Command(mop, "error", TRUE)
    BY <1>1, <1>2, <1>4, <2>1, <2>5, InFails
  <2> QED
    BY <1>2, <1>7, <2>2, <2>3, <2>4, <2>5
<1> QED
  BY <1>6, <1>7

\* A call goes on in its recovery, or from there to its command.
LEMMA RecoveryCarries ==
    ASSUME NEW o, NEW md, NEW s, NEW b, NEW t, NEW m, NEW a, Carries(o, md, s, b, t, m, a), InRecovery(o.pc),
           NEW e, SameCall(o, e), e.got = o.got, e.sent = o.sent, e.then = o.then,
           InRecovery(e.pc) \/ (e.pc = "cbw" /\ o.then = "cbw"),
           NEW nd, NEW z, z.ph # "out", NEW c
    PROVE  Carries(e, nd, z, c, t, m, a)
<1>1. Asks(o, m, a) /\ HasCommand(o, m, a) /\ (Resets(o) => o.got = <<>> /\ o.sent = 0 /\ o.done = 0)
  BY DEF Carries, InCommand, ToBegin
<1>2. (Resets(e) => Resets(o)) /\ (e.pc = "cbw" => Resets(o)) /\ ~InExchange(e.pc) /\ e.pc \notin {"ret", "refuse"}
  BY DEF Resets, InRecovery, InExchange
<1>3. Chunk(e) = Chunk(o) /\ Asks(e, m, a) /\ \A x : OfChunk(o, x, m, a) => OfChunk(e, x, m, a)
  BY <1>1, SameOfCall
<1>4. e.cmd = o.cmd /\ e.done = o.done
  BY DEF SameCall
<1>5. HasCommand(e, m, a)
  BY <1>1, <1>2, <1>3, <1>4 DEF HasCommand
<1> QED
  BY <1>1, <1>2, <1>3, <1>4, <1>5 DEF Carries, InCommand, ToBegin

LEMMA ControlsData == ASSUME MsdInv, DataInv, Control PROVE DataInv'
<1>1. mop # NoOp /\ UNCHANGED <<tag, ed, medium, asked, usbAcked>>
  BY DEF Control
<1>2. PICK c \in Controls :
        /\ At(c.pc) /\ stick' = c.stick /\ mid' = (mid /\ c.pc # "clrout")
        /\ IF c.next = "broken" THEN Command(mop, "error", FALSE) ELSE Goto(c.next)
  BY DEF Control
<1>3. mop.pc = c.pc
  BY <1>2 DEF At
<1>4. DiskOK(stick', ed'["out"].left, medium', asked', usbAcked')
  BY <1>1, <1>2, ControlData
<1>5. /\ OpOK(mop) /\ Carries(mop, mid, stick, ed["out"].carry, tag, medium, asked) /\ Asks(mop, medium, asked)
      /\ InCommand(mop.pc) => HasCommand(mop, medium, asked)
  BY <1>1, CallIs
<1> DEFINE b == ed'["out"].carry
<1>6. ASSUME NEW pc, Goto(pc), Carries([mop EXCEPT !.pc = pc], mid', stick', b, tag, medium, asked) PROVE DataInv'
  BY <1>1, <1>4, <1>6, EndsWith DEF CarriesOn, Goto
<1> HIDE DEF b
<1>7. ASSUME NEW pc
      PROVE  LET e == [mop EXCEPT !.pc = pc] IN
             SameCall(mop, e) /\ e.pc = pc /\ e.got = mop.got /\ e.sent = mop.sent /\ e.then = mop.then
  BY <1>5, PlaceSame
<1>8. CASE c.pc \in {"clrdata", "clrcsw"}
  <2>1. PICK d \in Dirs, pc \in {"csw", "csw2"} : c.stick = Cleared(d) /\ c.next = pc
    BY <1>8 DEF Controls, Dirs
  <2>2. /\ HasCommand(mop, medium, asked) /\ Exchanges(mop, stick, ed["out"].carry, tag, medium) /\ stick.ph # "out"
    BY <1>1, <1>3, <1>8, ExchangesIs DEF InExchange
  <2>3. Holds(stick, stick')
    BY <1>2, <2>1, DataIs, ClearedData
  <2> DEFINE e == [mop EXCEPT !.pc = pc]
  <2>4. SameCall(mop, e) /\ e.pc = pc /\ e.got = mop.got
    BY <1>7
  <2> HIDE DEF e
  <2>5. Exchanges(e, stick', b, tag, medium)
    BY <2>2, <2>3, <2>4, SameExchanges
  <2>6. Carries(e, mid', stick', b, tag, medium, asked)
    BY <1>5, <2>2, <2>4, <2>5, ExchangeCarries DEF InExchange
  <2> QED
    BY <1>2, <1>6, <2>1, <2>6 DEF e
<1>9. ASSUME InRecovery(mop.pc), stick'.ph # "out",
             NEW pc, Goto(pc), InRecovery(pc) \/ (pc = "cbw" /\ mop.then = "cbw")
      PROVE  DataInv'
  <2> DEFINE e == [mop EXCEPT !.pc = pc]
  <2>1. SameCall(mop, e) /\ e.pc = pc /\ e.got = mop.got /\ e.sent = mop.sent /\ e.then = mop.then
    BY <1>7
  <2> HIDE DEF e
  <2>2. Carries(e, mid', stick', b, tag, medium, asked)
    BY <1>5, <1>9, <2>1, RecoveryCarries
  <2> QED
    BY <1>6, <1>9, <2>2 DEF e
<1>10. CASE c.pc = "reset"
  <2>1. c.stick = Reset /\ c.next = "clrin" /\ InRecovery(mop.pc) /\ InRecovery(c.next)
    BY <1>3, <1>10 DEF Controls, InRecovery
  <2>2. stick'.ph # "out"
    BY <1>2, <2>1, DataIs, ResetData
  <2> QED
    BY <1>2, <1>9, <2>1, <2>2
<1>11. CASE c.pc \in {"clrin", "clrout"}
  <2>1. PICK d \in Dirs : c.stick = Cleared(d)
    BY <1>11 DEF Controls, Dirs
  <2>2. c.next = IF c.pc = "clrin" THEN "clrout" ELSE mop.then
    BY <1>11 DEF Controls
  <2>3. stick.ph # "out" /\ InRecovery(mop.pc) /\ HasCommand(mop, medium, asked)
    BY <1>3, <1>5, <1>11 DEF Carries, InRecovery, InCommand
  <2>4. stick'.ph # "out"
    BY <1>2, <2>1, <2>3, DataIs, ClearedData DEF Holds
  <2>5. CASE c.next = "broken"
    <3>1. c.pc = "clrout" /\ mid' = FALSE /\ Command(mop, "error", FALSE)
      BY <1>2, <1>11, <2>2, <2>5
    <3>2. CarriesOn(FALSE, stick', b, tag, medium, asked)
      BY <1>5, <2>3, <2>4, <3>1, CommandCarries
    <3> QED
      BY <1>1, <1>4, <3>1, <3>2, EndsWith DEF b
  <2>6. CASE c.next # "broken"
    <3>1. mop.then \in {"cbw", "broken"}
      BY <1>1, <1>3, <1>11, CallIs DEF Placed
    <3>2. InRecovery(c.next) \/ (c.next = "cbw" /\ mop.then = "cbw")
      BY <1>11, <2>2, <2>6, <3>1 DEF InRecovery
    <3> QED
      BY <1>2, <1>9, <2>3, <2>4, <2>6, <3>2
  <2> QED
    BY <2>5, <2>6
<1> QED
  BY <1>8, <1>10, <1>11, DataIs, ControlIs

LEMMA ControlFailsData == ASSUME MsdInv, DataInv, ControlFails PROVE DataInv'
<1>1. mop # NoOp /\ UNCHANGED <<mid, tag, ed, medium, asked, usbAcked>> /\ Command(mop, "error", mid)
  BY DEF ControlFails, bot
<1>2. PICK c \in Controls : At(c.pc) /\ stick' \in {stick, c.stick}
  BY DEF ControlFails
<1>3. mop.pc \in {"clrdata", "clrcsw", "reset", "clrin", "clrout"}
  BY <1>2, DataIs, ControlIs DEF At
<1>4. mid = TRUE
  BY <1>1, <1>3, CallIs, DataIs DEF Placed, InExchange, Shapes
<1>5. OpOK(mop) /\ Asks(mop, medium, asked) /\ HasCommand(mop, medium, asked)
  BY <1>1, <1>3, CallIs DEF InCommand, InRecovery, InExchange
<1>6. DiskOK(stick', ed'["out"].left, medium', asked', usbAcked')
  BY <1>1, <1>2, ControlData
<1>7. CarriesOn(TRUE, stick', ed'["out"].carry, tag', medium, asked)
  BY <1>1, <1>4, <1>5, CommandCarries
<1> QED
  BY <1>1, <1>4, <1>6, <1>7, EndsWith

(***************************************************************************)
(* A descriptor that nobody waits for.                                     *)
(***************************************************************************)

\* The medium may change under a call that has done nothing yet.
LEMMA EarlyAsks ==
    ASSUME NEW o, NEW m, NEW n, NEW a, Asks(o, m, a), Kept(m, n, a), o.done = 0
    PROVE  Asks(o, n, a)
<1>1. \A c \in CellsOf(o.at, o.done) : m[c] = Name(c) => n[c] = Name(c)
  BY DEF Kept, CellsOf, Cells
<1>2. o.what = "read" => o.out = [i \in 1 .. o.done |-> n[o.at + i - 1]]
  <2>1. [i \in 1 .. 0 |-> m[o.at + i - 1]] = [i \in 1 .. 0 |-> n[o.at + i - 1]]
    OBVIOUS
  <2> QED
    BY <2>1 DEF Asks
<1> QED
  BY <1>1, <1>2 DEF Asks
\* Its command, which is yet to begin after a reset, brings new bytes only.
LEMMA EarlyCommand ==
    ASSUME NEW o, NEW m, NEW n, NEW a, Asks(o, n, a), HasCommand(o, m, a), Resets(o)
    PROVE  HasCommand(o, n, a)
<1>1. ASSUME o.cmd.kind = "write" PROVE Writes(o, o.cmd, n, a)
  <2>1. /\ o.cmd = Cmd("write", Chunk(o).lba, Chunk(o).n) /\ o.what = "write" /\ o.at + o.len <= Capacity
        /\ Aligned(Chunk(o))
    BY <1>1 DEF HasCommand, OfChunk, Writes, ReadWrite
  <2> QED
    BY <2>1, WritesWhole
<1> QED
  BY <1>1 DEF HasCommand, OfChunk

LEMMA ServeOut == ASSUME MsdInv, ~LateWrites, DataInv, ServeLeft("out") PROVE DataInv'
<1> DEFINE q == ed["out"].left
           n == medium'
           z == stick'
<1>1. /\ q # NoTd /\ UNCHANGED <<mop, mid, tag, asked, usbAcked>>
      /\ ~(QueuedWrite("out") /\ \E pc \in {"clrin", "clrout", "cbw"} : At(pc))
  BY DEF ServeLeft, bot
<1>2. PICK w \in Out(q) : stick' = w.stick /\ medium' = w.medium /\ ed' = [ed EXCEPT !["out"] = Served("out", w)]
  BY DEF ServeLeft, OnWire
<1>3. OutDoes(stick, w, medium, q, ed["out"].carry = stick.tog["out"]) /\ w.ans # "dropped"
  BY DataIs, OutData, OutIs
<1>4. NextCell(stick, q, medium, asked) /\ DiskOK(stick, q, medium, asked, usbAcked)
  BY <1>1, DataIs DEF DiskOK
<1>5. ed'["out"].left = NoTd
  <2>1. EdOK(ed["out"]) /\ ed'["out"] = Served("out", w)
    BY <1>2, DataIs DEF Shapes, Dirs
  <2>2. \/ Served("out", w) = [ed["out"] EXCEPT !.halted = TRUE, !.left = NoTd]
        \/ Served("out", w) = [ed["out"] EXCEPT !.carry = Flip(@), !.left = NoTd]
    BY <1>3 DEF Served
  <2> QED
    BY <2>1, <2>2 DEF EdOK
<1> HIDE DEF q, n, z
<1>6. /\ DiskOK(z, NoTd, n, asked, usbAcked) /\ Kept(medium, n, asked)
      /\ n # medium => stick.ph = "out"
  BY <1>2, <1>3, <1>4, OutKeeps DEF n, z
<1>7. DiskOK(stick', ed'["out"].left, medium', asked', usbAcked')
  BY <1>1, <1>5, <1>6 DEF n, z
<1>8. ASSUME mop # NoOp PROVE Carries(mop, mid, stick', ed'["out"].carry, tag, n, asked)
  <2>1. /\ Placed(mop, mid, stick, ed["out"].left, tag, usbFaults) /\ Asks(mop, medium, asked)
        /\ Carries(mop, mid, stick, ed["out"].carry, tag, medium, asked)
    BY <1>8, CallIs
  <2>2. ~InExchange(mop.pc) /\ ~(InRecovery(mop.pc) /\ mop.then = "broken")
    BY <1>1, <2>1 DEF Placed, InRecovery, q
  <2>3. InRecovery(mop.pc) => Resets(mop)
    BY <2>1, <2>2 DEF Placed, InRecovery, Resets
  <2>4. ASSUME stick.ph # "out", mop.pc \in {"cbw", "clrin", "clrout"} PROVE z.ph # "out"
    <3>1. CASE Stays(stick, z, medium, n)
      BY <2>4, <3>1 DEF Stays
    <3>2. CASE Starts(stick, z, medium, n, q)
      <4>1. q.cmd.kind # "write"
        BY <1>1, <1>8, <2>4, <3>2 DEF QueuedWrite, At, Starts, q
      <4> QED
        BY <3>2, <4>1 DEF Starts
    <3> QED
      BY <1>2, <1>3, <2>4, <3>1, <3>2 DEF OutDoes, Fills, n, z
  <2>5. CASE mop.pc = "cbw"
    <3>1. stick.ph # "out" /\ z.ph # "out" /\ n = medium
      BY <1>6, <2>1, <2>4, <2>5 DEF Carries
    <3> QED
      BY <2>1, <2>5, <3>1 DEF Carries, InExchange, z
  <2>6. CASE Resets(mop)
    <3>1. mop.done = 0 /\ HasCommand(mop, medium, asked)
      BY <2>1, <2>6 DEF Carries, InCommand, Resets
    <3>2. Asks(mop, n, asked)
      BY <1>6, <2>1, <3>1, EarlyAsks
    <3>3. HasCommand(mop, n, asked)
      BY <2>6, <3>1, <3>2, EarlyCommand
    <3>4. mop.pc \in {"clrin", "clrout"} => z.ph # "out"
      BY <2>1, <2>4 DEF Carries
    <3> QED
      BY <2>1, <2>2, <2>6, <3>2, <3>3, <3>4 DEF Carries, InRecovery, Resets, z
  <2>7. CASE mop.pc \in Between
    <3>1. mop.done = 0
      BY <1>1, <2>1, <2>7 DEF Between, Placed, Carries, Asks, Quiet, q
    <3>2. Asks(mop, n, asked)
      BY <1>6, <2>1, <3>1, EarlyAsks
    <3> QED
      BY <2>1, <2>7, <3>2 DEF Carries, Between, InCommand, InExchange, InRecovery, ToBegin, Resets
  <2> QED
    BY <2>1, <2>2, <2>3, <2>5, <2>6, <2>7 DEF Carries, InCommand
<1> QED
  BY <1>1, <1>7, <1>8, EndsWith DEF CarriesOn, n, DataInv

LEMMA ServeIn == ASSUME MsdInv, DataInv, ServeLeft("in") PROVE DataInv'
<1>1. UNCHANGED <<mop, mid, tag, asked, usbAcked>>
  BY DEF ServeLeft, bot
<1>2. PICK w \in InXact : stick' = w.stick /\ medium' = w.medium /\ ed' = [ed EXCEPT !["in"] = Served("in", w)]
  BY DEF ServeLeft, OnWire
<1>3. InDoes(stick, w, medium)
  BY DataIs, InData
<1>4. ed'["out"] = ed["out"]
  BY <1>2, DataIs DEF Shapes, Dirs
<1>5. /\ DiskOK(w.stick, ed["out"].left, w.medium, asked, usbAcked) /\ w.medium = medium
      /\ (w.stick.ph = "out" => w.stick = stick)
  BY <1>3, DataIs, InKeeps
<1>6. ASSUME mop # NoOp PROVE Carries(mop, mid, w.stick, ed["out"].carry, tag, medium, asked)
  <2>1. Carries(mop, mid, stick, ed["out"].carry, tag, medium, asked)
    BY <1>6, CallIs
  <2>2. ASSUME InExchange(mop.pc) PROVE Exchanges(mop, w.stick, ed["out"].carry, tag, medium)
    <3>1. /\ Exchanges(mop, stick, ed["out"].carry, tag, medium) /\ Expect(mop.cmd) \in Nat /\ First(mop.cmd) \in Nat
      BY <1>6, <2>2, ExchangesIs, SizesAre
    <3>2. SameCall(mop, mop)
      BY DEF SameCall
    <3> DEFINE b == ed["out"].carry
    <3>3. Exchanges(mop, stick, b, tag, medium) /\ StickWrites(stick, medium, asked)
      BY <3>1, DataIs
    <3> HIDE DEF b
    <3>4. Exchanges(mop, w.stick, b, tag, medium)
      BY <1>3, <3>1, <3>2, <3>3, InExchanges
    <3> QED
      BY <3>4 DEF b
  <2> QED
    BY <1>5, <2>1, <2>2 DEF Carries
<1> QED
  BY <1>1, <1>2, <1>4, <1>5, <1>6 DEF DataInv

(***************************************************************************)
(* The theorem.                                                            *)
(***************************************************************************)

\* At first no cell is written, and the stick answers nothing.
LEMMA InitDataInv == MsdInit => DataInv
<1> SUFFICES ASSUME MsdInit PROVE DataInv
  OBVIOUS
<1>1. stick.ph = "lost" /\ DeviceOK(stick)
  <2>1. stick.ph = "lost" /\ stick.tog = [d \in Dirs |-> 1] /\ stick.stat = "passed"
    BY DEF MsdInit, Lost, Rested
  <2> QED
    BY <2>1 DEF DeviceOK, Stats
<1>2. OwnCells(medium, asked, usbAcked)
  BY DEF MsdInit, OwnCells, Cells
<1>3. ed["out"].left = NoTd /\ mop = NoOp
  BY DEF MsdInit, Dirs, FreshEd
<1> QED
  BY <1>1, <1>2, <1>3 DEF DataInv, DiskOK, StickWrites

LEMMA NextDataInv ==
    ASSUME MsdInv, ~LateWrites, MaxUsbFaults + 1 < TagSpace, DataInv, [MsdNext]_msdVars
    PROVE  DataInv'
<1>1. CASE UNCHANGED msdVars
  BY <1>1 DEF msdVars, bot, DataInv
<1>2. CASE MsdNext
  <2>1. CASE \E d \in Dirs : ServeLeft(d)
    BY <2>1, ServeOut, ServeIn DEF Dirs
  <2> QED
    BY <1>2, <2>1, CallData, BringUpData, ReturnData, CancelKeepsData, SendCbwData, DataOutData, DataInData,
       ReadCswData, ControlsData, ControlFailsData DEF MsdNext
<1> QED
  BY <1>1, <1>2

\* What a read returns is what the medium holds, what a write was acknowledged
\* for is there and stays, and no cell ever holds anything but 0 or its own
\* bytes, asked for by some call: through every cancelled, halted, cut-short
\* and repeated command, and every read-modify-write of a neighbour.  A write
\* that the stick puts off past a reset would break it (LateWrites), and so
\* would a tag that has come round again.
THEOREM BytesStayTheirOwn ==
    ASSUME ~LateWrites, MaxUsbFaults + 1 < TagSpace
    PROVE  MsdSpec => []OnlyItsOwnBytes
<1>1. ASSUME MsdInv, DataInv PROVE OnlyItsOwnBytes
  <2>1. ASSUME At("ret"), mop.what = "read" PROVE mop.out = [i \in 1 .. mop.len |-> medium[mop.at + i - 1]]
    BY <1>1, <2>1, CallIs DEF At, Carries, Asks
  <2>2. OwnCells(medium, asked, usbAcked)
    BY <1>1, DataIs
  <2>3. DOMAIN medium = Cells
    BY <2>2 DEF OwnCells
  <2> QED
    BY <2>1, <2>2, <2>3 DEF OnlyItsOwnBytes, OwnCells
<1>2. MsdInv /\ [MsdNext]_msdVars => MsdInv'
  BY NextMsdInv
<1>3. MsdInv /\ DataInv /\ [MsdNext]_msdVars => DataInv'
  BY NextDataInv
<1> QED
  BY <1>1, <1>2, <1>3, InitMsdInv, InitDataInv, PTL DEF MsdSpec
=============================================================================
