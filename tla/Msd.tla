-------------------------------- MODULE Msd --------------------------------
(***************************************************************************)
(* A USB stick as a disk: the usb.msd provider (guest/stubs/usb-msd), the  *)
(* Bulk-Only Transport engine under it (crates/eo9-msd: device.rs) and the *)
(* bulk endpoints of the host controller driver (crates/eo9-ohci:          *)
(* driver.rs), against a stick that may refuse, fail, cut short or lose    *)
(* phase on any command.  A call may be cancelled at every await, and any  *)
(* transfer may fail with or without having reached the stick.             *)
(*                                                                         *)
(* A cell is one full packet of data, and one transfer descriptor moves    *)
(* one packet: a command wrapper (CBW), a cell, or a status wrapper (CSW). *)
(* Every data packet carries a toggle bit, which both ends advance; a      *)
(* packet with the wrong toggle is acknowledged and dropped.  The device   *)
(* writes a block only when all of its cells have arrived.  What is        *)
(* written to a cell is its own name, so that it is known elsewhere; a     *)
(* cell nobody wrote is 0.                                                 *)
(***************************************************************************)
EXTENDS Integers, Sequences, FiniteSets

CONSTANTS BlockCells,     \* cells to a block
          Blocks,         \* blocks of the stick
          DataCap,        \* DATA_CAP, in cells
          Requests,       \* the disk calls made: [what, at, len]
          ReadyAttempts,  \* READY_ATTEMPTS
          TagSpace,       \* tags wrap here (2^32 in the code)
          LateWrites,     \* may the stick put off a write's CBW until it has been reset?
          MaxUsbFaults,   \* bound on what goes wrong in a behaviour
          NoOp, NoTd

Capacity == Blocks * BlockCells
CellsOf(at, len) == {c \in 0 .. Capacity - 1 : at <= c /\ c < at + len}

ASSUME MsdAssumption ==
    /\ BlockCells \in Nat \ {0} /\ Blocks \in Nat \ {0} /\ DataCap \in Nat /\ DataCap >= BlockCells
    /\ Requests \subseteq [what : {"read", "write"}, at : Nat, len : Nat]
    /\ ReadyAttempts \in Nat \ {0} /\ TagSpace \in Nat \ {0, 1}
    /\ LateWrites \in BOOLEAN /\ MaxUsbFaults \in Nat

VARIABLES mslot,    \* STATE: "Empty", "Busy" or "Ready"
          mop,      \* the call in flight
          mid, tag, \* Bot: mid_command and the last command's tag
          ed,       \* direction -> the resident bulk endpoint descriptor
          stick,    \* the device
          medium,   \* its cells
          asked, usbAcked,  \* history: cells asked to be written, and acknowledged
          usbFaults    \* how much has gone wrong

bot == <<mid, tag>>
msdVars == <<mslot, mop, bot, ed, stick, medium, asked, usbAcked, usbFaults>>

Dirs == {"in", "out"}
Cmd(kind, lba, n) == [kind |-> kind, lba |-> lba, n |-> n]
\* Cells of a command's data stage.
Expect(c) == CASE c.kind = "tur" -> 0
               [] c.kind \in {"read", "write"} -> c.n * BlockCells
               [] OTHER -> 1

----------------------------------------------------------------------------
(* The stick.  It expects a CBW ("idle"), a cell ("out"), or to be asked   *)
(* for a cell ("in") or a CSW ("status"); "lost" until it is reset.        *)

\* mine: its command is the one the engine is waiting for.
Rested(halts, tog) ==
    [ph |-> "idle", cmd |-> Cmd("tur", 0, 0), tag |-> 0, mine |-> FALSE, buf |-> <<>>,
     stat |-> "passed", halts |-> halts, tog |-> tog]
Lost(s) == [Rested(Dirs, s.tog) EXCEPT !.ph = "lost"]
\* The status stage, after the data stage ended as it should, or early.
Ends(s, stat) == [s EXCEPT !.ph = "status", !.stat = stat, !.buf = <<>>]
Wire(ans, s, m, pkt, f) == [ans |-> ans, stick |-> s, medium |-> m, pkt |-> pkt, f |-> f]
Written(m, c, buf) ==
    [x \in DOMAIN m |-> IF x \in CellsOf(c.lba * BlockCells, Len(buf))
                        THEN buf[x - c.lba * BlockCells + 1] ELSE m[x]]

\* A CBW begins a command, whose status may already be decided.
Begun(s, p, stat) ==
    [s EXCEPT !.cmd = p.cmd, !.tag = p.tag, !.mine = FALSE, !.buf = <<>>, !.stat = stat,
              !.ph = IF Expect(p.cmd) = 0 THEN "status" ELSE IF p.cmd.kind = "write" THEN "out" ELSE "in"]

\* What the stick may do with a packet that it accepts: a CBW [cmd, tag]
\* or a cell [cell].
Takes(s, p) ==
    LET Then(ans, s2, m, f) == Wire(ans, s2, m, [none |-> TRUE], f) IN
    IF s.ph = "idle"
    THEN IF "cmd" \in DOMAIN p
         THEN {Then("ok", Begun(s, p, "passed"), medium, 0), Then("stall", Lost(s), medium, 1)}
              \cup {Then("ok", Begun(s, p, st), medium, 1) : st \in {"failed", "phase", "bad"}}
         ELSE {Then("stall", Lost(s), medium, 0)}
    ELSE LET buf == Append(s.buf, p.cell) IN
         IF "cmd" \in DOMAIN p
         THEN {Then("ok", Ends(s, "phase"), medium, 0)}   \* a short packet ends the stage
         ELSE IF Len(buf) < Expect(s.cmd) THEN {Then("ok", [s EXCEPT !.buf = buf], medium, 0)}
         ELSE {Then("ok", Ends(s, s.stat),
                    IF s.stat = "passed" THEN Written(medium, s.cmd, buf) ELSE medium, 0)}

Flip(b) == 1 - b
NoPkt == [none |-> TRUE]

\* A bulk-OUT packet on the wire.
Out(p) ==
    IF "out" \in stick.halts THEN {Wire("stall", stick, medium, NoPkt, 0)}
    ELSE IF stick.ph = "lost" THEN {Wire("stall", Lost(stick), medium, NoPkt, 0)}
    ELSE IF ed["out"].carry # stick.tog["out"] THEN {Wire("ok", stick, medium, NoPkt, 0)}
    ELSE IF stick.ph \in {"in", "status"} THEN {Wire("nak", stick, medium, NoPkt, 0)}
    ELSE Takes([stick EXCEPT !.tog["out"] = Flip(@)], p)
         \cup (IF stick.ph = "idle" THEN {}
               ELSE {Wire("stall", [Ends(stick, st) EXCEPT !.halts = @ \cup {"out"}], medium, NoPkt, 1)
                     : st \in {"failed", "short"}})

\* What the stick may send when asked for a bulk-IN packet: a cell, nothing
\* more (a zero-length packet), or the CSW.
Sends(s) ==
    IF s.ph = "in"
    THEN LET c == s.cmd
             cell == IF c.kind = "read" THEN medium[c.lba * BlockCells + Len(s.buf)] ELSE 0
             buf == Append(s.buf, cell)
         IN {[pkt |-> [cell |-> cell, mine |-> s.mine], f |-> 0,
              s |-> IF Len(buf) = Expect(c) THEN Ends(s, s.stat) ELSE [s EXCEPT !.buf = buf]]}
            \cup {[pkt |-> NoPkt, f |-> 1, s |-> Ends(s, st)] : st \in {"failed", "short"}}
    ELSE {[pkt |-> [stat |-> s.stat, tag |-> s.tag, mine |-> s.mine], f |-> 0,
           s |-> Rested(s.halts, s.tog)]}

\* A bulk-IN transaction.
InXact ==
    IF "in" \in stick.halts THEN {Wire("stall", stick, medium, NoPkt, 0)}
    ELSE IF stick.ph = "lost" THEN {Wire("stall", Lost(stick), medium, NoPkt, 0)}
    ELSE IF stick.ph \in {"idle", "out"} THEN {Wire("nak", stick, medium, NoPkt, 0)}
    ELSE {Wire(IF ed["in"].carry = stick.tog["in"] THEN "ok" ELSE "dropped", x.s, medium, x.pkt, x.f)
          : x \in Sends([stick EXCEPT !.tog["in"] = Flip(@)])}
         \cup {Wire("stall", [s EXCEPT !.halts = @ \cup {"in"}], medium, NoPkt, 1)
               : s \in IF stick.ph = "in" THEN {Ends(stick, "failed"), Ends(stick, "short")} ELSE {stick}}

----------------------------------------------------------------------------
(* The host controller: run_bulk_td queues one transfer descriptor (TD) on *)
(* the endpoint's ED and drains it.  A cancelled call may leave its TD on  *)
(* the queue (`left`), where the controller may still serve it, or leave   *)
(* the ED skipped.  A bulk-OUT TD is its packet; a bulk-IN TD is what the  *)
(* engine wants: "csw", or the kind of the command whose data it is.       *)

FreshEd == [carry |-> 0, halted |-> FALSE, skip |-> FALSE, left |-> NoTd]
OnWire(d, td) == IF d = "out" THEN Out(td) ELSE InXact
\* More came than the TD has room for: READ CAPACITY asks for 8 bytes and a
\* CSW has 13, a CSW read gets a whole cell.
Overruns(d, td, w) ==
    d = "in" /\ w.ans = "ok" /\ (IF td = "csw" THEN "cell" \in DOMAIN w.pkt
                                 ELSE td = "capacity" /\ "stat" \in DOMAIN w.pkt)

\* The call on a clean ED: how it answers and what becomes of the ED.
Drained(d, td) ==
    {LET e == ed[d] IN
     IF Overruns(d, td, w) THEN [w |-> w, ans |-> "error", ed |-> FreshEd]
     ELSE [w |-> w, ans |-> IF w.ans = "nak" THEN "error" ELSE w.ans,
           ed |-> CASE w.ans = "ok" -> [e EXCEPT !.carry = Flip(@)]
                    [] w.ans = "stall" -> FreshEd
                    [] OTHER -> e]
     : w \in OnWire(d, td)}
NoTransfer(f) == Wire("nak", stick, medium, NoPkt, f)
\* The same, when the bus or the stick lets it down: a timeout, or an error
\* that halts the ED, the packet having got through or not.
Disturbed(d, td) ==
    {[w |-> NoTransfer(1), ans |-> "error", ed |-> e] : e \in {ed[d], FreshEd}}
    \cup {[w |-> [w EXCEPT !.f = 1], ans |-> "error", ed |-> FreshEd]
          : w \in {x \in OnWire(d, td) : x.ans = "ok"}}

\* run_bulk_td.  A TD left behind is swapped out with the new one (head meets
\* tail at once), a halted ED is recovered with the new TD still queued.
RunBulkTd(d, td) ==
    IF ed[d].halted
    THEN {[w |-> NoTransfer(0), ans |-> "error", ed |-> [ed[d] EXCEPT !.carry = 0, !.halted = FALSE, !.left = td]]}
    ELSE IF ed[d].left # NoTd
    THEN {[w |-> NoTransfer(0), ans |-> "error", ed |-> [ed[d] EXCEPT !.left = NoTd]]}
    ELSE IF ed[d].skip
    THEN {[w |-> NoTransfer(0), ans |-> "error", ed |-> [ed[d] EXCEPT !.skip = FALSE]]}
    ELSE Drained(d, td) \cup Disturbed(d, td)

\* The same call cancelled: before anything, with its TD queued, inside the
\* skip fence, or with its work done.
CancelledTd(d, td) ==
    {[r EXCEPT !.w.f = 1] : r \in RunBulkTd(d, td)}
    \cup {[w |-> NoTransfer(1), ans |-> "error", ed |-> e]
          : e \in {ed[d]} \cup (IF ed[d] = [FreshEd EXCEPT !.carry = ed[d].carry]
                                THEN {[ed[d] EXCEPT !.left = td, !.skip = s] : s \in BOOLEAN}
                                ELSE {})}

Spend(f) == usbFaults + f <= MaxUsbFaults /\ usbFaults' = usbFaults + f
Apply(d, r) ==
    /\ ed' = [ed EXCEPT ![d] = r.ed] /\ stick' = r.w.stick /\ medium' = r.w.medium
    /\ Spend(r.w.f)

At(pc) == mop # NoOp /\ mop.pc = pc

\* A write that is left on the queue, and an ED whose TD was answered.
QueuedWrite(d) == d = "out" /\ "cmd" \in DOMAIN ed[d].left /\ ed[d].left.cmd.kind = "write"
Served(d, w) ==
    CASE w.ans = "dropped" -> ed[d]
      [] w.ans = "stall" \/ Overruns(d, ed[d].left, w) -> [ed[d] EXCEPT !.halted = TRUE, !.left = NoTd]
      [] OTHER -> [ed[d] EXCEPT !.carry = Flip(@), !.left = NoTd]
\* The controller serves a TD that nobody waits for any more: within a frame,
\* unless the stick puts it off, which for a CBW may last past a reset.
ServeLeft(d) ==
    /\ ed[d].left # NoTd /\ ~ed[d].halted /\ ~ed[d].skip
    /\ LateWrites \/ ~(QueuedWrite(d) /\ \E pc \in {"clrin", "clrout", "cbw"} : At(pc))
    /\ \E w \in OnWire(d, ed[d].left) :
        /\ w.ans # "nak"
        /\ stick' = w.stick /\ medium' = w.medium /\ Spend(w.f)
        /\ ed' = [ed EXCEPT ![d] = Served(d, w)]
    /\ UNCHANGED <<mslot, mop, bot, asked, usbAcked>>

----------------------------------------------------------------------------
(* The Bulk-Only Transport engine and the call that drives it.             *)

\* execute, from the top: an abandoned exchange is reset first.
Execute(o, c, m) ==
    [o EXCEPT !.cmd = c, !.pc = IF m THEN "reset" ELSE "cbw", !.then = "cbw", !.got = <<>>, !.sent = 0, !.pure = TRUE]

\* The chunk a call is at: read_bytes and write_bytes.
Chunk(o) ==
    LET cursor == o.at + o.done
        within == cursor % BlockCells
        take == IF o.len - o.done < DataCap - within THEN o.len - o.done ELSE DataCap - within
    IN [lba |-> cursor \div BlockCells, within |-> within, take |-> take,
        n |-> (within + take + BlockCells - 1) \div BlockCells]
Aligned(k) == k.within = 0 /\ (k.within + k.take) % BlockCells = 0

\* check_range, and the next command of the loop.
Loop(o, m) ==
    LET k == Chunk(o) IN
    IF o.at + o.len > Capacity THEN [o EXCEPT !.pc = "refuse"]
    ELSE IF o.done = o.len THEN [o EXCEPT !.pc = "ret"]
    ELSE Execute([o EXCEPT !.cur = <<>>],
                 Cmd(IF o.what = "write" /\ Aligned(k) THEN "write" ELSE "read", k.lba, k.n), m)

Name(c) == c + 1
\* Variant: the covering blocks are not read first.
Payload_ZeroFill(o) ==
    LET k == Chunk(o) IN
    [i \in 1 .. k.n * BlockCells |->
       IF k.within < i /\ i <= k.within + k.take THEN Name(k.lba * BlockCells + i - 1) ELSE 0]

\* The bytes a WRITE(10) carries: new ones, or what was read with the new
\* ones laid over.
Payload(o) ==
    LET k == Chunk(o) IN
    [i \in 1 .. k.n * BlockCells |->
       IF k.within < i /\ i <= k.within + k.take THEN Name(k.lba * BlockCells + i - 1) ELSE o.cur[i]]

\* A command that passed with all its data.
Passed(o, m) ==
    LET k == Chunk(o) IN
    CASE o.cmd.kind = "tur" -> Execute(o, Cmd("inquiry", 0, 0), m)
      [] o.cmd.kind = "inquiry" -> Execute(o, Cmd("capacity", 0, 0), m)
      [] o.cmd.kind = "capacity" -> Loop([o EXCEPT !.up = TRUE], m)
      [] o.cmd.kind = "write" -> Loop([o EXCEPT !.done = @ + k.take], m)
      [] o.cmd.kind = "read" /\ o.what = "read" ->
           Loop([o EXCEPT !.done = @ + k.take,
                          !.out = @ \o SubSeq(o.got, k.within + 1, k.within + k.take)], m)
      [] OTHER -> Execute([o EXCEPT !.cur = o.got], Cmd("write", k.lba, k.n), m)

\* with_driver ends: DriverGuard puts the driver back, BringUpClaim clears.
EndCall == mop' = NoOp /\ mslot' = IF mop.up THEN "Ready" ELSE "Empty"

\* command: what follows the CSW (or the lack of one), mid_command being m.
\* REQUEST SENSE is best effort, and TEST UNIT READY is tried again after it.
Command(o, res, m) ==
    LET c == o.cmd.kind IN
    IF c = "sense"
    THEN IF ~o.up /\ o.step = "tur" /\ o.tries + 1 < ReadyAttempts
         THEN mop' = Execute([o EXCEPT !.tries = @ + 1], Cmd("tur", 0, 0), m) /\ UNCHANGED mslot
         ELSE EndCall
    ELSE IF res = "failed"
         THEN mop' = Execute([o EXCEPT !.step = c], Cmd("sense", 0, 0), m) /\ UNCHANGED mslot
    ELSE IF res = "passed" THEN mop' = Passed(o, m) /\ UNCHANGED mslot
    ELSE EndCall

Goto(pc) == mop' = [mop EXCEPT !.pc = pc] /\ UNCHANGED mslot
\* Variant: reset recovery without the Mass Storage Reset.
ResetThen_OnlyClears(pc) == mop' = [mop EXCEPT !.pc = "clrin", !.then = pc] /\ UNCHANGED mslot
ResetThen(pc) == mop' = [mop EXCEPT !.pc = "reset", !.then = pc] /\ UNCHANGED mslot

\* Phase 1: the CBW.
SendCbw ==
    /\ At("cbw")
    /\ tag' = (tag + 1) % TagSpace /\ mid' = TRUE
    /\ \E r \in RunBulkTd("out", [cmd |-> mop.cmd, tag |-> (tag + 1) % TagSpace]) :
        /\ ed' = [ed EXCEPT !["out"] = r.ed] /\ medium' = r.w.medium /\ Spend(r.w.f)
        /\ stick' = [r.w.stick EXCEPT !.mine = stick.ph = "idle" /\ r.w.stick.ph \in {"in", "out", "status"}]
        /\ CASE r.ans = "ok" -> Goto(IF Expect(mop.cmd) = 0 THEN "csw" ELSE "data")
             [] r.ans = "stall" -> ResetThen("broken")
             [] OTHER -> Command(mop, "error", TRUE)
    /\ UNCHANGED <<asked, usbAcked>>

\* Phase 2: the data.
DataOut ==
    /\ At("data") /\ mop.cmd.kind = "write"
    /\ \E r \in RunBulkTd("out", [cell |-> Payload(mop)[mop.sent + 1]]) :
        /\ Apply("out", r)
        /\ CASE r.ans = "ok" -> /\ mop' = [mop EXCEPT !.sent = @ + 1,
                                      !.pc = IF mop.sent + 1 = Expect(mop.cmd) THEN "csw" ELSE "data"]
                                /\ UNCHANGED mslot
             [] r.ans = "stall" -> Goto("clrdata")
             [] OTHER -> Command(mop, "error", TRUE)
    /\ UNCHANGED <<bot, asked, usbAcked>>
DataIn ==
    /\ At("data") /\ mop.cmd.kind # "write"
    /\ \E r \in RunBulkTd("in", mop.cmd.kind) :
        /\ Apply("in", r)
        /\ CASE r.ans = "ok" /\ "cell" \in DOMAIN r.w.pkt ->
                  /\ mop' = [mop EXCEPT !.got = Append(@, r.w.pkt.cell),
                                        !.pure = @ /\ r.w.pkt.mine,
                                        !.pc = IF Len(mop.got) + 1 = Expect(mop.cmd) THEN "csw" ELSE "data"]
                  /\ UNCHANGED mslot
             [] r.ans = "ok" /\ r.w.pkt = NoPkt -> Goto("csw")
             [] r.ans = "stall" -> Goto("clrdata")
             [] r.ans = "dropped" -> UNCHANGED <<mop, mslot>>
             [] OTHER -> Command(mop, "error", TRUE)   \* a CSW for data: the rest never comes
    /\ UNCHANGED <<bot, asked, usbAcked>>

\* Variant: the tag is not compared.
ValidCsw_AnyTag(p) == "stat" \in DOMAIN p /\ p.stat \notin {"bad", "phase"}
\* decode_csw, and no phase error.
ValidCsw(p) == "stat" \in DOMAIN p /\ p.tag = tag /\ p.stat \notin {"bad", "phase"}

\* Phase 3: the CSW, tried twice.
ReadCsw ==
    /\ At("csw") \/ At("csw2")
    /\ \E r \in RunBulkTd("in", "csw") :
        LET whole == IF mop.cmd.kind = "write" THEN r.w.pkt.stat # "short"
                     ELSE Len(mop.got) = Expect(mop.cmd)
        IN /\ Apply("in", r)
           /\ IF r.ans = "ok" /\ ValidCsw(r.w.pkt)
              THEN /\ mid' = FALSE
                   /\ Command([mop EXCEPT !.own = @ /\ mop.pure /\ r.w.pkt.mine],
                              IF r.w.pkt.stat = "failed" THEN "failed" ELSE IF whole THEN "passed" ELSE "short",
                              FALSE)
              ELSE /\ CASE r.ans = "ok" -> ResetThen("broken")
                        [] r.ans = "stall" -> IF At("csw") THEN Goto("clrcsw") ELSE ResetThen("broken")
                        [] r.ans = "dropped" -> UNCHANGED <<mop, mslot>>
                        [] OTHER -> Command(mop, "error", TRUE)
                   /\ UNCHANGED mid
    /\ UNCHANGED <<tag, asked, usbAcked>>

\* The control requests: CLEAR_FEATURE(ENDPOINT_HALT), which also resets the
\* stick's toggle, and Bulk-Only Mass Storage Reset, which leaves both alone.
Cleared(d) == [stick EXCEPT !.halts = @ \ {d}, !.tog[d] = 0]
Reset == IF stick.ph = "idle" THEN stick ELSE Rested(stick.halts, stick.tog)
\* Where the engine is, what it asks for there, and where it goes next.
Controls ==
    {[pc |-> "clrdata", next |-> "csw",
      stick |-> Cleared(IF mop.cmd.kind = "write" THEN "out" ELSE "in")],
     [pc |-> "clrcsw", next |-> "csw2", stick |-> Cleared("in")],
     [pc |-> "reset", next |-> "clrin", stick |-> Reset],
     [pc |-> "clrin", next |-> "clrout", stick |-> Cleared("in")],
     [pc |-> "clrout", next |-> mop.then, stick |-> Cleared("out")]}

\* One of them succeeds; the last step of reset_recovery ends it.
Control ==
    /\ mop # NoOp
    /\ \E c \in Controls :
        /\ At(c.pc) /\ stick' = c.stick
        /\ mid' = (mid /\ c.pc # "clrout")
        /\ IF c.next = "broken" THEN Command(mop, "error", FALSE) ELSE Goto(c.next)
    /\ UNCHANGED <<tag, ed, medium, asked, usbAcked, usbFaults>>
\* One of them fails, having reached the stick or not; mid_command stays.
ControlFails ==
    /\ mop # NoOp /\ Spend(1)
    /\ \E c \in Controls : At(c.pc) /\ stick' \in {stick, c.stick}
    /\ Command(mop, "error", mid)
    /\ UNCHANGED <<bot, ed, medium, asked, usbAcked>>

----------------------------------------------------------------------------
(* The provider: with_driver, bring_up and cancellation.                   *)

\* A disk call takes the driver, or the claim to bring the device up; while
\* the slot is Busy a second call is refused and changes nothing.
Call(q) ==
    /\ mslot # "Busy" /\ mslot' = "Busy"
    /\ LET o == [what |-> q.what, at |-> q.at, len |-> q.len, done |-> 0, out |-> <<>>, cur |-> <<>>,
                 up |-> mslot = "Ready", step |-> "tur", tries |-> 0, own |-> TRUE, pure |-> TRUE,
                 cmd |-> Cmd("tur", 0, 0), pc |-> "attach", then |-> "cbw", got |-> <<>>, sent |-> 0]
       IN mop' = IF o.up THEN Loop(o, mid) ELSE o
    /\ asked' = asked \cup (IF q.what = "write" /\ q.at + q.len <= Capacity THEN CellsOf(q.at, q.len) ELSE {})
    /\ UNCHANGED <<bot, ed, stick, medium, usbAcked, usbFaults>>

\* attach resets the port, where nothing answers a TD left behind, and
\* SET_CONFIGURATION resets the toggles.
PortReset ==
    /\ stick' = Rested({}, [d \in Dirs |-> 0])
    /\ ed' = [d \in Dirs |-> IF ed[d].left = NoTd THEN ed[d]
                             ELSE [ed[d] EXCEPT !.halted = TRUE, !.left = NoTd]]
Attach ==
    /\ At("attach") /\ PortReset /\ Goto("openin")
    /\ UNCHANGED <<bot, medium, asked, usbAcked, usbFaults>>
\* open_bulk rebuilds the ED; then Bot::new and the first TEST UNIT READY.
OpenIn ==
    /\ At("openin") /\ ed' = [ed EXCEPT !["in"] = FreshEd] /\ Goto("openout")
    /\ UNCHANGED <<bot, stick, medium, asked, usbAcked, usbFaults>>
OpenOut ==
    /\ At("openout") /\ ed' = [ed EXCEPT !["out"] = FreshEd]
    /\ tag' = 0 /\ mid' = FALSE
    /\ mop' = Execute(mop, Cmd("tur", 0, 0), FALSE)
    /\ UNCHANGED <<mslot, stick, medium, asked, usbAcked, usbFaults>>
\* Any step of the enumeration fails or is cancelled.
BringUpFails ==
    /\ At("attach") \/ At("openin") \/ At("openout")
    /\ UNCHANGED <<stick, ed>> \/ (At("attach") /\ PortReset)
    /\ EndCall
    /\ UNCHANGED <<bot, medium, asked, usbAcked, usbFaults>>

Return ==
    /\ At("ret") \/ At("refuse")
    /\ usbAcked' = usbAcked \cup (IF At("ret") /\ mop.what = "write" THEN CellsOf(mop.at, mop.len) ELSE {})
    /\ EndCall
    /\ UNCHANGED <<bot, ed, stick, medium, asked, usbFaults>>

\* The call's future is dropped at an await of the engine.
Cancel ==
    /\ mop # NoOp
    /\ \/ /\ At("cbw") /\ tag' = (tag + 1) % TagSpace /\ mid' = TRUE
          /\ \E r \in CancelledTd("out", [cmd |-> mop.cmd, tag |-> (tag + 1) % TagSpace]) : Apply("out", r)
       \/ /\ At("data") /\ mop.cmd.kind = "write"
          /\ \E r \in CancelledTd("out", [cell |-> Payload(mop)[mop.sent + 1]]) : Apply("out", r)
          /\ UNCHANGED bot
       \/ /\ At("data") /\ mop.cmd.kind # "write"
          /\ \E r \in CancelledTd("in", mop.cmd.kind) : Apply("in", r)
          /\ UNCHANGED bot
       \/ /\ At("csw") \/ At("csw2")
          /\ \E r \in CancelledTd("in", "csw") : Apply("in", r)
          /\ UNCHANGED bot
       \/ /\ \E c \in Controls : At(c.pc) /\ stick' \in {stick, c.stick}
          /\ Spend(1) /\ UNCHANGED <<bot, ed, medium>>
    /\ EndCall
    /\ UNCHANGED <<asked, usbAcked>>

MsdInit ==
    /\ mslot = "Empty" /\ mop = NoOp /\ mid = FALSE /\ tag = 0
    /\ ed = [d \in Dirs |-> FreshEd]
    /\ stick = Lost(Rested({}, [d \in Dirs |-> 1]))   \* whatever the firmware left behind
    /\ medium = [c \in 0 .. Capacity - 1 |-> 0]
    /\ asked = {} /\ usbAcked = {} /\ usbFaults = 0

MsdNext ==
    \/ \E q \in Requests : Call(q)
    \/ Attach \/ OpenIn \/ OpenOut \/ BringUpFails \/ Return \/ Cancel
    \/ SendCbw \/ DataOut \/ DataIn \/ ReadCsw \/ Control \/ ControlFails
    \/ \E d \in Dirs : ServeLeft(d)
MsdSpec == MsdInit /\ [][MsdNext]_msdVars

----------------------------------------------------------------------------
\* Types.
MsdTypeOK ==
    /\ mslot \in {"Empty", "Busy", "Ready"} /\ (mslot = "Busy") = (mop # NoOp)
    /\ mid \in BOOLEAN /\ tag \in 0 .. TagSpace - 1 /\ usbFaults \in 0 .. MaxUsbFaults
    /\ \A d \in Dirs : ed[d].carry \in {0, 1} /\ stick.tog[d] \in {0, 1}
    /\ stick.ph \in {"idle", "in", "out", "status", "lost"} /\ stick.halts \subseteq Dirs
    /\ medium \in [0 .. Capacity - 1 -> 0 .. Capacity]
    /\ usbAcked \subseteq asked

\* Whenever mid_command is clear and a call may start, the stick expects a
\* command and neither endpoint is halted: every way of abandoning an exchange
\* is noticed, and no command that passed leaves anything behind.
KnownState ==
    mslot = "Ready" /\ ~mid => stick.ph = "idle" /\ stick.halts = {}

\* Every answer the engine accepts, status and data, was made for the command
\* it is waiting for: "a torn BOT exchange can never make a later command
\* consume the earlier one's data or status" (device.rs:25).
OwnAnswers == mop # NoOp => mop.own

\* No command starts or ends on what an earlier exchange left behind.
CommandsStandAlone == KnownState /\ OwnAnswers

\* What a read returns is on the medium, what a write was acknowledged for
\* stays there, through every later read-modify-write of the same block, no
\* cell changes that nobody asked to be written, and none gets another's bytes.
OnlyItsOwnBytes ==
    /\ At("ret") /\ mop.what = "read"
         => mop.out = [i \in 1 .. mop.len |-> medium[mop.at + i - 1]]
    /\ \A c \in DOMAIN medium :
         \/ medium[c] = Name(c) /\ c \in asked
         \/ medium[c] = 0 /\ c \notin usbAcked

\* "the device is in a known state again": with no exchange open, both ends
\* of both endpoints agree on the next packet's toggle.
TogglesAgree ==
    mslot = "Ready" /\ ~mid => \A d \in Dirs : ed[d].carry = stick.tog[d]
=============================================================================
