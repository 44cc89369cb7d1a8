--------------------------- MODULE Algebra_proofs ---------------------------
(***************************************************************************)
(* The laws of the component algebra, for every library of programs and    *)
(* for all components, reachable or not.                                   *)
(***************************************************************************)
EXTENDS Algebra, FiniteSetTheorems, TLAPS

\* A wire is a match of an import with an export.
LEMMA WireIff ==
    ASSUME NEW p, NEW c, NEW w
    PROVE  w \in NewWires(p, c) <=>
             \E o \in c.open, e \in p.exports :
                 Matches(e, o) /\ w = [inst |-> o.inst, port |-> o.port, by |-> e.by]
<1> DEFINE Matched == {n \in c.open \X p.exports : Matches(n[2], n[1])}
           Wire(o, e) == [inst |-> o.inst, port |-> o.port, by |-> e.by]
<1>1. NewWires(p, c) = {Wire(m[1], m[2]) : m \in Matched}
  BY DEF NewWires
<1> HIDE DEF Wire
<1>2. ASSUME NEW o \in c.open, NEW e \in p.exports, Matches(e, o), w = Wire(o, e)
      PROVE  w \in NewWires(p, c)
  <2>1. <<o, e>> \in Matched /\ <<o, e>>[1] = o /\ <<o, e>>[2] = e
    BY <1>2
  <2> QED
    BY <1>1, <1>2, <2>1
<1>3. ASSUME w \in NewWires(p, c)
      PROVE  \E o \in c.open, e \in p.exports : Matches(e, o) /\ w = Wire(o, e)
  <2>1. PICK m \in Matched : w = Wire(m[1], m[2])
    BY <1>1, <1>3
  <2>2. m[1] \in c.open /\ m[2] \in p.exports /\ Matches(m[2], m[1])
    BY <2>1
  <2> QED
    BY <2>1, <2>2
<1> QED
  BY <1>2, <1>3 DEF Wire

\* What the base shows past a layer that serves as it does is what serves an
\* import that the layer does not.
LEMMA ShownIffUnserved ==
    ASSUME NEW x, NEW y, NEW z, Overrides(x, y, z), NEW o \in z.open, NEW e \in x.exports,
           Matches(e, o)
    PROVE  e \in Shown(x, y) <=> ~Serves(y, o)
<1>1. ASSUME e \in Shown(x, y), Serves(y, o) PROVE FALSE
  BY <1>1 DEF Shown, Serves, Matches
<1>2. ASSUME e \notin Shown(x, y), ~Serves(y, o) PROVE FALSE
  <2>1. PICK f \in y.exports : f.name.slot = e.name.slot
    BY <1>2 DEF Shown
  <2> QED
    BY <1>2, <2>1 DEF Overrides, Serves
<1> QED
  BY <1>1, <1>2

\* The layers of an environment serve an import if one of them does.
LEMMA LayersServe ==
    ASSUME NEW x, NEW y, NEW z, Overrides(x, y, z), NEW o \in z.open,
           NEW xy, xy.exports = y.exports \cup Shown(x, y)
    PROVE  Serves(xy, o) <=> Serves(y, o) \/ Serves(x, o)
<1>1. Serves(y, o) => Serves(xy, o)
  BY DEF Serves
<1>2. ASSUME Serves(x, o), ~Serves(y, o) PROVE Serves(xy, o)
  <2>1. PICK e \in x.exports : Matches(e, o)
    BY <1>2 DEF Serves
  <2>2. e \in Shown(x, y)
    BY <1>2, <2>1, ShownIffUnserved
  <2> QED
    BY <2>1, <2>2 DEF Serves
<1>3. Serves(xy, o) => Serves(y, o) \/ Serves(x, o)
  BY DEF Serves, Shown
<1> QED
  BY <1>1, <1>2, <1>3

\* The wiring of three layers is the same from either side.
LEMMA ChainsAgree ==
    ASSUME NEW x, NEW y, NEW z, Overrides(x, y, z), NEW xy, NEW yz,
           xy.exports = y.exports \cup Shown(x, y),
           yz.open = y.open \cup {o \in z.open : ~Serves(y, o)}
    PROVE  /\ {o \in z.open : ~Serves(xy, o)} = {o \in {q \in z.open : ~Serves(y, q)} : ~Serves(x, o)}
           /\ NewWires(x, y) \cup NewWires(xy, z) = NewWires(y, z) \cup NewWires(x, yz)
<1>1. {o \in z.open : ~Serves(xy, o)} = {o \in {q \in z.open : ~Serves(y, q)} : ~Serves(x, o)}
  BY LayersServe
<1>2. ASSUME NEW w \in NewWires(x, y) PROVE w \in NewWires(x, yz)
  BY <1>2, WireIff
<1>3. ASSUME NEW w \in NewWires(xy, z) PROVE w \in NewWires(y, z) \cup NewWires(x, yz)
  <2>1. PICK o \in z.open, e \in xy.exports :
           Matches(e, o) /\ w = [inst |-> o.inst, port |-> o.port, by |-> e.by]
    BY <1>3, WireIff
  <2>2. CASE e \in y.exports
    BY <2>1, <2>2, WireIff
  <2>3. CASE e \in Shown(x, y)
    <3>1. e \in x.exports /\ ~Serves(y, o)
      BY <2>1, <2>3, ShownIffUnserved DEF Shown
    <3>2. o \in yz.open
      BY <3>1
    <3> QED
      BY <2>1, <3>1, <3>2, WireIff
  <2> QED
    BY <2>1, <2>2, <2>3
<1>4. ASSUME NEW w \in NewWires(y, z) PROVE w \in NewWires(xy, z)
  <2>1. PICK o \in z.open, e \in y.exports :
           Matches(e, o) /\ w = [inst |-> o.inst, port |-> o.port, by |-> e.by]
    BY <1>4, WireIff
  <2>2. e \in xy.exports
    BY <2>1
  <2> QED
    BY <2>1, <2>2, WireIff
<1>5. ASSUME NEW w \in NewWires(x, yz) PROVE w \in NewWires(x, y) \cup NewWires(xy, z)
  <2>1. PICK o \in yz.open, e \in x.exports :
           Matches(e, o) /\ w = [inst |-> o.inst, port |-> o.port, by |-> e.by]
    BY <1>5, WireIff
  <2>2. CASE o \in y.open
    BY <2>1, <2>2, WireIff
  <2>3. CASE o \in z.open /\ ~Serves(y, o)
    <3>1. e \in xy.exports
      BY <2>1, <2>3, ShownIffUnserved
    <3> QED
      BY <2>1, <2>3, <3>1, WireIff
  <2> QED
    BY <2>1, <2>2, <2>3
<1> QED
  BY <1>1, <1>2, <1>3, <1>4, <1>5

\* An environment xy of x and y in front of z, and x in front of yz.
LEMMA BothSides ==
    ASSUME NEW I, NEW x, NEW y, NEW z, Overrides(x, y, z),
           x.binds \in Seq(I), y.binds \in Seq(I), z.binds \in Seq(I),
           NEW xy, NEW yz, NEW left, NEW right, left = right,
           xy.exports = y.exports \cup Shown(x, y),
           xy.open = x.open \cup {o \in y.open : ~Serves(x, o)},
           xy.wires = x.wires \cup y.wires \cup NewWires(x, y),
           xy.binds = x.binds \o y.binds,
           yz.kind = z.kind,
           yz.open = y.open \cup {o \in z.open : ~Serves(y, o)},
           yz.wires = y.wires \cup z.wires \cup NewWires(y, z),
           yz.binds = y.binds \o z.binds
    PROVE  SameWiring(Wired(xy, z, left), Wired(x, yz, right))
<1> DEFINE l == Wired(xy, z, left)
           r == Wired(x, yz, right)
<1>0. l = Wired(xy, z, left) /\ r = Wired(x, yz, right)
  OBVIOUS
<1> HIDE DEF l, r
<1>1. l.kind = r.kind /\ l.exports = r.exports
  BY <1>0, Zenon DEF Wired
<1>2. l.binds = r.binds
  <2>1. l.binds = xy.binds \o z.binds /\ r.binds = x.binds \o yz.binds
    BY <1>0, Zenon DEF Wired, Binds
  <2> DEFINE a == x.binds
             b == y.binds
             c == z.binds
  <2>2. a \in Seq(I) /\ b \in Seq(I) /\ c \in Seq(I)
    OBVIOUS
  <2>3. l.binds = (a \o b) \o c /\ r.binds = a \o (b \o c)
    BY <2>1, Zenon
  <2> HIDE DEF a, b, c
  <2>4. (a \o b) \o c = a \o (b \o c)
    BY <2>2
  <2> QED
    BY <2>3, <2>4, Zenon
<1>3. l.wires = xy.wires \cup z.wires \cup NewWires(xy, z)
      /\ r.wires = x.wires \cup yz.wires \cup NewWires(x, yz)
      /\ l.open = xy.open \cup {o \in z.open : ~Serves(xy, o)}
      /\ r.open = x.open \cup {o \in yz.open : ~Serves(x, o)}
  BY <1>0, Zenon DEF Wired
<1>4. /\ {o \in z.open : ~Serves(xy, o)} = {o \in {q \in z.open : ~Serves(y, q)} : ~Serves(x, o)}
      /\ NewWires(x, y) \cup NewWires(xy, z) = NewWires(y, z) \cup NewWires(x, yz)
  BY ChainsAgree
<1>5. l.wires = r.wires
  BY <1>3, <1>4
<1>6. l.open = r.open
  BY <1>3, <1>4
<1> QED
  BY <1>1, <1>2, <1>5, <1>6, <1>0 DEF SameWiring

\* The action law: (x & y) $ c and x $ y $ c wire the same instances in the
\* same way, leave the same imports open and apply the same configurations in
\* the same order, if y serves what it hides x's service of.
THEOREM ActionLawHolds ==
    ASSUME NEW I, NEW x, NEW y, NEW z, Overrides(x, y, z),
           x.binds \in Seq(I), y.binds \in Seq(I), z.binds \in Seq(I)
    PROVE  ActionLaw(x, y, z)
<1> DEFINE xy == Extend(x, y)
           yz == Compose(y, z)
<1> SUFFICES ASSUME xy # Failed, yz # Failed, Compose(xy, z) # Failed, Compose(x, yz) # Failed
             PROVE  SameWiring(Compose(xy, z), Compose(x, yz))
  BY DEF ActionLaw, Agree
<1>1. xy = Wired(x, y, y.exports \cup Shown(x, y)) /\ yz = Wired(y, z, z.exports)
  BY DEF Extend, Compose
<1>2. Compose(xy, z) = Wired(xy, z, z.exports) /\ Compose(x, yz) = Wired(x, yz, yz.exports)
  BY DEF Compose
<1> HIDE DEF xy, yz
<1>3. /\ xy.exports = y.exports \cup Shown(x, y)
      /\ xy.open = x.open \cup {o \in y.open : ~Serves(x, o)}
      /\ xy.wires = x.wires \cup y.wires \cup NewWires(x, y)
      /\ xy.binds = x.binds \o y.binds
  BY <1>1, Zenon DEF Wired, Binds
<1>4. /\ yz.kind = z.kind /\ yz.exports = z.exports
      /\ yz.open = y.open \cup {o \in z.open : ~Serves(y, o)}
      /\ yz.wires = y.wires \cup z.wires \cup NewWires(y, z)
      /\ yz.binds = y.binds \o z.binds
  BY <1>1, Zenon DEF Wired, Binds
<1>5. SameWiring(Wired(xy, z, z.exports), Wired(x, yz, yz.exports))
  BY <1>3, <1>4, BothSides
<1> QED
  BY <1>2, <1>5

\* Extension is associative, under the same condition.
THEOREM ExtendAssociates ==
    ASSUME NEW I, NEW x, NEW y, NEW z, Overrides(x, y, z),
           x.binds \in Seq(I), y.binds \in Seq(I), z.binds \in Seq(I)
    PROVE  Associative(x, y, z)
<1> DEFINE xy == Extend(x, y)
           yz == Extend(y, z)
<1> SUFFICES ASSUME xy # Failed, yz # Failed, Extend(xy, z) # Failed, Extend(x, yz) # Failed
             PROVE  SameWiring(Extend(xy, z), Extend(x, yz))
  BY DEF Associative, Agree
<1>1. xy = Wired(x, y, y.exports \cup Shown(x, y)) /\ yz = Wired(y, z, z.exports \cup Shown(y, z))
  BY DEF Extend
<1>2. /\ Extend(xy, z) = Wired(xy, z, z.exports \cup Shown(xy, z))
      /\ Extend(x, yz) = Wired(x, yz, yz.exports \cup Shown(x, yz))
  BY DEF Extend
<1> HIDE DEF xy, yz
<1>3. /\ xy.exports = y.exports \cup Shown(x, y)
      /\ xy.open = x.open \cup {o \in y.open : ~Serves(x, o)}
      /\ xy.wires = x.wires \cup y.wires \cup NewWires(x, y)
      /\ xy.binds = x.binds \o y.binds
  BY <1>1, Zenon DEF Wired, Binds
<1>4. /\ yz.kind = z.kind /\ yz.exports = z.exports \cup Shown(y, z)
      /\ yz.open = y.open \cup {o \in z.open : ~Serves(y, o)}
      /\ yz.wires = y.wires \cup z.wires \cup NewWires(y, z)
      /\ yz.binds = y.binds \o z.binds
  BY <1>1, Zenon DEF Wired, Binds
<1>5. z.exports \cup Shown(xy, z) = yz.exports \cup Shown(x, yz)
  <2>1. Shown(xy, z) = Shown(y, z) \cup {e \in Shown(x, y) : e \in Shown(x, z)}
    BY <1>3 DEF Shown
  <2>2. Shown(x, yz) = {e \in Shown(x, y) : e \in Shown(x, z)}
    BY <1>4 DEF Shown
  <2> QED
    BY <1>4, <2>1, <2>2
<1>6. SameWiring(Wired(xy, z, z.exports \cup Shown(xy, z)), Wired(x, yz, yz.exports \cup Shown(x, yz)))
  BY <1>3, <1>4, <1>5, BothSides
<1> QED
  BY <1>2, <1>6
-----------------------------------------------------------------------------
\* What the law needs of an operand: it is a record whose entrypoint applies a
\* sequence of configurations.
Sequential(s) == \E I : s \in Seq(I)
Applies(v) == v = [f \in DOMAIN v |-> v[f]] /\ "binds" \in DOMAIN v /\ Sequential(v.binds)

\* The operands are all components, or the evaluation has failed.
OperandsOK ==
    /\ Sequential(terms)
    /\ terms = <<Failed>> \/ \A k \in 1..Len(terms) : terms[k] # Failed /\ Applies(terms[k])

LEMMA ConcatSequential ==
    ASSUME NEW s, NEW t, Sequential(s), Sequential(t) PROVE Sequential(s \o t)
<1>1. PICK A : s \in Seq(A)
  BY DEF Sequential
<1>2. PICK B : t \in Seq(B)
  BY DEF Sequential
<1>3. s \in Seq(A \cup B) /\ t \in Seq(A \cup B)
  BY <1>1, <1>2
<1>4. s \o t \in Seq(A \cup B)
  BY <1>3
<1> QED
  BY <1>4 DEF Sequential

\* A wired component applies the configurations of both.
LEMMA WiredApplies ==
    ASSUME NEW p, NEW c, NEW exports, Applies(p), Applies(c)
    PROVE  Applies(Wired(p, c, exports))
<1> DEFINE w == Wired(p, c, exports)
<1>1. w.binds = p.binds \o c.binds
  BY DEF Wired, Binds
<1>2. Sequential(w.binds)
  BY <1>1, ConcatSequential DEF Applies
<1>3. w = [f \in DOMAIN w |-> w[f]] /\ "binds" \in DOMAIN w
  BY DEF Wired
<1> QED
  BY <1>2, <1>3 DEF Applies

LEMMA ComposeApplies ==
    ASSUME NEW p, NEW c, Applies(p), Applies(c), Compose(p, c) # Failed
    PROVE  Applies(Compose(p, c))
BY WiredApplies DEF Compose

LEMMA ExtendApplies ==
    ASSUME NEW x, NEW y, Applies(x), Applies(y), Extend(x, y) # Failed
    PROVE  Applies(Extend(x, y))
BY WiredApplies DEF Extend

LEMMA OnlyApplies ==
    ASSUME NEW v, NEW allow, Applies(v), Only(v, allow) # Failed
    PROVE  Applies(Only(v, allow))
BY DEF Only, Applies

LEMMA RenameApplies ==
    ASSUME NEW v, NEW from, NEW to, Applies(v), Rename(v, from, to) # Failed
    PROVE  Applies(Rename(v, from, to))
BY DEF Rename, Applies

LEMMA ConfigureApplies ==
    ASSUME NEW v, Applies(v), Configure(v) # Failed
    PROVE  Applies(Configure(v))
<1>1. ASSUME NEW b PROVE Sequential(<<b>>)
  <2>1. <<b>> \in Seq({b})
    OBVIOUS
  <2> QED
    BY <2>1 DEF Sequential
<1>2. PICK a, b, e, n :
         Configure(v) = [v EXCEPT !.exports = e, !.binds = <<b>>, !.baked = a, !.notes = n]
  BY Zenon DEF Configure
<1>3. "binds" \in DOMAIN v
  BY DEF Applies
<1>4. DOMAIN Configure(v) = DOMAIN v /\ Configure(v).binds = <<b>>
  BY <1>2, <1>3
<1>5. Configure(v) = [f \in DOMAIN Configure(v) |-> Configure(v)[f]]
  BY <1>2
<1> QED
  BY <1>1, <1>3, <1>4, <1>5 DEF Applies

LEMMA WithApplies ==
    ASSUME NEW body, NEW p, NEW slot, Applies(body), Applies(p), WithAs(body, p, slot) # Failed
    PROVE  Applies(WithAs(body, p, slot))
BY RenameApplies, ComposeApplies DEF WithAs

\* A value that takes the place of n operands leaves all of them components.
LEMMA YieldsOK ==
    ASSUME OperandsOK, NEW n \in 0..2, NEW v, Arity(n), Yields(n, v), v # Failed => Applies(v)
    PROVE  OperandsOK'
<1>1. PICK T : terms \in Seq(T)
  BY DEF OperandsOK, Sequential
<1>2. \A k \in 1..Len(terms) : terms[k] # Failed /\ Applies(terms[k])
  BY DEF OperandsOK, Arity
<1>3. CASE v = Failed
  <2>1. terms' = <<Failed>> /\ terms' \in Seq({Failed})
    BY <1>3 DEF Yields
  <2> QED
    BY <2>1 DEF OperandsOK, Sequential
<1>4. CASE v # Failed
  <2> DEFINE kept == SubSeq(terms, 1, Len(terms) - n)
  <2>1. Len(terms) - n \in 0..Len(terms)
    BY <1>1 DEF Arity
  <2>2. kept \in Seq(T) /\ Len(kept) = Len(terms) - n /\ \A k \in 1..Len(kept) : kept[k] = terms[k]
    BY <1>1, <2>1
  <2>3. terms' = Append(kept, v)
    BY <1>4 DEF Yields
  <2> HIDE DEF kept
  <2>4. /\ terms' \in Seq(T \cup {v}) /\ Len(terms') = Len(kept) + 1
        /\ \A k \in 1..Len(kept) : terms'[k] = kept[k]
        /\ terms'[Len(kept) + 1] = v
    BY <2>2, <2>3
  <2>5. ASSUME NEW k \in 1..Len(terms') PROVE terms'[k] # Failed /\ Applies(terms'[k])
    <3>1. CASE k \in 1..Len(kept)
      BY <1>1, <1>2, <2>1, <2>2, <2>4, <3>1
    <3>2. CASE k = Len(kept) + 1
      BY <1>4, <2>4, <3>2
    <3> QED
      BY <2>2, <2>4, <2>5, <3>1, <3>2
  <2> QED
    BY <2>4, <2>5 DEF OperandsOK, Sequential
<1> QED
  BY <1>3, <1>4

\* The operands an operation takes are components.
LEMMA OperandApplies ==
    ASSUME OperandsOK, NEW n \in 1..2, Arity(n), NEW k \in 0..(n - 1)
    PROVE  Applies(Operand(k))
<1>1. PICK T : terms \in Seq(T)
  BY DEF OperandsOK, Sequential
<1>2. Len(terms) - k \in 1..Len(terms)
  BY <1>1 DEF Arity
<1> QED
  BY <1>2 DEF OperandsOK, Arity, Operand

\* Every step of the evaluation leaves the operands components.
LEMMA OperandsStep ==
    ASSUME OperandsOK, [AlgNext]_algVars PROVE OperandsOK'
<1>1. ASSUME NEW name \in DOMAIN Library, EvalName(name) PROVE OperandsOK'
  <2>1. PICK v : Yields(0, v) /\ v = [f \in DOMAIN v |-> v[f]] /\ "binds" \in DOMAIN v /\ v.binds = <<>>
    BY <1>1 DEF EvalName
  <2>2. Arity(0)
    BY <1>1 DEF EvalName
  <2>3. Applies(v)
    <3>1. <<>> \in Seq({})
      OBVIOUS
    <3> QED
      BY <2>1, <3>1 DEF Applies, Sequential
  <2> QED
    BY <2>1, <2>2, <2>3, YieldsOK
<1>2. ASSUME EvalCompose PROVE OperandsOK'
  <2>1. Arity(2) /\ Yields(2, Compose(Operand(1), Operand(0)))
    BY <1>2 DEF EvalCompose
  <2>2. Applies(Operand(1)) /\ Applies(Operand(0))
    BY <2>1, OperandApplies
  <2> QED
    BY <2>1, <2>2, ComposeApplies, YieldsOK
<1>3. ASSUME EvalExtend PROVE OperandsOK'
  <2>1. Arity(2) /\ Yields(2, Extend(Operand(1), Operand(0)))
    BY <1>3 DEF EvalExtend
  <2>2. Applies(Operand(1)) /\ Applies(Operand(0))
    BY <2>1, OperandApplies
  <2> QED
    BY <2>1, <2>2, ExtendApplies, YieldsOK
<1>4. ASSUME EvalConfigure PROVE OperandsOK'
  <2>1. Arity(1) /\ Yields(1, Configure(Operand(0)))
    BY <1>4 DEF EvalConfigure, EvalForm
  <2>2. Applies(Operand(0))
    BY <2>1, OperandApplies
  <2> QED
    BY <2>1, <2>2, ConfigureApplies, YieldsOK
<1>5. ASSUME NEW allow \in AllowLists, EvalOnly(allow) PROVE OperandsOK'
  <2>1. Arity(1) /\ Yields(1, Only(Operand(0), allow))
    BY <1>5 DEF EvalOnly, EvalForm
  <2>2. Applies(Operand(0))
    BY <2>1, OperandApplies
  <2> QED
    BY <2>1, <2>2, OnlyApplies, YieldsOK
<1>6. ASSUME NEW r \in Relabels, EvalRename(r[1], r[2]) PROVE OperandsOK'
  <2>1. Arity(1) /\ Yields(1, Rename(Operand(0), r[1], r[2]))
    BY <1>6 DEF EvalRename, EvalForm
  <2>2. Applies(Operand(0))
    BY <2>1, OperandApplies
  <2> QED
    BY <2>1, <2>2, RenameApplies, YieldsOK
<1>7. ASSUME NEW slot \in WithSlots, EvalWith(slot) PROVE OperandsOK'
  <2>1. Arity(2) /\ Yields(2, WithAs(Operand(1), Operand(0), slot))
    BY <1>7 DEF EvalWith
  <2>2. Applies(Operand(1)) /\ Applies(Operand(0))
    BY <2>1, OperandApplies
  <2> QED
    BY <2>1, <2>2, WithApplies, YieldsOK
<1>8. ASSUME UNCHANGED algVars PROVE OperandsOK'
  BY <1>8 DEF OperandsOK, Sequential, algVars
<1> QED
  BY <1>1, <1>2, <1>3, <1>4, <1>5, <1>6, <1>7, <1>8 DEF AlgNext

\* The laws hold of the operands of every evaluation, whatever the library,
\* the allow-lists, the names and the length of the expression.
THEOREM LayersLawHolds == AlgSpec => []LayersLaw
<1>1. AlgInit => OperandsOK
  <2>1. <<>> \in Seq({}) /\ Len(<<>>) = 0
    OBVIOUS
  <2> QED
    BY <2>1 DEF AlgInit, OperandsOK, Sequential
<1>2. OperandsOK /\ [AlgNext]_algVars => OperandsOK'
  BY OperandsStep
<1>3. OperandsOK => LayersLaw
  <2> SUFFICES ASSUME OperandsOK, NEW k \in 1..Len(terms) - 2,
                      Overrides(terms[k], terms[k + 1], terms[k + 2])
               PROVE  /\ ActionLaw(terms[k], terms[k + 1], terms[k + 2])
                      /\ Associative(terms[k], terms[k + 1], terms[k + 2])
    BY DEF LayersLaw
  <2>1. PICK T : terms \in Seq(T)
    BY DEF OperandsOK, Sequential
  <2> DEFINE x == terms[k]
             y == terms[k + 1]
             z == terms[k + 2]
  <2>2. Applies(x) /\ Applies(y) /\ Applies(z)
    <3>1. Len(terms) \in Nat /\ Len(terms) >= 3
      BY <2>1
    <3>2. terms # <<Failed>>
      BY <3>1
    <3>3. {k, k + 1, k + 2} \subseteq 1..Len(terms)
      BY <3>1
    <3> QED
      BY <3>2, <3>3 DEF OperandsOK
  <2>3. Overrides(x, y, z)
    OBVIOUS
  <2> HIDE DEF x, y, z
  <2>4. PICK I : x.binds \in Seq(I) /\ y.binds \in Seq(I) /\ z.binds \in Seq(I)
    <3>1. PICK A : x.binds \in Seq(A)
      BY <2>2 DEF Applies, Sequential
    <3>2. PICK B : y.binds \in Seq(B)
      BY <2>2 DEF Applies, Sequential
    <3>3. PICK C : z.binds \in Seq(C)
      BY <2>2 DEF Applies, Sequential
    <3>4. /\ x.binds \in Seq(A \cup B \cup C) /\ y.binds \in Seq(A \cup B \cup C)
          /\ z.binds \in Seq(A \cup B \cup C)
      BY <3>1, <3>2, <3>3
    <3> QED
      BY <3>4
  <2>5. ActionLaw(x, y, z) /\ Associative(x, y, z)
    BY <2>3, <2>4, ActionLawHolds, ExtendAssociates
  <2> QED
    BY <2>5 DEF x, y, z
<1> QED
  BY <1>1, <1>2, <1>3, PTL DEF AlgSpec
-----------------------------------------------------------------------------
(* The order of the entrypoint. It is inductive only with the instances: an *)
(* operand knows no instance but its own, and no two operands share one,    *)
(* so what a provider reaches never contains an instance of its consumer.   *)

IsRecord(r) == r = [f \in DOMAIN r |-> r[f]]
Confined(reach, v) == \A w \in v.wires : w.inst \in reach => w.by \in reach \cup {NoProvider}
InOrder(v) ==
    \A k, l \in DOMAIN v.binds : k < l =>
        \E reach \in SUBSET v.insts :
            v.binds[k] \in reach /\ v.binds[l] \notin reach /\ Confined(reach, v)

\* A component that names no instance but its own.
Grounded(v) ==
    /\ IsRecord(v) /\ {"open", "exports", "wires", "binds", "baked", "insts", "notes", "gates", "meant"} \subseteq DOMAIN v
    /\ v.binds \in Seq(v.insts) /\ {v.binds[k] : k \in DOMAIN v.binds} = v.baked
    /\ \A o \in v.open : IsRecord(o) /\ {"inst", "name"} \subseteq DOMAIN o /\ o.inst \in v.insts
    /\ \A e \in v.exports : IsRecord(e) /\ {"by", "name"} \subseteq DOMAIN e /\ e.by \in v.insts
    /\ \A w \in v.wires : w.inst \in v.insts /\ w.by \in v.insts \cup {NoProvider}
    /\ InOrder(v)

\* Operands share no instance, and the next one is new.
Numbered(i) == i[2] \in Nat /\ i[2] < loaded
OperandsGrounded ==
    /\ Sequential(terms) /\ loaded \in Nat
    /\ \/ terms = <<Failed>>
       \/ /\ \A k \in 1..Len(terms) : terms[k] # Failed /\ Grounded(terms[k]) /\ \A i \in terms[k].insts : Numbered(i)
          /\ \A k, l \in 1..Len(terms) : k # l => terms[k].insts \cap terms[l].insts = {}

\* propagate_binds keeps the order: the provider's part reaches nothing of the
\* consumer, and what the consumer's part reaches of the provider runs first.
LEMMA WiredGrounded ==
    ASSUME NEW p, NEW c, NEW exports, Grounded(p), Grounded(c), p.insts \cap c.insts = {},
           \A e \in exports : e \in p.exports \/ e \in c.exports
    PROVE  Grounded(Wired(p, c, exports)) /\ Wired(p, c, exports).insts = p.insts \cup c.insts
<1> PICK v, I : v = Wired(p, c, exports) /\ I = p.insts \cup c.insts
  OBVIOUS
<1>1. /\ v.insts = I /\ v.open = p.open \cup {o \in c.open : ~Serves(p, o)} /\ v.exports = exports
      /\ v.wires = p.wires \cup c.wires \cup NewWires(p, c)
      /\ v.binds = p.binds \o c.binds /\ v.baked = p.baked \cup c.baked
  BY DEF Wired, Binds
<1>2. IsRecord(v) /\ {"open", "exports", "wires", "binds", "baked", "insts", "notes", "gates", "meant"} \subseteq DOMAIN v
  BY DEF Wired, IsRecord
<1>3. PICK b, d, s, x, y : b = p.binds /\ d = c.binds /\ s = b \o d /\ x = Len(b) /\ y = Len(d)
  OBVIOUS
<1>4. /\ b \in Seq(p.insts) /\ d \in Seq(c.insts) /\ x \in Nat /\ y \in Nat /\ v.binds = s
      /\ DOMAIN b = 1..x /\ DOMAIN d = 1..y
      /\ \A k \in 1..x : b[k] \in p.insts
      /\ \A k \in 1..y : d[k] \in c.insts
  BY <1>1, <1>3 DEF Grounded
<1>5. b \in Seq(I) /\ d \in Seq(I)
  BY <1>4
<1>6. /\ s \in Seq(I) /\ DOMAIN s = 1..(x + y)
      /\ \A k \in 1..x : s[k] = b[k]
      /\ \A k \in 1..y : s[k + x] = d[k]
  <2>1. s = b \o d /\ Len(b) = x /\ Len(d) = y
    BY <1>3
  <2>2. s \in Seq(I) /\ Len(s) = x + y
    <3>1. b \o d \in Seq(I)
      BY <1>5
    <3>2. Len(b \o d) = Len(b) + Len(d)
      BY <1>5
    <3> QED
      BY <2>1, <3>1, <3>2
  <2>3. DOMAIN s = 1..(x + y)
    BY <2>2
  <2>4. \A k \in 1..(x + y) : s[k] = IF k <= x THEN b[k] ELSE d[k - x]
    BY <1>5, <2>1
  <2>5. ASSUME NEW k \in 1..x PROVE s[k] = b[k]
    BY <1>4, <2>4
  <2>6. ASSUME NEW k \in 1..y PROVE s[k + x] = d[k]
    <3>1. k + x \in 1..(x + y) /\ ~(k + x <= x) /\ (k + x) - x = k
      BY <1>4
    <3> QED
      BY <2>4, <3>1
  <2> QED
    BY <2>2, <2>3, <2>5, <2>6
<1>7. \A k \in 1..(x + y) : k \in 1..x \/ (k - x \in 1..y /\ s[k] = d[k - x])
  <2> SUFFICES ASSUME NEW k \in 1..(x + y), k \notin 1..x PROVE k - x \in 1..y /\ s[k] = d[k - x]
    OBVIOUS
  <2>1. k - x \in 1..y /\ (k - x) + x = k
    BY <1>4
  <2> QED
    BY <1>6, <2>1
<1>8. {s[k] : k \in DOMAIN s} = v.baked
  <2>1. p.baked = {b[k] : k \in 1..x} /\ c.baked = {d[k] : k \in 1..y}
    <3>1. p.baked = {b[k] : k \in DOMAIN b} /\ c.baked = {d[k] : k \in DOMAIN d}
      BY <1>3, Zenon DEF Grounded
    <3> QED
      BY <1>4, <3>1, Zenon
  <2>2. ASSUME NEW k \in 1..(x + y) PROVE s[k] \in p.baked \cup c.baked
    <3>1. CASE k \in 1..x
      BY <1>6, <2>1, <3>1
    <3>2. CASE k - x \in 1..y /\ s[k] = d[k - x]
      BY <2>1, <3>2
    <3> QED
      BY <1>7, <3>1, <3>2
  <2>3. ASSUME NEW k \in 1..x PROVE b[k] \in {s[m] : m \in 1..(x + y)}
    <3>1. k \in 1..(x + y)
      BY <1>4
    <3> QED
      BY <1>6, <3>1
  <2>4. ASSUME NEW k \in 1..y PROVE d[k] \in {s[m] : m \in 1..(x + y)}
    <3>1. k + x \in 1..(x + y)
      BY <1>4
    <3> QED
      BY <1>6, <3>1
  <2> QED
    BY <1>1, <1>6, <2>1, <2>2, <2>3, <2>4
<1>9. \A w \in NewWires(p, c) : w.inst \in c.insts /\ w.by \in p.insts
  BY WireIff DEF Grounded
<1>10. \A w \in v.wires : \/ w \in p.wires /\ w.inst \in p.insts /\ w.inst \notin c.insts /\ w.by \in p.insts \cup {NoProvider}
                          \/ w \in c.wires /\ w.inst \in c.insts /\ w.inst \notin p.insts /\ w.by \in c.insts \cup {NoProvider}
                          \/ w.inst \in c.insts /\ w.inst \notin p.insts /\ w.by \in p.insts
  BY <1>1, <1>9 DEF Grounded
<1>11. InOrder(v)
  <2> SUFFICES ASSUME NEW k \in 1..(x + y), NEW l \in 1..(x + y), k < l
               PROVE  \E reach \in SUBSET I : s[k] \in reach /\ s[l] \notin reach /\ Confined(reach, v)
    BY <1>1, <1>4, <1>6 DEF InOrder
  <2>1. CASE l \in 1..x
    <3>1. k \in 1..x
      BY <1>4, <2>1
    <3>2. PICK reach \in SUBSET p.insts : b[k] \in reach /\ b[l] \notin reach /\ Confined(reach, p)
      BY <1>3, <1>4, <2>1, <3>1 DEF Grounded, InOrder
    <3>3. Confined(reach, v)
      BY <1>10, <3>2 DEF Confined
    <3> QED
      BY <1>6, <2>1, <3>1, <3>2, <3>3
  <2>2. CASE l \notin 1..x /\ k \in 1..x
    <3>1. s[k] \in p.insts /\ s[l] \in c.insts
      BY <1>4, <1>6, <1>7, <2>2
    <3>2. Confined(p.insts, v)
      BY <1>10 DEF Confined
    <3> QED
      BY <3>1, <3>2
  <2>3. CASE l \notin 1..x /\ k \notin 1..x
    <3>1. PICK m, n : m = k - x /\ n = l - x
      OBVIOUS
    <3>2. m \in 1..y /\ n \in 1..y /\ s[k] = d[m] /\ s[l] = d[n]
      BY <1>7, <2>3, <3>1
    <3>3. m < n
      BY <1>4, <3>1
    <3>4. PICK reach \in SUBSET c.insts : d[m] \in reach /\ d[n] \notin reach /\ Confined(reach, c)
      BY <1>3, <1>4, <3>2, <3>3 DEF Grounded, InOrder
    <3>5. d[n] \notin p.insts
      BY <1>4, <3>2
    <3>6. Confined(reach \cup p.insts, v)
      BY <1>10, <3>4 DEF Confined
    <3>7. reach \cup p.insts \in SUBSET I
      OBVIOUS
    <3> QED
      BY <3>2, <3>4, <3>5, <3>6, <3>7
  <2> QED
    BY <2>1, <2>2, <2>3
<1>12. /\ \A o \in v.open : IsRecord(o) /\ {"inst", "name"} \subseteq DOMAIN o /\ o.inst \in I
       /\ \A e \in v.exports : IsRecord(e) /\ {"by", "name"} \subseteq DOMAIN e /\ e.by \in I
  BY <1>1 DEF Grounded
<1>13. \A w \in v.wires : w.inst \in I /\ w.by \in I \cup {NoProvider}
  BY <1>10
<1>14. Grounded(v)
  BY <1>1, <1>2, <1>4, <1>6, <1>8, <1>11, <1>12, <1>13 DEF Grounded
<1> QED
  BY <1>1, <1>14

LEMMA ComposeGrounded ==
    ASSUME NEW p, NEW c, Grounded(p), Grounded(c), p.insts \cap c.insts = {}, Compose(p, c) # Failed
    PROVE  Grounded(Compose(p, c)) /\ Compose(p, c).insts = p.insts \cup c.insts
BY WiredGrounded DEF Compose

LEMMA ExtendGrounded ==
    ASSUME NEW x, NEW y, Grounded(x), Grounded(y), x.insts \cap y.insts = {}, Extend(x, y) # Failed
    PROVE  Grounded(Extend(x, y)) /\ Extend(x, y).insts = x.insts \cup y.insts
<1>1. \A e \in y.exports \cup Shown(x, y) : e \in x.exports \/ e \in y.exports
  BY DEF Shown
<1> QED
  BY <1>1, WiredGrounded DEF Extend

\* What keeps the instances, the entrypoint and the wires keeps the order.
LEMMA SameInstances ==
    ASSUME NEW v, NEW u, Grounded(v), IsRecord(u), DOMAIN u = DOMAIN v,
           u.insts = v.insts, u.binds = v.binds, u.baked = v.baked,
           \A w \in u.wires : w \in v.wires \/ (w.inst \in v.insts /\ w.by = NoProvider),
           \A o \in u.open : IsRecord(o) /\ {"inst", "name"} \subseteq DOMAIN o /\ o.inst \in v.insts,
           \A e \in u.exports : IsRecord(e) /\ {"by", "name"} \subseteq DOMAIN e /\ e.by \in v.insts
    PROVE  Grounded(u)
<1>1. InOrder(u)
  BY DEF Grounded, InOrder, Confined
<1> QED
  BY <1>1 DEF Grounded

LEMMA OnlyGrounded ==
    ASSUME NEW v, NEW allow, Grounded(v), Only(v, allow) # Failed
    PROVE  Grounded(Only(v, allow)) /\ Only(v, allow).insts = v.insts
<1>1. PICK outside, open, wires :
        /\ outside = Outside(v, allow) /\ open = v.open \ outside
        /\ wires = v.wires \cup {[inst |-> o.inst, port |-> o.port, by |-> NoProvider] : o \in outside}
  OBVIOUS
<1> PICK u, gates, notes :
        /\ u = Only(v, allow)
        /\ u = [v EXCEPT !.gates = gates] \/ u = [v EXCEPT !.open = open, !.gates = gates, !.notes = notes, !.wires = wires]
  <2> DEFINE gates == v.gates \cup {[insts |-> v.insts, allow |-> allow]}
             notes == Notes(v.notes, open, v.exports)
  <2>1. \/ Only(v, allow) = [v EXCEPT !.gates = gates]
        \/ Only(v, allow) = [v EXCEPT !.open = open, !.gates = gates, !.notes = notes, !.wires = wires]
    BY <1>1 DEF Only
  <2> HIDE DEF gates, notes
  <2> QED
    BY <2>1, Zenon
<1>2. {"open", "exports", "wires", "binds", "baked", "insts", "notes", "gates", "meant"} \subseteq DOMAIN v
  BY DEF Grounded
<1>3. /\ IsRecord(u) /\ DOMAIN u = DOMAIN v /\ u.insts = v.insts /\ u.binds = v.binds /\ u.baked = v.baked
      /\ u.exports = v.exports /\ (u.open = v.open \/ u.open = open) /\ (u.wires = v.wires \/ u.wires = wires)
  BY <1>1, <1>2 DEF IsRecord
<1>4. \A w \in u.wires : w \in v.wires \/ (w.inst \in v.insts /\ w.by = NoProvider)
  BY <1>1, <1>3 DEF Outside, Grounded
<1>5. /\ \A o \in u.open : IsRecord(o) /\ {"inst", "name"} \subseteq DOMAIN o /\ o.inst \in v.insts
      /\ \A e \in u.exports : IsRecord(e) /\ {"by", "name"} \subseteq DOMAIN e /\ e.by \in v.insts
  BY <1>1, <1>3 DEF Grounded
<1>6. Grounded(u)
  BY <1>3, <1>4, <1>5, SameInstances
<1> QED
  BY <1>3, <1>6

LEMMA RenameGrounded ==
    ASSUME NEW v, NEW from, NEW to, Grounded(v), Rename(v, from, to) # Failed
    PROVE  Grounded(Rename(v, from, to)) /\ Rename(v, from, to).insts = v.insts
<1>1. PICK u, open, exports, meant, notes :
        /\ u = Rename(v, from, to)
        /\ u = [v EXCEPT !.open = open, !.exports = exports, !.meant = meant, !.notes = notes]
        /\ open = {[o EXCEPT !.name = Relabelled(v, "import", from, to, @)] : o \in v.open}
        /\ exports = {[e EXCEPT !.name = Relabelled(v, "export", from, to, @)] : e \in v.exports}
  BY Zenon DEF Rename
<1>2. {"open", "exports", "wires", "binds", "baked", "insts", "notes", "gates", "meant"} \subseteq DOMAIN v
  BY DEF Grounded
<1>3. /\ IsRecord(u) /\ DOMAIN u = DOMAIN v /\ u.insts = v.insts /\ u.binds = v.binds /\ u.baked = v.baked
      /\ u.wires = v.wires /\ u.open = open /\ u.exports = exports
  BY <1>1, <1>2 DEF IsRecord
<1>4. \A q \in open : \E o \in v.open : \E x : q = [o EXCEPT !.name = x]
  BY <1>1
<1>5. \A q \in exports : \E e \in v.exports : \E x : q = [e EXCEPT !.name = x]
  BY <1>1
<1>6. \A q \in open : IsRecord(q) /\ {"inst", "name"} \subseteq DOMAIN q /\ q.inst \in v.insts
  BY <1>4 DEF Grounded, IsRecord
<1>7. \A q \in exports : IsRecord(q) /\ {"by", "name"} \subseteq DOMAIN q /\ q.by \in v.insts
  BY <1>5 DEF Grounded, IsRecord
<1>8. Grounded(u)
  BY <1>3, <1>6, <1>7, SameInstances
<1> QED
  BY <1>1, <1>3, <1>8

\* An entrypoint is given only to a component that has none.
LEMMA ConfigureGrounded ==
    ASSUME NEW v, Grounded(v), Configure(v) # Failed
    PROVE  Grounded(Configure(v)) /\ Configure(v).insts = v.insts
<1>1. PICK u, by, exports, notes :
        /\ u = Configure(v)
        /\ u = [v EXCEPT !.exports = exports, !.binds = <<by>>, !.baked = v.baked \cup {by}, !.notes = notes]
        /\ exports \subseteq v.exports /\ by \in v.insts /\ v.binds = <<>>
  <2> DEFINE configs == {e \in v.exports : Flavor(IdOf(v, "export", e.name).iface) = "config"}
             by == (CHOOSE e \in configs : TRUE).by
             notes == Notes(v.notes, v.open, v.exports \ configs)
  <2>1. /\ Cardinality(configs) = 1 /\ v.binds = <<>>
        /\ Configure(v) = [v EXCEPT !.exports = v.exports \ configs, !.binds = <<by>>,
                                    !.baked = v.baked \cup {by}, !.notes = notes]
    BY DEF Configure
  <2>2. configs # {}
    <3>1. configs = {} => Cardinality(configs) = 0
      BY FS_EmptySet
    <3> HIDE DEF configs
    <3> QED
      BY <2>1, <3>1
  <2>3. by \in v.insts
    <3>1. PICK e : e = CHOOSE x \in configs : TRUE
      OBVIOUS
    <3>2. e \in configs
      BY <2>2, <3>1
    <3> QED
      BY <3>1, <3>2 DEF Grounded
  <2>4. v.exports \ configs \subseteq v.exports
    OBVIOUS
  <2> HIDE DEF configs, by, notes
  <2> QED
    BY <2>1, <2>3, <2>4, Zenon
<1>2. {"open", "exports", "wires", "binds", "baked", "insts", "notes", "gates", "meant"} \subseteq DOMAIN v
  BY DEF Grounded
<1>3. /\ IsRecord(u) /\ {"open", "exports", "wires", "binds", "baked", "insts", "notes", "gates", "meant"} \subseteq DOMAIN u
      /\ u.insts = v.insts /\ u.binds = <<by>> /\ u.baked = v.baked \cup {by}
      /\ u.wires = v.wires /\ u.open = v.open /\ u.exports = exports
  BY <1>1, <1>2 DEF IsRecord
<1>4. v.baked = {}
  BY <1>1 DEF Grounded
<1>5. <<by>> \in Seq(v.insts) /\ DOMAIN <<by>> = {1} /\ <<by>>[1] = by
  <2>1. PICK I : I = v.insts
    OBVIOUS
  <2>2. by \in I
    BY <1>1, <2>1
  <2>3. <<by>> \in Seq(I) /\ DOMAIN <<by>> = {1} /\ <<by>>[1] = by
    BY <2>2
  <2> QED
    BY <2>1, <2>3
<1>6. u.binds \in Seq(u.insts) /\ {u.binds[k] : k \in DOMAIN u.binds} = u.baked
  BY <1>3, <1>4, <1>5
<1>7. InOrder(u)
  BY <1>3, <1>5 DEF InOrder
<1>8. Grounded(u)
  BY <1>1, <1>3, <1>6, <1>7 DEF Grounded
<1> QED
  BY <1>1, <1>3, <1>8

LEMMA WithGrounded ==
    ASSUME NEW body, NEW p, NEW slot, Grounded(body), Grounded(p), p.insts \cap body.insts = {},
           WithAs(body, p, slot) # Failed
    PROVE  Grounded(WithAs(body, p, slot)) /\ WithAs(body, p, slot).insts = p.insts \cup body.insts
<1>1. PICK bound : /\ bound = p \/ \E from : bound = Rename(p, from, slot) /\ bound # Failed
                   /\ WithAs(body, p, slot) = Compose(bound, body)
  BY DEF WithAs
<1>2. Grounded(bound) /\ bound.insts = p.insts
  BY <1>1, RenameGrounded
<1> QED
  BY <1>1, <1>2, ComposeGrounded

\* A value in the place of the n last operands: it is one of new instances or
\* of those of the operands it replaces.
LEMMA YieldsGrounded ==
    ASSUME OperandsGrounded, NEW n \in 0..2, Arity(n), NEW v, Yields(n, v),
           loaded' = loaded \/ loaded' = loaded + 1,
           v # Failed =>
              /\ Grounded(v) /\ \A i \in v.insts : Numbered(i)'
              /\ \A k \in 1..(Len(terms) - n) : terms[k].insts \cap v.insts = {}
    PROVE  OperandsGrounded'
<1>1. PICK T : terms \in Seq(T)
  BY DEF OperandsGrounded, Sequential
<1>2. /\ loaded \in Nat
      /\ \A k \in 1..Len(terms) : terms[k] # Failed /\ Grounded(terms[k]) /\ \A i \in terms[k].insts : Numbered(i)
      /\ \A k, l \in 1..Len(terms) : k # l => terms[k].insts \cap terms[l].insts = {}
  BY DEF OperandsGrounded, Arity
<1>3. loaded' \in Nat /\ \A i : Numbered(i) => Numbered(i)'
  BY <1>2 DEF Numbered
<1>4. CASE v = Failed
  <2>1. terms' = <<Failed>> /\ terms' \in Seq({Failed})
    BY <1>4 DEF Yields
  <2> QED
    BY <1>3, <2>1 DEF OperandsGrounded, Sequential
<1>5. CASE v # Failed
  <2> DEFINE kept == SubSeq(terms, 1, Len(terms) - n)
  <2>1. Len(terms) \in Nat /\ Len(terms) - n \in 0..Len(terms)
    BY <1>1 DEF Arity
  <2>2. kept \in Seq(T) /\ Len(kept) = Len(terms) - n /\ \A k \in 1..Len(kept) : kept[k] = terms[k]
    BY <1>1, <2>1
  <2>3. terms' = Append(kept, v)
    BY <1>5 DEF Yields
  <2> HIDE DEF kept
  <2>4. /\ terms' \in Seq(T \cup {v}) /\ Len(terms') = Len(kept) + 1
        /\ \A k \in 1..Len(kept) : terms'[k] = kept[k]
        /\ terms'[Len(kept) + 1] = v
    BY <2>2, <2>3
  <2>5. PICK m : m = Len(kept)
    OBVIOUS
  <2>6. /\ m \in Nat /\ m = Len(terms) - n /\ 1..m \subseteq 1..Len(terms) /\ Len(terms') = m + 1
        /\ \A k \in 1..m : terms'[k] = terms[k]
        /\ terms'[m + 1] = v
        /\ \A k \in 1..(m + 1) : k \in 1..m \/ k = m + 1
    BY <2>1, <2>2, <2>4, <2>5
  <2>7. ASSUME NEW k \in 1..(m + 1)
        PROVE  terms'[k] # Failed /\ Grounded(terms'[k]) /\ \A i \in terms'[k].insts : Numbered(i)'
    <3>1. CASE k \in 1..m
      BY <1>2, <1>3, <2>6, <3>1
    <3>2. CASE k = m + 1
      BY <1>5, <2>6, <3>2
    <3> QED
      BY <2>6, <3>1, <3>2
  <2>8. ASSUME NEW k \in 1..(m + 1), NEW l \in 1..(m + 1), k # l
        PROVE  terms'[k].insts \cap terms'[l].insts = {}
    <3>1. CASE k \in 1..m /\ l \in 1..m
      BY <1>2, <2>6, <2>8, <3>1
    <3>2. CASE k \in 1..m /\ l = m + 1
      BY <1>5, <2>6, <3>2
    <3>3. CASE k = m + 1 /\ l \in 1..m
      BY <1>5, <2>6, <3>3
    <3> QED
      BY <2>6, <2>8, <3>1, <3>2, <3>3
  <2>9. Sequential(terms')
    BY <2>4 DEF Sequential
  <2>10. /\ \A k \in 1..Len(terms') : terms'[k] # Failed /\ Grounded(terms'[k]) /\ \A i \in terms'[k].insts : Numbered(i)'
         /\ \A k, l \in 1..Len(terms') : k # l => terms'[k].insts \cap terms'[l].insts = {}
    BY <2>6, <2>7, <2>8
  <2> QED
    BY <1>3, <2>9, <2>10 DEF OperandsGrounded
<1> QED
  BY <1>4, <1>5

\* The operands of a prefix form and of a binary operation.
LEMMA OneOperand ==
    ASSUME OperandsGrounded, Arity(1)
    PROVE  /\ Grounded(Operand(0)) /\ \A i \in Operand(0).insts : Numbered(i)
           /\ \A k \in 1..(Len(terms) - 1) : terms[k].insts \cap Operand(0).insts = {}
<1>1. Len(terms) \in Nat
  BY DEF OperandsGrounded, Sequential
<1>2. Len(terms) - 0 = Len(terms) /\ Len(terms) \in 1..Len(terms)
  BY <1>1 DEF Arity
<1>3. \A k \in 1..(Len(terms) - 1) : k \in 1..Len(terms) /\ k # Len(terms)
  BY <1>1
<1> QED
  BY <1>2, <1>3 DEF OperandsGrounded, Arity, Operand

LEMMA TwoOperands ==
    ASSUME OperandsGrounded, Arity(2)
    PROVE  /\ Grounded(Operand(0)) /\ Grounded(Operand(1)) /\ Operand(0).insts \cap Operand(1).insts = {}
           /\ \A i \in Operand(0).insts \cup Operand(1).insts : Numbered(i)
           /\ \A k \in 1..(Len(terms) - 2) : terms[k].insts \cap (Operand(0).insts \cup Operand(1).insts) = {}
<1>1. Len(terms) \in Nat
  BY DEF OperandsGrounded, Sequential
<1>2. /\ Len(terms) - 0 = Len(terms) /\ Len(terms) \in 1..Len(terms)
      /\ Len(terms) - 1 \in 1..Len(terms) /\ Len(terms) - 1 # Len(terms)
  BY <1>1 DEF Arity
<1>3. \A k \in 1..(Len(terms) - 2) : k \in 1..Len(terms) /\ k # Len(terms) /\ k # Len(terms) - 1
  BY <1>1
<1>4. PICK x, y : x = Len(terms) /\ y = Len(terms) - 1
  OBVIOUS
<1>5. /\ \A k \in 1..Len(terms) : Grounded(terms[k]) /\ \A i \in terms[k].insts : Numbered(i)
      /\ \A k, l \in 1..Len(terms) : k # l => terms[k].insts \cap terms[l].insts = {}
  BY DEF OperandsGrounded, Arity
<1>6. Operand(0) = terms[x] /\ Operand(1) = terms[y] /\ x \in 1..Len(terms) /\ y \in 1..Len(terms) /\ x # y
  BY <1>2, <1>4 DEF Operand
<1>7. ASSUME NEW k \in 1..(Len(terms) - 2) PROVE terms[k].insts \cap terms[x].insts = {} /\ terms[k].insts \cap terms[y].insts = {}
  BY <1>3, <1>4, <1>5, <1>6
<1> QED
  BY <1>5, <1>6, <1>7

\* A program is loaded as an instance that no operand has.
LEMMA NameGrounded ==
    ASSUME OperandsGrounded, NEW name \in DOMAIN Library, EvalName(name)
    PROVE  OperandsGrounded'
<1>1. PICK i, v, open, exports :
        /\ i = <<name, loaded>> /\ Yields(0, v) /\ IsRecord(v)
        /\ {"open", "exports", "wires", "binds", "baked", "insts", "notes", "gates", "meant"} \subseteq DOMAIN v
        /\ v.insts = {i} /\ v.open = open /\ v.exports = exports
        /\ v.wires = {} /\ v.binds = <<>> /\ v.baked = {}
        /\ \A o \in open : \E x, y : o = [inst |-> i, port |-> x, name |-> y]
        /\ \A e \in exports : \E x, y : e = [name |-> x, iface |-> y, by |-> i]
  <2> DEFINE i == <<name, loaded>>
             NameOf(x) == [slot |-> x.slot, ver |-> IF Plain(x.slot) THEN Unversioned ELSE x.ver]
             Annotations(side, xs) ==
                 {[side |-> side, slot |-> x.slot, id |-> [iface |-> x.iface, ver |-> x.ver]] :
                     x \in {y \in xs : Plain(y.slot)}}
             open == {[inst |-> i, port |-> x, name |-> NameOf(x)] : x \in Library[name].imports}
             exports == {[name |-> NameOf(x), iface |-> x.iface, by |-> i] : x \in Library[name].exports}
             meant == {<<x.slot, x.iface>> : x \in Library[name].imports \cup Library[name].exports}
             notes == Annotations("import", Library[name].imports) \cup Annotations("export", Library[name].exports)
             v == [kind |-> Library[name].kind, insts |-> {i}, open |-> open, exports |-> exports,
                   wires |-> {}, binds |-> <<>>, baked |-> {}, gates |-> {}, meant |-> meant, notes |-> notes]
  <2>1. Yields(0, v)
    BY DEF EvalName
  <2>2. \A o \in open : \E x, y : o = [inst |-> i, port |-> x, name |-> y]
    OBVIOUS
  <2>3. \A e \in exports : \E x, y : e = [name |-> x, iface |-> y, by |-> i]
    OBVIOUS
  <2> HIDE DEF i, open, exports, meant, notes
  <2>4. /\ IsRecord(v) /\ {"open", "exports", "wires", "binds", "baked", "insts", "notes", "gates", "meant"} \subseteq DOMAIN v
        /\ v.insts = {i} /\ v.open = open /\ v.exports = exports
        /\ v.wires = {} /\ v.binds = <<>> /\ v.baked = {}
    BY DEF IsRecord
  <2> HIDE DEF v
  <2>5. i = <<name, loaded>>
    BY DEF i
  <2> QED
    BY <2>1, <2>2, <2>3, <2>4, <2>5
<1>2. Arity(0) /\ loaded' = loaded + 1 /\ loaded \in Nat
  BY DEF EvalName, OperandsGrounded
<1>3. Grounded(v)
  <2>1. v.binds \in Seq(v.insts) /\ DOMAIN v.binds = {}
    BY <1>1
  <2>2. /\ \A o \in v.open : IsRecord(o) /\ {"inst", "name"} \subseteq DOMAIN o /\ o.inst \in v.insts
        /\ \A e \in v.exports : IsRecord(e) /\ {"by", "name"} \subseteq DOMAIN e /\ e.by \in v.insts
    BY <1>1 DEF IsRecord
  <2> QED
    BY <1>1, <2>1, <2>2 DEF Grounded, InOrder
<1>4. i[2] = loaded /\ \A j \in v.insts : Numbered(j)'
  BY <1>1, <1>2 DEF Numbered
<1>5. ASSUME NEW k \in 1..(Len(terms) - 0) PROVE terms[k].insts \cap v.insts = {}
  <2>1. k \in 1..Len(terms)
    BY DEF OperandsGrounded, Sequential
  <2>2. ~Numbered(i)
    BY <1>2, <1>4 DEF Numbered
  <2> QED
    BY <1>1, <1>2, <2>1, <2>2 DEF OperandsGrounded, Arity
<1> QED
  BY <1>1, <1>2, <1>3, <1>4, <1>5, YieldsGrounded

\* A value of the instances of the one operand, or of both.
LEMMA YieldsOfOne ==
    ASSUME OperandsGrounded, Arity(1), NEW v, Yields(1, v), UNCHANGED loaded,
           v # Failed => Grounded(v) /\ v.insts = Operand(0).insts
    PROVE  OperandsGrounded'
<1>1. \A i : Numbered(i)' <=> Numbered(i)
  BY DEF Numbered
<1> QED
  BY <1>1, OneOperand, YieldsGrounded

LEMMA YieldsOfTwo ==
    ASSUME OperandsGrounded, Arity(2), NEW v, Yields(2, v), UNCHANGED loaded,
           v # Failed => Grounded(v) /\ v.insts = Operand(0).insts \cup Operand(1).insts
    PROVE  OperandsGrounded'
<1>1. \A i : Numbered(i)' <=> Numbered(i)
  BY DEF Numbered
<1> QED
  BY <1>1, TwoOperands, YieldsGrounded

LEMMA GroundedStep ==
    ASSUME OperandsGrounded, [AlgNext]_algVars PROVE OperandsGrounded'
<1>1. ASSUME NEW name \in DOMAIN Library, EvalName(name) PROVE OperandsGrounded'
  BY <1>1, NameGrounded
<1>2. ASSUME EvalCompose PROVE OperandsGrounded'
  <2>1. PICK v : v = Compose(Operand(1), Operand(0)) /\ Arity(2) /\ Yields(2, v) /\ UNCHANGED loaded
    BY <1>2 DEF EvalCompose
  <2>2. v # Failed => Grounded(v) /\ v.insts = Operand(0).insts \cup Operand(1).insts
    BY <2>1, TwoOperands, ComposeGrounded
  <2> QED
    BY <2>1, <2>2, YieldsOfTwo
<1>3. ASSUME EvalExtend PROVE OperandsGrounded'
  <2>1. PICK v : v = Extend(Operand(1), Operand(0)) /\ Arity(2) /\ Yields(2, v) /\ UNCHANGED loaded
    BY <1>3 DEF EvalExtend
  <2>2. v # Failed => Grounded(v) /\ v.insts = Operand(0).insts \cup Operand(1).insts
    BY <2>1, TwoOperands, ExtendGrounded
  <2> QED
    BY <2>1, <2>2, YieldsOfTwo
<1>4. ASSUME EvalConfigure PROVE OperandsGrounded'
  <2>1. PICK v : v = Configure(Operand(0)) /\ Arity(1) /\ Yields(1, v) /\ UNCHANGED loaded
    BY <1>4 DEF EvalConfigure, EvalForm
  <2>2. v # Failed => Grounded(v) /\ v.insts = Operand(0).insts
    BY <2>1, OneOperand, ConfigureGrounded
  <2> QED
    BY <2>1, <2>2, YieldsOfOne
<1>5. ASSUME NEW allow \in AllowLists, EvalOnly(allow) PROVE OperandsGrounded'
  <2>1. PICK v : v = Only(Operand(0), allow) /\ Arity(1) /\ Yields(1, v) /\ UNCHANGED loaded
    BY <1>5 DEF EvalOnly, EvalForm
  <2>2. v # Failed => Grounded(v) /\ v.insts = Operand(0).insts
    BY <2>1, OneOperand, OnlyGrounded
  <2> QED
    BY <2>1, <2>2, YieldsOfOne
<1>6. ASSUME NEW r \in Relabels, EvalRename(r[1], r[2]) PROVE OperandsGrounded'
  <2>1. PICK v : v = Rename(Operand(0), r[1], r[2]) /\ Arity(1) /\ Yields(1, v) /\ UNCHANGED loaded
    BY <1>6 DEF EvalRename, EvalForm
  <2>2. v # Failed => Grounded(v) /\ v.insts = Operand(0).insts
    BY <2>1, OneOperand, RenameGrounded
  <2> QED
    BY <2>1, <2>2, YieldsOfOne
<1>7. ASSUME NEW slot \in WithSlots, EvalWith(slot) PROVE OperandsGrounded'
  <2>1. PICK v : v = WithAs(Operand(1), Operand(0), slot) /\ Arity(2) /\ Yields(2, v) /\ UNCHANGED loaded
    BY <1>7 DEF EvalWith
  <2>2. v # Failed => Grounded(v) /\ v.insts = Operand(0).insts \cup Operand(1).insts
    BY <2>1, TwoOperands, WithGrounded
  <2> QED
    BY <2>1, <2>2, YieldsOfTwo
<1>8. ASSUME UNCHANGED algVars PROVE OperandsGrounded'
  BY <1>8 DEF OperandsGrounded, Sequential, Numbered, algVars
<1> QED
  BY <1>1, <1>2, <1>3, <1>4, <1>5, <1>6, <1>7, <1>8 DEF AlgNext

\* The entrypoint of a component, whatever the expression that made it, applies
\* every configuration baked into it, and none before one it may call through.
THEOREM ConfiguredInOrderHolds == AlgSpec => []ConfiguredInOrder
<1>1. AlgInit => OperandsGrounded
  <2>1. <<>> \in Seq({}) /\ Len(<<>>) = 0
    OBVIOUS
  <2> QED
    BY <2>1 DEF AlgInit, OperandsGrounded, Sequential
<1>2. OperandsGrounded /\ [AlgNext]_algVars => OperandsGrounded'
  BY GroundedStep
<1>3. OperandsGrounded => ConfiguredInOrder
  <2> SUFFICES ASSUME OperandsGrounded, NEW k \in DOMAIN terms, terms[k] # Failed
               PROVE  /\ {terms[k].binds[m] : m \in DOMAIN terms[k].binds} = terms[k].baked
                      /\ InOrder(terms[k])
    BY DEF ConfiguredInOrder, Values, InOrder, Confined
  <2>1. DOMAIN terms = 1..Len(terms)
    BY DEF OperandsGrounded, Sequential
  <2>2. terms # <<Failed>>
    <3>1. DOMAIN <<Failed>> = {1} /\ <<Failed>>[1] = Failed
      OBVIOUS
    <3> QED
      BY <3>1
  <2>3. Grounded(terms[k])
    BY <2>1, <2>2 DEF OperandsGrounded
  <2> QED
    BY <2>3 DEF Grounded
<1> QED
  BY <1>1, <1>2, <1>3, PTL DEF AlgSpec
-----------------------------------------------------------------------------
(* The gates. What is inductive is what every name still stands for: an     *)
(* annotation of a plain name, whoever's it once was, is of an interface    *)
(* the name was meant for, so `only` judges an open import by an id of that *)
(* import's own interface, though perhaps of another version.               *)

Imports == UNION {Library[a].imports : a \in DOMAIN Library}
Ports == Imports \cup UNION {Library[a].exports : a \in DOMAIN Library}

\* No allow-list admits one version of an interface in the library and refuses
\* an import of another. Lists without versions satisfy it, and so do all lists
\* where the library has each interface at one version.
JudgedByInterface ==
    \A allow \in AllowLists : \A x \in Ports, y \in Imports :
        x.iface = y.iface /\ Admitted(x, allow) => Admitted(y, allow)

\* An id that some program declares.
Known(id) == \E x \in Ports : id.iface = x.iface /\ id.ver = x.ver

\* A name stands for an interface: that of a default slot for its own, and a
\* plain one for what it was meant for.
Means(meant, name, iface) ==
    IF Plain(name.slot) THEN <<name.slot, iface>> \in meant
    ELSE name.slot = iface /\ Known([iface |-> name.slot, ver |-> name.ver])

Annotated(v) == \A n \in v.notes : <<n.slot, n.id.iface>> \in v.meant /\ Known(n.id)
Named(v) ==
    /\ Annotated(v)
    /\ \A o \in v.open : "port" \in DOMAIN o /\ o.port \in Imports /\ Means(v.meant, o.name, o.port.iface)
    /\ \A e \in v.exports : "iface" \in DOMAIN e /\ Means(v.meant, e.name, e.iface)

Unambiguous(v) == \A m, n \in v.meant : m[1] = n[1] => m[2] = n[2]
GatesShut(v) == \A g \in v.gates :
    /\ \A o \in v.open : o.inst \in g.insts => Admitted(o.port, g.allow)
    /\ \A w \in v.wires :
          w.inst \in g.insts /\ w.by \notin g.insts \cup {NoProvider} => Admitted(w.port, g.allow)

\* A gate is about instances of its component. Where plain names stand for one
\* interface each, names and annotations say what they should, and every gate
\* holds.
Gated(v) ==
    /\ \A g \in v.gates : g.insts \subseteq v.insts
    /\ Unambiguous(v) => Named(v) /\ GatesShut(v)

\* What is not known of a name, no allow-list admits.
LEMMA UnnamedRefused ==
    ASSUME NEW allow PROVE ~Admitted(NoId, allow)
<1>1. NoId.iface = Unnamed /\ Flavor(Unnamed) = "api" /\ Plain(Unnamed)
  BY NamesAssumption DEF NoId, Flavor
<1> QED
  BY <1>1 DEF Admitted, IsFlavor, Plain

\* An id is none, or that of the interface its name stands for.
LEMMA IdMeans ==
    ASSUME NEW v, Unambiguous(v), Annotated(v), NEW side, NEW name, NEW iface, Means(v.meant, name, iface)
    PROVE  \/ IdOf(v, side, name) = NoId
           \/ IdOf(v, side, name).iface = iface /\ Known(IdOf(v, side, name))
<1>1. CASE ~Plain(name.slot)
  BY <1>1 DEF IdOf, Means
<1>2. CASE Plain(name.slot)
  <2> DEFINE noted == {n \in v.notes : n.side = side /\ n.slot = name.slot}
  <2>1. CASE noted = {}
    BY <1>2, <2>1 DEF IdOf
  <2>2. CASE noted # {}
    <3>1. PICK n \in noted : IdOf(v, side, name) = n.id
      <4>1. PICK n : n = CHOOSE x \in noted : TRUE
        OBVIOUS
      <4>2. n \in noted
        BY <2>2, <4>1
      <4>3. IdOf(v, side, name) = n.id
        BY <1>2, <2>2, <4>1 DEF IdOf
      <4> QED
        BY <4>2, <4>3
    <3>2. <<name.slot, n.id.iface>> \in v.meant /\ <<name.slot, iface>> \in v.meant /\ Known(n.id)
      BY <1>2 DEF Annotated, Means
    <3>3. n.id.iface = iface
      BY <3>2 DEF Unambiguous
    <3> QED
      BY <3>1, <3>2, <3>3
  <2> QED
    BY <2>1, <2>2
<1> QED
  BY <1>1, <1>2

\* The annotations of a result are among those of its operands.
LEMMA NotesKept ==
    ASSUME NEW notes, NEW open, NEW exports, NEW n \in Notes(notes, open, exports)
    PROVE  \E m \in notes : n.slot = m.slot /\ n.id = m.id
BY DEF Notes

\* Composition and extension: what a gate of one operand holds, the other is
\* outside of, and the imports it leaves open are all admitted.
LEMMA WiredGated ==
    ASSUME NEW p, NEW c, NEW exports, Grounded(p), Grounded(c), p.insts \cap c.insts = {},
           Gated(p), Gated(c), \A e \in exports : e \in p.exports \/ e \in c.exports
    PROVE  Gated(Wired(p, c, exports))
<1> PICK v : v = Wired(p, c, exports)
  OBVIOUS
<1>1. /\ v.insts = p.insts \cup c.insts /\ v.open = p.open \cup {o \in c.open : ~Serves(p, o)}
      /\ v.exports = exports /\ v.wires = p.wires \cup c.wires \cup NewWires(p, c)
      /\ v.gates = p.gates \cup c.gates /\ v.meant = p.meant \cup c.meant
      /\ v.notes = Notes(p.notes \cup c.notes, v.open, exports)
  BY DEF Wired
<1>2. \A g \in v.gates : g.insts \subseteq v.insts
  BY <1>1 DEF Gated
<1>3. ASSUME Unambiguous(v) PROVE Named(v) /\ GatesShut(v)
  <2>1. Unambiguous(p) /\ Unambiguous(c)
    BY <1>1, <1>3 DEF Unambiguous
  <2>2. Named(p) /\ GatesShut(p) /\ Named(c) /\ GatesShut(c)
    BY <2>1 DEF Gated
  <2>3. Annotated(v)
    <3> SUFFICES ASSUME NEW n \in v.notes PROVE <<n.slot, n.id.iface>> \in v.meant /\ Known(n.id)
      BY DEF Annotated
    <3>1. PICK m \in p.notes \cup c.notes : n.slot = m.slot /\ n.id = m.id
      BY <1>1, NotesKept
    <3> QED
      BY <1>1, <2>2, <3>1 DEF Named, Annotated
  <2>4. Named(v)
    <3>1. \A name, iface : Means(p.meant, name, iface) \/ Means(c.meant, name, iface) => Means(v.meant, name, iface)
      BY <1>1 DEF Means
    <3>2. \A o \in v.open : o \in p.open \/ o \in c.open
      BY <1>1
    <3> QED
      BY <1>1, <2>2, <2>3, <3>1, <3>2 DEF Named
  <2>5. GatesShut(v)
    <3> SUFFICES ASSUME NEW g \in v.gates
                 PROVE  /\ \A o \in v.open : o.inst \in g.insts => Admitted(o.port, g.allow)
                        /\ \A w \in v.wires : w.inst \in g.insts /\ w.by \notin g.insts \cup {NoProvider}
                              => Admitted(w.port, g.allow)
      BY DEF GatesShut
    <3>1. \A o \in c.open : o.inst \in c.insts /\ o.inst \notin p.insts
      BY DEF Grounded
    <3>2. \A o \in p.open : o.inst \in p.insts /\ o.inst \notin c.insts
      BY DEF Grounded
    <3>3. \A w \in c.wires : w.inst \in c.insts /\ w.inst \notin p.insts
      BY DEF Grounded
    <3>4. \A w \in p.wires : w.inst \in p.insts /\ w.inst \notin c.insts
      BY DEF Grounded
    <3>5. \A w \in NewWires(p, c) : \E o \in c.open : w.inst = o.inst /\ w.port = o.port
      BY WireIff
    <3>6. CASE g \in p.gates
      <4>1. g.insts \subseteq p.insts
        BY <3>6 DEF Gated
      <4> QED
        BY <1>1, <2>2, <3>1, <3>3, <3>5, <3>6, <4>1 DEF GatesShut
    <3>7. CASE g \in c.gates
      <4>1. g.insts \subseteq c.insts
        BY <3>7 DEF Gated
      <4> QED
        BY <1>1, <2>2, <3>2, <3>4, <3>5, <3>7, <4>1 DEF GatesShut
    <3> QED
      BY <1>1, <3>6, <3>7
  <2> QED
    BY <2>4, <2>5
<1> QED
  BY <1>2, <1>3 DEF Gated

\* Composition and extension, where they are accepted.
LEMMA ComposeGated ==
    ASSUME NEW p, NEW c, Grounded(p), Grounded(c), p.insts \cap c.insts = {}, Gated(p), Gated(c),
           Compose(p, c) # Failed
    PROVE  Gated(Compose(p, c))
BY WiredGated DEF Compose

LEMMA ExtendGated ==
    ASSUME NEW x, NEW y, Grounded(x), Grounded(y), x.insts \cap y.insts = {}, Gated(x), Gated(y),
           Extend(x, y) # Failed
    PROVE  Gated(Extend(x, y))
<1>1. \A e \in y.exports \cup Shown(x, y) : e \in x.exports \/ e \in y.exports
  BY DEF Shown
<1> QED
  BY <1>1, WiredGated DEF Extend

\* `only`: what it leaves open it judged by an id of the import's interface.
LEMMA OnlyGated ==
    ASSUME JudgedByInterface, NEW v, NEW allow \in AllowLists, Grounded(v), Gated(v), Only(v, allow) # Failed
    PROVE  Gated(Only(v, allow))
<1>1. PICK outside, sealed, gate, gates :
        /\ outside = Outside(v, allow) /\ gate = [insts |-> v.insts, allow |-> allow]
        /\ sealed = {[inst |-> o.inst, port |-> o.port, by |-> NoProvider] : o \in outside}
        /\ gates = v.gates \cup {gate}
  OBVIOUS
<1> PICK u, open, notes :
        /\ u = Only(v, allow)
        /\ open = v.open \ outside /\ notes = Notes(v.notes, open, v.exports)
        /\ \/ u = [v EXCEPT !.gates = gates] /\ outside = {}
           \/ u = [v EXCEPT !.open = open, !.gates = gates, !.notes = notes, !.wires = v.wires \cup sealed]
  <2> DEFINE open == v.open \ outside
             notes == Notes(v.notes, open, v.exports)
  <2>1. \/ Only(v, allow) = [v EXCEPT !.gates = gates] /\ outside = {}
        \/ Only(v, allow) = [v EXCEPT !.open = open, !.gates = gates, !.notes = notes, !.wires = v.wires \cup sealed]
    BY <1>1, Zenon DEF Only
  <2>2. open = v.open \ outside /\ notes = Notes(v.notes, open, v.exports)
    OBVIOUS
  <2> HIDE DEF open, notes
  <2> QED
    BY <2>1, <2>2, Zenon
<1>2. {"open", "exports", "wires", "insts", "notes", "gates", "meant"} \subseteq DOMAIN v
  BY DEF Grounded
<1>3. /\ u.insts = v.insts /\ u.exports = v.exports /\ u.meant = v.meant /\ u.gates = v.gates \cup {gate}
      /\ u.open = v.open \ outside /\ (u.notes = v.notes \/ u.notes = notes)
      /\ \A w \in u.wires : w \in v.wires \/ w.by = NoProvider
  <2>1. CASE u = [v EXCEPT !.gates = gates] /\ outside = {}
    BY <1>1, <1>2, <2>1
  <2>2. CASE u = [v EXCEPT !.open = open, !.gates = gates, !.notes = notes, !.wires = v.wires \cup sealed]
    <3>1. /\ u.insts = v.insts /\ u.exports = v.exports /\ u.meant = v.meant /\ u.gates = gates
          /\ u.open = open /\ u.notes = notes /\ u.wires = v.wires \cup sealed
      BY <1>2, <2>2
    <3> QED
      BY <1>1, <3>1
  <2> QED
    BY <2>1, <2>2
<1>4. gate.insts = v.insts /\ gate.allow = allow
  BY <1>1
<1>5. \A g \in u.gates : g.insts \subseteq u.insts
  BY <1>3, <1>4 DEF Gated
<1>6. ASSUME Unambiguous(u) PROVE Named(u) /\ GatesShut(u)
  <2>1. Unambiguous(v)
    BY <1>3, <1>6 DEF Unambiguous
  <2>2. Named(v) /\ GatesShut(v)
    BY <2>1 DEF Gated
  <2>3. Named(u)
    <3>1. \A n \in u.notes : \E m \in v.notes : n.slot = m.slot /\ n.id = m.id
      BY <1>3, NotesKept
    <3>2. Annotated(u)
      BY <1>3, <2>2, <3>1 DEF Named, Annotated
    <3> QED
      BY <1>3, <2>2, <3>2 DEF Named
  <2>4. ASSUME NEW o \in u.open PROVE Admitted(o.port, allow)
    <3>1. PICK id : id = IdOf(v, "import", o.name)
      OBVIOUS
    <3>2. o \in v.open /\ Admitted(id, allow)
      BY <1>1, <1>3, <3>1 DEF Outside
    <3>3. id.iface = o.port.iface /\ Known(id)
      BY <2>1, <2>2, <3>1, <3>2, IdMeans, UnnamedRefused DEF Named
    <3>4. PICK x \in Ports : id.iface = x.iface /\ id.ver = x.ver
      BY <3>3 DEF Known
    <3>5. Admitted(x, allow)
      BY <3>2, <3>4 DEF Admitted
    <3>6. o.port \in Imports
      BY <2>2, <3>2 DEF Named
    <3> QED
      BY <3>3, <3>4, <3>5, <3>6 DEF JudgedByInterface
  <2>5. GatesShut(u)
    <3> SUFFICES ASSUME NEW g \in u.gates
                 PROVE  /\ \A o \in u.open : o.inst \in g.insts => Admitted(o.port, g.allow)
                        /\ \A w \in u.wires : w.inst \in g.insts /\ w.by \notin g.insts \cup {NoProvider}
                              => Admitted(w.port, g.allow)
      BY DEF GatesShut
    <3>1. CASE g = gate
      <4>1. \A w \in u.wires : w.by \in g.insts \cup {NoProvider}
        BY <1>3, <1>4, <3>1 DEF Grounded
      <4> QED
        BY <1>4, <2>4, <3>1, <4>1
    <3>2. CASE g \in v.gates
      BY <1>3, <2>2, <3>2 DEF GatesShut
    <3> QED
      BY <1>3, <3>1, <3>2
  <2> QED
    BY <2>3, <2>5
<1> QED
  BY <1>5, <1>6 DEF Gated

\* `rename` carries the id of a name to the name it becomes.
LEMMA RenameGated ==
    ASSUME NEW v, NEW from, NEW to, Grounded(v), Gated(v), Rename(v, from, to) # Failed
    PROVE  Gated(Rename(v, from, to))
<1> DEFINE sides == {side \in {"import", "export"} : \E n \in ExternNames(v, side) : n.slot = from}
           IdAt(side) == IdOf(v, side, CHOOSE n \in ExternNames(v, side) : n.slot = from)
<1> PICK u, open, exports, meant, notes :
        /\ u = Rename(v, from, to)
        /\ u = [v EXCEPT !.open = open, !.exports = exports, !.meant = meant, !.notes = notes]
        /\ open = {[o EXCEPT !.name = Relabelled(v, "import", from, to, @)] : o \in v.open}
        /\ exports = {[e EXCEPT !.name = Relabelled(v, "export", from, to, @)] : e \in v.exports}
        /\ meant = v.meant \cup {<<to, o.port.iface>> : o \in {q \in v.open : q.name.slot = from}}
                     \cup {<<to, e.iface>> : e \in {f \in v.exports : f.name.slot = from}}
        /\ notes = {n \in v.notes : n.slot # from} \cup
             {n \in {[side |-> side, slot |-> to, id |-> IdAt(side)] : side \in sides} :
                Plain(to) /\ n.id # NoId}
  BY Zenon DEF Rename
<1>1. \A side \in sides : Relabelable(v, side, from, to)
  BY Zenon DEF Rename
<1>2. {"open", "exports", "wires", "insts", "notes", "gates", "meant"} \subseteq DOMAIN v
  BY DEF Grounded
<1>3. /\ u.insts = v.insts /\ u.wires = v.wires /\ u.gates = v.gates
      /\ u.open = open /\ u.exports = exports /\ u.meant = meant /\ u.notes = notes
  BY <1>2
<1>4. \A g \in u.gates : g.insts \subseteq u.insts
  BY <1>3 DEF Gated
<1>5. ASSUME Unambiguous(u) PROVE Named(u) /\ GatesShut(u)
  <2>1. v.meant \subseteq meant
    OBVIOUS
  <2>2. Unambiguous(v)
    BY <1>3, <1>5, <2>1 DEF Unambiguous
  <2>3. Named(v) /\ GatesShut(v)
    BY <2>2 DEF Gated
  <2>4. ASSUME NEW side \in {"import", "export"}, NEW name \in ExternNames(v, side), NEW iface,
               Means(v.meant, name, iface), name.slot = from => <<to, iface>> \in meant
        PROVE  Means(meant, Relabelled(v, side, from, to, name), iface)
    <3>1. CASE name.slot # from
      BY <2>1, <2>4, <3>1 DEF Relabelled, Means
    <3>2. CASE name.slot = from /\ Plain(to)
      BY <2>4, <3>2 DEF Relabelled, Means
    <3>3. CASE name.slot = from /\ ~Plain(to)
      <4>1. PICK id : id = IdOf(v, side, name)
        OBVIOUS
      <4>2. id.iface = to
        BY <1>1, <3>3, <4>1 DEF Relabelable
      <4>3. id # NoId
        BY <3>3, <4>2, NamesAssumption DEF NoId
      <4>4. id.iface = iface /\ Known(id)
        <5>1. Annotated(v) /\ Means(v.meant, name, iface)
          BY <2>3, <2>4 DEF Named
        <5>2. IdOf(v, side, name) = NoId \/ (IdOf(v, side, name).iface = iface /\ Known(IdOf(v, side, name)))
          BY <2>2, <5>1, IdMeans, Zenon
        <5>3. id = NoId \/ (id.iface = iface /\ Known(id))
          BY <4>1, <5>2, Zenon
        <5> QED
          BY <4>3, <5>3, Zenon
      <4>5. PICK m : m = Relabelled(v, side, from, to, name)
        OBVIOUS
      <4>6. m = [slot |-> to, ver |-> id.ver]
        BY <3>3, <4>1, <4>5 DEF Relabelled
      <4>7. m.slot = to /\ [iface |-> m.slot, ver |-> m.ver] = [iface |-> to, ver |-> id.ver]
        BY <4>6
      <4>8. Known([iface |-> to, ver |-> id.ver])
        BY <4>2, <4>4 DEF Known
      <4>9. Means(meant, m, iface)
        BY <3>3, <4>2, <4>4, <4>7, <4>8 DEF Means
      <4> QED
        BY <4>5, <4>9
    <3> QED
      BY <3>1, <3>2, <3>3
  <2>5. ASSUME NEW q \in open
        PROVE  \E o \in v.open : q.inst = o.inst /\ q.port = o.port /\ "port" \in DOMAIN q
                                 /\ q.name = Relabelled(v, "import", from, to, o.name)
    <3>1. PICK o \in v.open : q = [o EXCEPT !.name = Relabelled(v, "import", from, to, o.name)]
      OBVIOUS
    <3>2. {"inst", "name", "port"} \subseteq DOMAIN o
      BY <2>3 DEF Grounded, Named
    <3> QED
      BY <3>1, <3>2
  <2>6. ASSUME NEW f \in exports
        PROVE  \E e \in v.exports : f.iface = e.iface /\ "iface" \in DOMAIN f
                                    /\ f.name = Relabelled(v, "export", from, to, e.name)
    <3>1. PICK e \in v.exports : f = [e EXCEPT !.name = Relabelled(v, "export", from, to, e.name)]
      OBVIOUS
    <3>2. {"iface", "name"} \subseteq DOMAIN e
      BY <2>3 DEF Grounded, Named
    <3> QED
      BY <3>1, <3>2
  <2>7. /\ \A o \in v.open : /\ o.name \in ExternNames(v, "import") /\ Means(v.meant, o.name, o.port.iface)
                             /\ o.name.slot = from => <<to, o.port.iface>> \in meant
        /\ \A e \in v.exports : /\ e.name \in ExternNames(v, "export") /\ Means(v.meant, e.name, e.iface)
                                /\ e.name.slot = from => <<to, e.iface>> \in meant
    BY <2>3 DEF Named, ExternNames
  <2>8. /\ \A q \in open : Means(meant, q.name, q.port.iface) /\ "port" \in DOMAIN q /\ q.port \in Imports
        /\ \A f \in exports : Means(meant, f.name, f.iface) /\ "iface" \in DOMAIN f
    <3>1. ASSUME NEW q \in open
          PROVE  Means(meant, q.name, q.port.iface) /\ "port" \in DOMAIN q /\ q.port \in Imports
      <4>1. PICK o \in v.open : q.port = o.port /\ "port" \in DOMAIN q
                                /\ q.name = Relabelled(v, "import", from, to, o.name)
        BY <2>5
      <4>2. Means(meant, Relabelled(v, "import", from, to, o.name), o.port.iface)
        BY <2>4, <2>7, Zenon
      <4>3. o.port \in Imports
        BY <2>3 DEF Named
      <4> QED
        BY <4>1, <4>2, <4>3
    <3>2. ASSUME NEW f \in exports PROVE Means(meant, f.name, f.iface) /\ "iface" \in DOMAIN f
      <4>1. PICK e \in v.exports : f.iface = e.iface /\ "iface" \in DOMAIN f
                                   /\ f.name = Relabelled(v, "export", from, to, e.name)
        BY <2>6
      <4>2. Means(meant, Relabelled(v, "export", from, to, e.name), e.iface)
        BY <2>4, <2>7, Zenon
      <4> QED
        BY <4>1, <4>2
    <3> QED
      BY <3>1, <3>2
  <2>9. ASSUME NEW n \in notes PROVE <<n.slot, n.id.iface>> \in meant /\ Known(n.id)
    <3>1. CASE n \in v.notes
      BY <2>1, <2>3, <3>1 DEF Named, Annotated
    <3>2. CASE n \notin v.notes
      <4>1. PICK side \in sides : n = [side |-> side, slot |-> to, id |-> IdAt(side)] /\ n.id # NoId
        BY <3>2
      <4>2. PICK name \in ExternNames(v, side) : name.slot = from /\ n.id = IdOf(v, side, name)
        <5>1. PICK name : name = CHOOSE x \in ExternNames(v, side) : x.slot = from
          OBVIOUS
        <5>2. \E x \in ExternNames(v, side) : x.slot = from
          BY <4>1
        <5>3. name \in ExternNames(v, side) /\ name.slot = from
          BY <5>1, <5>2, Zenon
        <5>4. n.id = IdOf(v, side, name)
          BY <4>1, <5>1
        <5> QED
          BY <5>3, <5>4
      <4>3. PICK iface : Means(v.meant, name, iface) /\ <<to, iface>> \in meant
        <5>1. CASE side = "import"
          <6>1. PICK o \in v.open : name = o.name
            BY <4>2, <5>1 DEF ExternNames
          <6> QED
            BY <2>7, <4>2, <6>1
        <5>2. CASE side = "export"
          <6>1. PICK e \in v.exports : name = e.name
            BY <4>2, <5>2 DEF ExternNames
          <6> QED
            BY <2>7, <4>2, <6>1
        <5> QED
          BY <5>1, <5>2
      <4>4. n.id.iface = iface /\ Known(n.id)
        <5>1. Annotated(v)
          BY <2>3 DEF Named
        <5>2. IdOf(v, side, name) = NoId \/ (IdOf(v, side, name).iface = iface /\ Known(IdOf(v, side, name)))
          BY <2>2, <4>3, <5>1, IdMeans, Zenon
        <5>3. n.id = NoId \/ (n.id.iface = iface /\ Known(n.id))
          BY <4>2, <5>2, Zenon
        <5> QED
          BY <4>1, <5>3, Zenon
      <4> QED
        BY <4>1, <4>3, <4>4
    <3> QED
      BY <3>1, <3>2
  <2>10. Named(u)
    BY <1>3, <2>8, <2>9 DEF Named, Annotated
  <2>11. GatesShut(u)
    BY <1>3, <2>3, <2>5 DEF GatesShut
  <2> QED
    BY <2>10, <2>11
<1> QED
  BY <1>4, <1>5 DEF Gated

\* Configuration opens nothing and wires nothing.
LEMMA ConfigureGated ==
    ASSUME NEW v, Grounded(v), Gated(v), Configure(v) # Failed
    PROVE  Gated(Configure(v))
<1> PICK u, binds, baked, exports, notes :
        /\ u = Configure(v)
        /\ u = [v EXCEPT !.exports = exports, !.binds = binds, !.baked = baked, !.notes = notes]
        /\ exports \subseteq v.exports /\ notes = Notes(v.notes, v.open, exports)
  <2> DEFINE configs == {e \in v.exports : Flavor(IdOf(v, "export", e.name).iface) = "config"}
             by == (CHOOSE e \in configs : TRUE).by
             exports == v.exports \ configs
             notes == Notes(v.notes, v.open, v.exports \ configs)
  <2>1. Configure(v) = [v EXCEPT !.exports = exports, !.binds = <<by>>, !.baked = v.baked \cup {by}, !.notes = notes]
    BY DEF Configure
  <2>2. exports \subseteq v.exports /\ notes = Notes(v.notes, v.open, exports)
    OBVIOUS
  <2> HIDE DEF by, exports, notes
  <2> QED
    BY <2>1, <2>2, Zenon
<1>1. {"open", "exports", "wires", "binds", "baked", "insts", "notes", "gates", "meant"} \subseteq DOMAIN v
  BY DEF Grounded
<1>2. /\ u.insts = v.insts /\ u.wires = v.wires /\ u.gates = v.gates /\ u.open = v.open
      /\ u.meant = v.meant /\ u.exports = exports /\ u.notes = notes
  BY <1>1
<1>3. ASSUME Unambiguous(u) PROVE Named(u) /\ GatesShut(u)
  <2>1. Named(v) /\ GatesShut(v)
    BY <1>2, <1>3 DEF Gated, Unambiguous
  <2>2. \A n \in notes : \E m \in v.notes : n.slot = m.slot /\ n.id = m.id
    BY NotesKept
  <2>3. Annotated(u)
    BY <1>2, <2>1, <2>2 DEF Named, Annotated
  <2>4. Named(u)
    BY <1>2, <2>1, <2>3 DEF Named
  <2>5. GatesShut(u)
    BY <1>2, <2>1 DEF GatesShut
  <2> QED
    BY <2>4, <2>5
<1> QED
  BY <1>2, <1>3 DEF Gated

\* `with` renames and composes.
LEMMA WithGated ==
    ASSUME NEW body, NEW p, NEW slot, Grounded(body), Grounded(p), p.insts \cap body.insts = {},
           Gated(body), Gated(p), WithAs(body, p, slot) # Failed
    PROVE  Gated(WithAs(body, p, slot))
<1>1. PICK bound : /\ bound = p \/ \E from : bound = Rename(p, from, slot) /\ bound # Failed
                   /\ WithAs(body, p, slot) = Compose(bound, body)
  BY DEF WithAs
<1>2. Grounded(bound) /\ bound.insts = p.insts /\ Gated(bound)
  BY <1>1, RenameGrounded, RenameGated
<1> QED
  BY <1>1, <1>2, ComposeGated

GatedOperands == terms = <<Failed>> \/ \A k \in 1..Len(terms) : Gated(terms[k])

\* A value in the place of the n last operands.
LEMMA YieldsGated ==
    ASSUME Sequential(terms), GatedOperands, NEW n \in 0..2, Arity(n), NEW v, Yields(n, v),
           v # Failed => Gated(v)
    PROVE  GatedOperands'
<1>1. PICK T : terms \in Seq(T)
  BY DEF Sequential
<1>2. \A k \in 1..Len(terms) : Gated(terms[k])
  BY DEF GatedOperands, Arity
<1>3. CASE v = Failed
  BY <1>3 DEF Yields, GatedOperands
<1>4. CASE v # Failed
  <2> DEFINE kept == SubSeq(terms, 1, Len(terms) - n)
  <2>1. Len(terms) - n \in 0..Len(terms)
    BY <1>1 DEF Arity
  <2>2. kept \in Seq(T) /\ Len(kept) = Len(terms) - n /\ \A k \in 1..Len(kept) : kept[k] = terms[k]
    BY <1>1, <2>1
  <2>3. terms' = Append(kept, v)
    BY <1>4 DEF Yields
  <2> HIDE DEF kept
  <2>4. /\ Len(terms') = Len(kept) + 1
        /\ \A k \in 1..Len(kept) : terms'[k] = kept[k]
        /\ terms'[Len(kept) + 1] = v
    BY <2>2, <2>3
  <2>5. ASSUME NEW k \in 1..Len(terms') PROVE Gated(terms'[k])
    <3>1. CASE k \in 1..Len(kept)
      <4>1. k \in 1..Len(terms) /\ terms'[k] = terms[k]
        BY <1>1, <2>1, <2>2, <2>4, <3>1
      <4> QED
        BY <1>2, <4>1
    <3>2. CASE k = Len(kept) + 1
      BY <1>4, <2>4, <3>2
    <3> QED
      BY <2>2, <2>4, <2>5, <3>1, <3>2
  <2> QED
    BY <2>5 DEF GatedOperands
<1> QED
  BY <1>3, <1>4

\* The operands an operation takes hold their gates.
LEMMA OperandGated ==
    ASSUME Sequential(terms), GatedOperands, NEW n \in 1..2, Arity(n), NEW k \in 0..(n - 1)
    PROVE  Gated(Operand(k))
<1>1. PICK T : terms \in Seq(T)
  BY DEF Sequential
<1>2. Len(terms) - k \in 1..Len(terms)
  BY <1>1 DEF Arity
<1> QED
  BY <1>2 DEF GatedOperands, Arity, Operand

\* A program's slots stand for what it declares them to.
LEMMA NameGated ==
    ASSUME Sequential(terms), GatedOperands, NEW name \in DOMAIN Library, EvalName(name)
    PROVE  GatedOperands'
<1> DEFINE i == <<name, loaded>>
           NameOf(x) == [slot |-> x.slot, ver |-> IF Plain(x.slot) THEN Unversioned ELSE x.ver]
           Annotations(side, xs) ==
               {[side |-> side, slot |-> x.slot, id |-> [iface |-> x.iface, ver |-> x.ver]] :
                   x \in {y \in xs : Plain(y.slot)}}
           open == {[inst |-> i, port |-> x, name |-> NameOf(x)] : x \in Library[name].imports}
           exports == {[name |-> NameOf(x), iface |-> x.iface, by |-> i] : x \in Library[name].exports}
           meant == {<<x.slot, x.iface>> : x \in Library[name].imports \cup Library[name].exports}
           notes == Annotations("import", Library[name].imports) \cup Annotations("export", Library[name].exports)
           v == [kind |-> Library[name].kind, insts |-> {i}, open |-> open, exports |-> exports,
                 wires |-> {}, binds |-> <<>>, baked |-> {}, gates |-> {}, meant |-> meant, notes |-> notes]
<1>1. Arity(0) /\ Yields(0, v)
  BY DEF EvalName
<1>2. /\ Library[name].imports \subseteq Imports
      /\ \A x \in Library[name].imports \cup Library[name].exports :
            x \in Ports /\ (Plain(x.slot) \/ x.slot = x.iface) /\ <<x.slot, x.iface>> \in meant
  BY NamesAssumption DEF Ports, Imports
<1>3. ASSUME NEW x \in Library[name].imports \cup Library[name].exports
      PROVE  Known([iface |-> x.iface, ver |-> x.ver]) /\ Means(meant, NameOf(x), x.iface)
  <2>1. Known([iface |-> x.iface, ver |-> x.ver])
    BY <1>2 DEF Known
  <2>2. PICK m : m = NameOf(x)
    OBVIOUS
  <2>3. m.slot = x.slot /\ (~Plain(x.slot) => m.ver = x.ver)
    BY <2>2
  <2> HIDE DEF meant, NameOf
  <2>4. Means(meant, m, x.iface)
    BY <1>2, <2>1, <2>3 DEF Means
  <2> QED
    BY <2>1, <2>2, <2>4
<1>4. ASSUME NEW o \in open PROVE "port" \in DOMAIN o /\ o.port \in Imports /\ Means(meant, o.name, o.port.iface)
  <2>1. PICK x \in Library[name].imports : o = [inst |-> i, port |-> x, name |-> NameOf(x)]
    OBVIOUS
  <2> HIDE DEF meant, NameOf
  <2> QED
    BY <1>2, <1>3, <2>1
<1>5. ASSUME NEW e \in exports PROVE "iface" \in DOMAIN e /\ Means(meant, e.name, e.iface)
  <2>1. PICK x \in Library[name].exports : e = [name |-> NameOf(x), iface |-> x.iface, by |-> i]
    OBVIOUS
  <2> HIDE DEF meant, NameOf
  <2> QED
    BY <1>3, <2>1
<1>6. ASSUME NEW n \in notes PROVE <<n.slot, n.id.iface>> \in meant /\ Known(n.id)
  <2>1. PICK x \in Library[name].imports \cup Library[name].exports :
           n.slot = x.slot /\ n.id = [iface |-> x.iface, ver |-> x.ver]
    OBVIOUS
  <2>2. n.id.iface = x.iface
    BY <2>1
  <2> HIDE DEF meant, notes
  <2>3. Known(n.id)
    BY <1>3, <2>1
  <2>4. <<x.slot, x.iface>> \in meant
    BY <1>2
  <2> QED
    BY <2>1, <2>2, <2>3, <2>4, Zenon
<1> HIDE DEF open, exports, meant, notes, i
<1>7. v.gates = {} /\ v.open = open /\ v.exports = exports /\ v.meant = meant /\ v.notes = notes
  OBVIOUS
<1> HIDE DEF v
<1>8. Gated(v)
  BY <1>4, <1>5, <1>6, <1>7 DEF Gated, Named, Annotated, GatesShut
<1> QED
  BY <1>1, <1>8, YieldsGated

\* Every step of the evaluation keeps the gates of all operands.
LEMMA GatedStep ==
    ASSUME JudgedByInterface, OperandsGrounded, GatedOperands, [AlgNext]_algVars
    PROVE  GatedOperands'
<1>1. Sequential(terms)
  BY DEF OperandsGrounded
<1>2. ASSUME NEW name \in DOMAIN Library, EvalName(name) PROVE GatedOperands'
  BY <1>1, <1>2, NameGated
<1>3. ASSUME EvalCompose PROVE GatedOperands'
  <2>1. PICK v : v = Compose(Operand(1), Operand(0)) /\ Arity(2) /\ Yields(2, v)
    BY <1>3 DEF EvalCompose
  <2>2. Gated(Operand(0)) /\ Gated(Operand(1))
    BY <1>1, <2>1, OperandGated
  <2>3. v # Failed => Gated(v)
    BY <2>1, <2>2, TwoOperands, ComposeGated
  <2> QED
    BY <1>1, <2>1, <2>3, YieldsGated
<1>4. ASSUME EvalExtend PROVE GatedOperands'
  <2>1. PICK v : v = Extend(Operand(1), Operand(0)) /\ Arity(2) /\ Yields(2, v)
    BY <1>4 DEF EvalExtend
  <2>2. Gated(Operand(0)) /\ Gated(Operand(1))
    BY <1>1, <2>1, OperandGated
  <2>3. v # Failed => Gated(v)
    BY <2>1, <2>2, TwoOperands, ExtendGated
  <2> QED
    BY <1>1, <2>1, <2>3, YieldsGated
<1>5. ASSUME EvalConfigure PROVE GatedOperands'
  <2>1. PICK v : v = Configure(Operand(0)) /\ Arity(1) /\ Yields(1, v)
    BY <1>5 DEF EvalConfigure, EvalForm
  <2>2. Gated(Operand(0))
    BY <1>1, <2>1, OperandGated
  <2>3. v # Failed => Gated(v)
    BY <2>1, <2>2, OneOperand, ConfigureGated
  <2> QED
    BY <1>1, <2>1, <2>3, YieldsGated
<1>6. ASSUME NEW allow \in AllowLists, EvalOnly(allow) PROVE GatedOperands'
  <2>1. PICK v : v = Only(Operand(0), allow) /\ Arity(1) /\ Yields(1, v)
    BY <1>6 DEF EvalOnly, EvalForm
  <2>2. Gated(Operand(0))
    BY <1>1, <2>1, OperandGated
  <2>3. v # Failed => Gated(v)
    BY <2>1, <2>2, OneOperand, OnlyGated
  <2> QED
    BY <1>1, <2>1, <2>3, YieldsGated
<1>7. ASSUME NEW r \in Relabels, EvalRename(r[1], r[2]) PROVE GatedOperands'
  <2>1. PICK v : v = Rename(Operand(0), r[1], r[2]) /\ Arity(1) /\ Yields(1, v)
    BY <1>7 DEF EvalRename, EvalForm
  <2>2. Gated(Operand(0))
    BY <1>1, <2>1, OperandGated
  <2>3. v # Failed => Gated(v)
    BY <2>1, <2>2, OneOperand, RenameGated
  <2> QED
    BY <1>1, <2>1, <2>3, YieldsGated
<1>8. ASSUME NEW slot \in WithSlots, EvalWith(slot) PROVE GatedOperands'
  <2>1. PICK v : v = WithAs(Operand(1), Operand(0), slot) /\ Arity(2) /\ Yields(2, v)
    BY <1>8 DEF EvalWith
  <2>2. Gated(Operand(0)) /\ Gated(Operand(1))
    BY <1>1, <2>1, OperandGated
  <2>3. v # Failed => Gated(v)
    BY <2>1, <2>2, TwoOperands, WithGated
  <2> QED
    BY <1>1, <2>1, <2>3, YieldsGated
<1>9. ASSUME UNCHANGED algVars PROVE GatedOperands'
  BY <1>9 DEF GatedOperands, algVars
<1> QED
  BY <1>2, <1>3, <1>4, <1>5, <1>6, <1>7, <1>8, <1>9 DEF AlgNext

\* "imports(only w $ c) is within w" for good: whatever is composed, renamed or
\* bound in and around a gate, what is inside is served from outside only
\* through what the gate admits.
THEOREM GatesHoldAlways == ASSUME JudgedByInterface PROVE AlgSpec => []GatesHold
<1>1. AlgInit => OperandsGrounded /\ GatedOperands
  <2>1. <<>> \in Seq({}) /\ Len(<<>>) = 0
    OBVIOUS
  <2> QED
    BY <2>1 DEF AlgInit, OperandsGrounded, GatedOperands, Sequential
<1>2. OperandsGrounded /\ GatedOperands /\ [AlgNext]_algVars => (OperandsGrounded /\ GatedOperands)'
  BY GroundedStep, GatedStep
<1>3. OperandsGrounded /\ GatedOperands => GatesHold
  <2> SUFFICES ASSUME OperandsGrounded, GatedOperands, NEW k \in DOMAIN terms, terms[k] # Failed,
                      Unambiguous(terms[k])
               PROVE  GatesShut(terms[k])
    BY DEF GatesHold, Values, Unambiguous, GatesShut
  <2>1. DOMAIN terms = 1..Len(terms)
    BY DEF OperandsGrounded, Sequential
  <2>2. terms # <<Failed>>
    <3>1. DOMAIN <<Failed>> = {1} /\ <<Failed>>[1] = Failed
      OBVIOUS
    <3> QED
      BY <3>1
  <2>3. Gated(terms[k])
    BY <2>1, <2>2 DEF GatedOperands
  <2> QED
    BY <2>3 DEF Gated
<1> QED
  BY <1>1, <1>2, <1>3, PTL DEF AlgSpec
=============================================================================
