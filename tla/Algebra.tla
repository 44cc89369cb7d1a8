------------------------------ MODULE Algebra ------------------------------
(***************************************************************************)
(* The component algebra (eo9-component) as the shell's evaluator applies  *)
(* it (eosh-core/eval.rs): composition $, extension &, only, rename,       *)
(* with, and configure. A component is modelled by what wiring decides:    *)
(* who serves each import of each instance in it, which imports are open   *)
(* and under which name, what it exports, and whose configuration its      *)
(* entrypoint applies, in which order. Interfaces without functions carry  *)
(* no authority and are left out.                                          *)
(***************************************************************************)
EXTENDS Naturals, Sequences, FiniteSets

CONSTANTS Library,      \* program -> its kind, imports and exports
          Interfaces,   \* interface -> its package, its flavor and the API it is a flavor of
          AllowLists,   \* the allow-lists `only` is used with
          Relabels,     \* the <<from, to>> `rename` is used with
          WithSlots,    \* the slots `with` is used with
          Failed,       \* what an expression that is refused gives
          Unnamed,      \* the interface of a plain-named slot without its annotation
          NoProvider,   \* the absent provider `only` synthesizes
          MaxParts      \* bound: programs and prefix forms of an expression

VARIABLES terms,    \* the values of the operands evaluated so far
          loaded,   \* the programs loaded
          forms     \* the prefix forms applied

algVars == <<terms, loaded, forms>>

\* Wiring and rename take the first slot of a name; here a name is that of one
\* slot: a program exports each slot once, and an interface is imported at one
\* version.
ASSUME LibraryAssumption ==
    \A a, b \in DOMAIN Library :
        /\ \A x, y \in Library[a].exports : x.slot = y.slot => x = y
        /\ \A x \in Library[a].imports, y \in Library[b].imports :
              x.iface = y.iface => x.ver = y.ver

\* A slot's name in the binary is [slot, ver], and its id is the [iface, ver]
\* that describe reports. The name of a default slot is its interface's; a
\* plain name carries no version, and its id is an annotation.
Plain(slot) == slot \notin DOMAIN Interfaces

\* A default slot is named after its interface, and no interface is Unnamed.
ASSUME NamesAssumption ==
    /\ Plain(Unnamed)
    /\ \A a \in DOMAIN Library : \A x \in Library[a].imports \cup Library[a].exports :
          Plain(x.slot) \/ x.slot = x.iface
Unversioned == <<>>
NoId == [iface |-> Unnamed, ver |-> Unversioned]
ExternNames(v, side) ==
    IF side = "import" THEN {o.name : o \in v.open} ELSE {e.name : e \in v.exports}
IdOf(v, side, name) ==
    LET noted == {n \in v.notes : n.side = side /\ n.slot = name.slot} IN
    IF ~Plain(name.slot) THEN [iface |-> name.slot, ver |-> name.ver]
    ELSE IF noted = {} THEN NoId ELSE (CHOOSE n \in noted : TRUE).id
SlotIds(v, side) == {IdOf(v, side, name) : name \in ExternNames(v, side)}

Flavor(iface) == IF iface = Unnamed THEN "api" ELSE Interfaces[iface].flavor
IsFlavor(iface, flavor, api) == Flavor(iface) = flavor /\ Interfaces[iface].api = api
-----------------------------------------------------------------------------
\* semver::satisfies. A version is <<major, minor, patch>>, longer with a
\* pre-release or build suffix.
Satisfies(p, r) ==
    \/ r = Unversioned \/ p = r
    \/ /\ Len(p) = 3 /\ Len(r) = 3 /\ p[1] = r[1]
       /\ IF p[1] > 0 THEN p[2] > r[2] \/ (p[2] = r[2] /\ p[3] >= r[3])
          ELSE r[2] > 0 /\ p[2] = r[2] /\ p[3] >= r[3]

Matches(e, o) == e.name.slot = o.name.slot /\ Satisfies(e.name.ver, o.name.ver)
Serves(p, o) == \E e \in p.exports : Matches(e, o)

\* slot_annotations and attach_implements: a plain-named slot of the result,
\* import or export, is given the id that all operands agree on for its name.
Notes(notes, open, exports) ==
    LET agreed == {n \in notes : \A k \in notes : k.slot = n.slot => k.id = n.id}
        On(side, slots) == {[side |-> side, slot |-> n.slot, id |-> n.id] :
                               n \in {m \in agreed : m.slot \in slots}} IN
    On("import", {o.name.slot : o \in open}) \cup On("export", {e.name.slot : e \in exports})

\* Variant: the consumer's configuration is applied first.
Binds_ConsumerFirst(p, c) == c.binds \o p.binds

\* propagate_binds: the entrypoint runs the provider's configuration first.
Binds(p, c) == p.binds \o c.binds

\* wire_matching_imports: p's exports serve the imports of c that they match,
NewWires(p, c) ==
    {[inst |-> m[1].inst, port |-> m[1].port, by |-> m[2].by] :
        m \in {n \in c.open \X p.exports : Matches(n[2], n[1])}}

\* and the other imports of both stay open.
Wired(p, c, exports) ==
    LET open == p.open \cup {o \in c.open : ~Serves(p, o)} IN
    [kind |-> c.kind, insts |-> p.insts \cup c.insts, open |-> open, exports |-> exports,
     wires |-> p.wires \cup c.wires \cup NewWires(p, c),
     binds |-> Binds(p, c), baked |-> p.baked \cup c.baked,
     gates |-> p.gates \cup c.gates, meant |-> p.meant \cup c.meant,
     notes |-> Notes(p.notes \cup c.notes, open, exports)]

\* wac checks the type of what it wires, and of the imports it merges under one name.
Typed(p, c) ==
    /\ \A o \in c.open, e \in p.exports : Matches(e, o) => e.iface = o.port.iface
    /\ \A o \in c.open, q \in p.open :
          ~Serves(p, o) /\ o.name = q.name => o.port.iface = q.port.iface

\* unconfigured_provider_for: p has only the configuration interface of an
\* API that c requires.
Unconfigured(p, c) ==
    \E i \in {id.iface : id \in SlotIds(c, "import")} \ {Unnamed} :
        /\ Flavor(i) # "optional"
        /\ \E id \in SlotIds(p, "export") : IsFlavor(id.iface, "config", i)
        /\ \A id \in SlotIds(p, "export") : id.iface # i

Compose(p, c) ==
    IF p.kind = "provider" /\ Typed(p, c) /\ (Unconfigured(p, c) => \E o \in c.open : Serves(p, o))
    THEN Wired(p, c, c.exports) ELSE Failed

\* Variant: only an export of the same version is hidden.
Shown_ByVersion(base, layer) ==
    {e \in base.exports : \A f \in layer.exports : f.name # e.name}

\* An export of the layer hides the base's export of the same slot.
Shown(base, layer) ==
    {e \in base.exports : \A f \in layer.exports : f.name.slot # e.name.slot}

Extend(x, y) ==
    IF x.kind = "provider" /\ y.kind = "provider" /\ Typed(x, y)
    THEN Wired(x, y, y.exports \cup Shown(x, y)) ELSE Failed

\* An entry of an allow-list names an interface, either flavor of it, or a package.
Admitted(id, allow) ==
    \/ Flavor(id.iface) = "diagnostics"
    \/ \E entry \in allow :
          /\ IF Plain(entry.name)
             THEN id.iface # Unnamed /\ Interfaces[id.iface].package = entry.name
             ELSE id.iface = entry.name \/ IsFlavor(id.iface, "optional", entry.name)
          /\ entry.ver = Unversioned \/ Satisfies(entry.ver, id.ver)

\* The imports an allow-list leaves out, and whether they can be done without:
\* a required one cannot, and an absent provider must be of the import's type.
Outside(v, allow) == {o \in v.open : ~Admitted(IdOf(v, "import", o.name), allow)}
Sealable(v, o) ==
    LET iface == IdOf(v, "import", o.name).iface IN
    Flavor(iface) = "optional" /\ iface = o.port.iface

\* Variant: an optional import outside the list is left as it is.
Only_LeavesOptional(v, allow) ==
    IF \A o \in Outside(v, allow) : Sealable(v, o)
    THEN [v EXCEPT !.gates = @ \cup {[insts |-> v.insts, allow |-> allow]}]
    ELSE Failed

\* restrict: an import outside the list is an error if it is required, and is
\* sealed as absent if it is optional.
Only(v, allow) ==
    LET outside == Outside(v, allow)
        open == v.open \ outside
        gates == v.gates \cup {[insts |-> v.insts, allow |-> allow]} IN
    IF \E o \in outside : ~Sealable(v, o) THEN Failed
    ELSE IF outside = {} THEN [v EXCEPT !.gates = gates]
    ELSE [v EXCEPT !.open = open, !.gates = gates, !.notes = Notes(@, open, v.exports),
             !.wires = @ \cup {[inst |-> o.inst, port |-> o.port, by |-> NoProvider] : o \in outside}]

\* plan_rewrite and the collision rule, of one side.
Relabelable(v, side, from, to) ==
    \A name \in ExternNames(v, side) : name.slot = from =>
        /\ Plain(to) \/ IdOf(v, side, name).iface = to
        /\ \A other \in ExternNames(v, side) : other.slot = to => other = name

Relabelled(v, side, from, to, name) ==
    IF name.slot # from THEN name
    ELSE [slot |-> to, ver |-> IF Plain(to) THEN Unversioned ELSE IdOf(v, side, name).ver]

Rename(v, from, to) ==
    LET sides == {side \in {"import", "export"} : \E n \in ExternNames(v, side) : n.slot = from}
        IdAt(side) == IdOf(v, side, CHOOSE n \in ExternNames(v, side) : n.slot = from) IN
    IF sides = {} \/ \E side \in sides : ~Relabelable(v, side, from, to) THEN Failed
    ELSE [v EXCEPT
        !.open = {[o EXCEPT !.name = Relabelled(v, "import", from, to, @)] : o \in @},
        !.exports = {[e EXCEPT !.name = Relabelled(v, "export", from, to, @)] : e \in @},
        !.meant = @ \cup {<<to, o.port.iface>> : o \in {q \in v.open : q.name.slot = from}}
                    \cup {<<to, e.iface>> : e \in {f \in v.exports : f.name.slot = from}},
        !.notes = {n \in @ : n.slot # from} \cup
            {n \in {[side |-> side, slot |-> to, id |-> IdAt(side)] : side \in sides} :
               Plain(to) /\ n.id # NoId}]

\* configure: the one configuration interface is sealed, and an entrypoint
\* added that applies it. A component that has an entrypoint cannot be given
\* another.
Configure(v) ==
    LET configs == {e \in v.exports : Flavor(IdOf(v, "export", e.name).iface) = "config"} IN
    IF v.kind = "provider" /\ Cardinality(configs) = 1 /\ v.exports # configs /\ v.binds = <<>>
    THEN LET by == (CHOOSE e \in configs : TRUE).by IN
         [v EXCEPT !.exports = @ \ configs, !.binds = <<by>>, !.baked = @ \cup {by},
                   !.notes = Notes(@, v.open, v.exports \ configs)]
    ELSE Failed

\* eval_with_provider and the composition after it: the provider has one
\* export, the entrypoint counted.
WithAs(body, p, slot) ==
    LET e == CHOOSE x \in p.exports : TRUE
        bound == IF e.name.slot = slot THEN p ELSE Rename(p, e.name.slot, slot) IN
    IF Cardinality(p.exports) # 1 \/ p.binds # <<>> \/ bound = Failed THEN Failed
    ELSE Compose(bound, body)
-----------------------------------------------------------------------------
AlgInit == terms = <<>> /\ loaded = 0 /\ forms = 0

\* A value takes the place of the n last operands; an error ends the evaluation.
Yields(n, v) ==
    terms' = IF v = Failed THEN <<Failed>> ELSE Append(SubSeq(terms, 1, Len(terms) - n), v)
Arity(n) == Len(terms) >= n /\ terms # <<Failed>>
Operand(n) == terms[Len(terms) - n]

\* lookup, Component::load: a program, as a new instance.
EvalName(name) ==
    LET inst == <<name, loaded>>
        NameOf(x) == [slot |-> x.slot, ver |-> IF Plain(x.slot) THEN Unversioned ELSE x.ver]
        Annotations(side, xs) ==
            {[side |-> side, slot |-> x.slot, id |-> [iface |-> x.iface, ver |-> x.ver]] :
                x \in {y \in xs : Plain(y.slot)}}
        imports == Library[name].imports
        exports == Library[name].exports IN
    /\ Arity(0) /\ loaded + forms < MaxParts
    /\ Yields(0, [kind |-> Library[name].kind, insts |-> {inst},
           open |-> {[inst |-> inst, port |-> x, name |-> NameOf(x)] : x \in imports},
           exports |-> {[name |-> NameOf(x), iface |-> x.iface, by |-> inst] : x \in exports},
           wires |-> {}, binds |-> <<>>, baked |-> {}, gates |-> {},
           meant |-> {<<x.slot, x.iface>> : x \in imports \cup exports},
           notes |-> Annotations("import", imports) \cup Annotations("export", exports)])
    /\ loaded' = loaded + 1 /\ UNCHANGED forms

EvalCompose == Arity(2) /\ Yields(2, Compose(Operand(1), Operand(0))) /\ UNCHANGED <<loaded, forms>>
EvalExtend == Arity(2) /\ Yields(2, Extend(Operand(1), Operand(0))) /\ UNCHANGED <<loaded, forms>>

\* The prefix forms, and the arguments of a provider.
EvalForm(v) == loaded + forms < MaxParts /\ Yields(1, v) /\ forms' = forms + 1 /\ UNCHANGED loaded
EvalOnly(allow) == Arity(1) /\ EvalForm(Only(Operand(0), allow))
EvalRename(from, to) == Arity(1) /\ EvalForm(Rename(Operand(0), from, to))
EvalConfigure == Arity(1) /\ Operand(0).kind = "provider" /\ EvalForm(Configure(Operand(0)))

\* The body is evaluated before the provider.
EvalWith(slot) ==
    /\ Arity(2) /\ loaded + forms < MaxParts /\ Yields(2, WithAs(Operand(1), Operand(0), slot))
    /\ forms' = forms + 1 /\ UNCHANGED loaded

AlgNext ==
    \/ \E name \in DOMAIN Library : EvalName(name)
    \/ EvalCompose \/ EvalExtend \/ EvalConfigure
    \/ \E allow \in AllowLists : EvalOnly(allow)
    \/ \E r \in Relabels : EvalRename(r[1], r[2])
    \/ \E slot \in WithSlots : EvalWith(slot)

AlgSpec == AlgInit /\ [][AlgNext]_algVars
-----------------------------------------------------------------------------
Values == {terms[k] : k \in DOMAIN terms} \ {Failed}

\* Every import of every instance is open under one name or served by one
\* instance: nothing is wired twice, and nothing gets lost.
AlgTypeOK ==
    /\ loaded + forms \in 0..MaxParts
    /\ \A v \in Values :
          /\ v.kind \in {"binary", "provider"} /\ v.binds \in Seq(v.insts) /\ v.baked \subseteq v.insts
          /\ \A inst \in v.insts : \A x \in Library[inst[1]].imports :
                LET here == {o \in v.open \cup v.wires : o.inst = inst /\ o.port = x} IN
                \E o \in here : here = {o}
          /\ {o.inst : o \in v.open \cup v.wires} \subseteq v.insts
          /\ {e.by : e \in v.exports} \subseteq v.insts
          /\ {w.by : w \in v.wires} \subseteq v.insts \cup {NoProvider}

\* What a component does at run time: who serves whom, what is open and
\* exported under which name, and whose configuration is applied, in order.
SameWiring(v, w) ==
    /\ v.kind = w.kind /\ v.open = w.open /\ v.exports = w.exports
    /\ v.wires = w.wires /\ v.binds = w.binds

\* Where y exports a slot of x, it serves what x serves of z.
Overrides(x, y, z) ==
    \A e \in x.exports, f \in y.exports, o \in z.open :
        e.name.slot = f.name.slot /\ Matches(e, o) => Matches(f, o)

Agree(v, w) == v # Failed /\ w # Failed => SameWiring(v, w)

\* (x & y) $ z and x $ y $ z, where both are accepted.
ActionLaw(x, y, z) ==
    Extend(x, y) # Failed /\ Compose(y, z) # Failed =>
        Agree(Compose(Extend(x, y), z), Compose(x, Compose(y, z)))

\* (x & y) & z and x & (y & z), where both are accepted.
Associative(x, y, z) ==
    Extend(x, y) # Failed /\ Extend(y, z) # Failed =>
        Agree(Extend(Extend(x, y), z), Extend(x, Extend(y, z)))

\* "(x & y) $ c = x $ y $ c" and "& is associative": an environment serves as
\* the chain of its layers does, whatever they import, hide, rename, restrict
\* or configure, if a layer serves all that it hides another's service of.
LayersLaw ==
    \A k \in 1..Len(terms) - 2 : Overrides(terms[k], terms[k + 1], terms[k + 2]) =>
        /\ ActionLaw(terms[k], terms[k + 1], terms[k + 2])
        /\ Associative(terms[k], terms[k + 1], terms[k + 2])

\* The entrypoint of a composition reaches every configured provider in it,
\* once, and none before a provider that its configuration may call through:
\* what the earlier one reaches through its imports is a set without the later.
ConfiguredInOrder ==
    \A v \in Values :
        /\ {v.binds[k] : k \in DOMAIN v.binds} = v.baked
        /\ \A k, l \in DOMAIN v.binds : k < l =>
              \E reach \in SUBSET v.insts :
                  /\ v.binds[k] \in reach /\ v.binds[l] \notin reach
                  /\ \A w \in v.wires : w.inst \in reach => w.by \in reach \cup {NoProvider}

\* "imports(only w $ c) is within w" for good: while every plain name in it
\* has stood for one interface, nothing outside a gate ever serves what is
\* inside it except through what the gate admits, whatever is composed,
\* renamed or bound inside and around it.
GatesHold ==
    \A v \in {u \in Values : \A m, n \in u.meant : m[1] = n[1] => m[2] = n[2]} : \A g \in v.gates :
        /\ \A o \in v.open : o.inst \in g.insts => Admitted(o.port, g.allow)
        /\ \A w \in v.wires :
              w.inst \in g.insts /\ w.by \notin g.insts \cup {NoProvider} => Admitted(w.port, g.allow)
=============================================================================
