---------------------------- MODULE MCComponents ----------------------------
(***************************************************************************)
(* Three kinds of programs: ones with any initialisers of three simple     *)
(* components and one entity; ones with an isotope component that may read *)
(* a simple one, two discriminants, two ids and two entities for each; and *)
(* ones that search every nesting of a struct and a container in a         *)
(* component for references to two archetypes.                             *)
(***************************************************************************)
EXTENDS Components, TLC

CONSTANTS c1, c2, c3, iso, flag, struct, vec, ea, eb, wa, a, b, d1, d2, e1, e2

const_Type == {c1, c2, c3, iso, flag, struct, vec, ea, eb, wa}
const_ArchOf == [t \in {ea, eb, wa} |-> IF t = eb THEN b ELSE a]

Lists(T) == {<< >>} \cup {<<x>> : x \in T} \cup {<<x, y>> : x \in T, y \in T}

Plain == [t \in const_Type |-> << >>]
const_Declarations ==
  {Plain} \cup
  {[Plain EXCEPT ![c1] = lc, ![struct] = ls, ![vec] = <<v>>] :
     lc \in Lists({struct, vec, ea}), ls \in Lists({c1, vec, wa}),
     v \in {c1, struct, ea, eb}}

(* The options of #[comp].                                                 *)
O(name, value) == << [name |-> name, value |-> value] >>
Opt == O("of", a)
Req == Opt \o O("required", TRUE)
Auto(deps) == Opt \o O("init", deps)
Iso(opts) == opts \o O("isotope", {d1, d2})

Rank(opts) == LET st == StrategyOf(opts)
              IN  IF st.auto THEN 2 + Len(st.deps) ELSE IF st.required THEN 1 ELSE 0

AnyStrategy ==
  {Opt, Req, Auto(<<c1, c1>>), Auto(<<c1, c2>>), Auto(<<c1, c3>>), Auto(<<c3, c2>>)}
    \cup {Auto(l) : l \in {<< >>, <<c1>>, <<c2>>, <<c3>>}}

Declare(x, y, z, i) ==
  [c \in {flag, c1, c2, c3, iso} |->
     CASE c = c1 -> x [] c = c2 -> y [] c = c3 -> z [] c = iso -> i [] OTHER -> Opt]

(* The names of the components do not matter, so they are sorted.          *)
SimplePrograms ==
  {p \in {Declare(x, y, z, Iso(Opt)) : x \in AnyStrategy, y \in AnyStrategy, z \in AnyStrategy} :
     Rank(p[c1]) <= Rank(p[c2]) /\ Rank(p[c2]) <= Rank(p[c3])}

IsotopePrograms ==
  {Declare(x, Req, Req, Iso(i)) : x \in {Opt, Auto(<< >>)},
     i \in {Req, Req \o O("init", << >>), O("finalizer", TRUE),
            Auto(<< >>), Auto(<<c1>>), Auto(<<c1, c1>>)}}
    \cup {Declare(Auto(<< >>), Req, Req, Iso(Opt))}

Implementation(p) ==
  flag :> StrategyOf(p[flag]) @@ c1 :> StrategyOf(p[c1]) @@ c2 :> StrategyOf(p[c2])
    @@ c3 :> StrategyOf(p[c3]) @@ iso :> StrategyOf(p[iso])

Expanded(programs) ==
  {Implementation(p) : p \in {q \in programs : \A c \in DOMAIN q : ~CompRejected(q[c])}}

(* The traits may be implemented by hand.                                  *)
ByHand == {Implementation(Declare(x, Req, Req, Iso(Req))) : x \in {Opt, Auto(<< >>)}}

NoneRead == Expanded({Declare(Auto(<< >>), Req, Req, Iso(Opt))})
WithIsotopes == Expanded(IsotopePrograms) \cup ByHand
const_Strategies == Expanded(SimplePrograms) \cup WithIsotopes

(* comps![...]: components, and @(discriminant, component).                *)
Comps(list) == [i \in DOMAIN list |-> [iso |-> FALSE, comp |-> list[i], discrim |-> d1]]
At(list) == [i \in DOMAIN list |-> [iso |-> TRUE, comp |-> iso, discrim |-> list[i]]]
Isotopes == {<< >>, <<d1>>, <<d1, d2>>, <<d1, d1>>}
Calls ==
  {Comps(l) \o At(ds) : l \in UNION {[1..k -> {c1, c2, c3}] : k \in 0..3}, ds \in Isotopes}
Maps == {MapOf(l) : l \in {x \in Calls : ~InsertPanics(x)}}
const_Given == {m \in [simple : SUBSET {c1, c2, c3}, isotope : [{iso} -> Isotopes]] : m \in Maps}

Kind ==
  IF fields # Plain THEN "types" ELSE IF strategy \in WithIsotopes THEN "isotope" ELSE "simple"

MCInit ==
  /\ ComponentsInit
  /\ Kind = "types" => strategy \in NoneRead

(* What the programs of each kind do.                                      *)
MCUse ==
  CASE Kind = "types" -> root' \in {c1, flag} /\ phase' = "building"
    [] Kind = "isotope" -> root' \in {c1, iso, flag} /\ comp_map'.simple \subseteq {c1}
    [] OTHER -> /\ root' # iso /\ lives'[e2] = 0 /\ lives'[e1] <= 1
                /\ comp_map'.isotope[iso] = << >>

MCSpec ==
  /\ MCInit /\ [][ComponentsNext /\ MCUse]_cvars
  /\ WF_cvars(VisitNext /\ UNCHANGED tvars) /\ WF_cvars(AddNext /\ UNCHANGED rvars)

=============================================================================
