------------------------------ MODULE CompMacro ------------------------------
(***************************************************************************)
(* What #[comp] makes of the options of a component (codegen/src/comp.rs), *)
(* and comps! of the components of a new entity (codegen/src/comps.rs).    *)
(* The value of init is the list of the parameters' types.                 *)
(***************************************************************************)
EXTENDS Typed, Attr

Once == {"isotope", "storage", "required", "finalizer", "init"}

(* The component does not expand.                                          *)
CompRejected(opts) ==
  \/ \E i \in DOMAIN opts : opts[i].name \notin Once \cup {"of"}
  \/ \E name \in Once : FoundTwice(opts, {name})
  \/ Has(opts, "isotope") /\ Has(opts, "finalizer")
  \/ Has(opts, "isotope") /\ Has(opts, "required") /\ ~Has(opts, "init")

(* PRESENCE and INIT_STRATEGY of the generated implementation.             *)
StrategyOf(opts) ==
  [required |-> Has(opts, "required"), auto |-> Has(opts, "init"),
   deps |-> FindOr(opts, "init", << >>)]

(* comps! inserts one component after the other: with a discriminant into  *)
(* the list of an isotope component, or else once.                         *)
Inserted(list, iso) == SelectSeq(list, LAMBDA x : x.iso = iso)
InsertPanics(list) ==
  \E i, j \in DOMAIN Inserted(list, FALSE) :
    i # j /\ Inserted(list, FALSE)[i].comp = Inserted(list, FALSE)[j].comp

MapOf(list) ==
  [simple |-> {Inserted(list, FALSE)[i].comp : i \in DOMAIN Inserted(list, FALSE)},
   isotope |-> [c \in Isotope |->
     LET of == SelectSeq(Inserted(list, TRUE), LAMBDA x : x.comp = c)
     IN  [i \in DOMAIN of |-> of[i].discrim]]]

=============================================================================
