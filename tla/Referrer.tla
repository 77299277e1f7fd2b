------------------------------ MODULE Referrer ------------------------------
(***************************************************************************)
(* The search of a type for the archetypes it may own strong references    *)
(* to: Referrer::visit_type and VisitTypeArg (src/entity/referrer.rs), the *)
(* implementations for references, for standard containers                 *)
(* (src/entity/referrer/std_impl.rs), and the derived ones                 *)
(* (codegen/src/entity_ref.rs).  Every request of a system runs it on its  *)
(* component or global; what it finds puts the system in front of the      *)
(* creation partitions.                                                    *)
(*                                                                         *)
(* Calls of visit_type nest, so the running ones form a stack; a frame is  *)
(* the fields its call has yet to visit.                                   *)
(***************************************************************************)
EXTENDS Integers, Sequences

CONSTANTS
  Type,          \* Rust types that implement Referrer
  EntityType,    \* those of the form Entity<A>
  WeakType,      \* those of the form Weak<A>
  ArchOf,        \* ArchOf[t]: the archetype A of a reference t
  Declarations,  \* a declaration gives the fields of every type
  MaxCalls       \* bound on nested calls; a program overflows its stack later

References == EntityType \cup WeakType

(* The fields of a struct or enum are those with #[entity], the field of a *)
(* container is its element.  References have none.                        *)
ASSUME ReferrerAssumption ==
  /\ References \subseteq Type /\ EntityType \cap WeakType = {}
  /\ DOMAIN ArchOf = References
  /\ Declarations \subseteq [Type -> Seq(Type)]
  /\ \A f \in Declarations : \A t \in References : f[t] = << >>
  /\ MaxCalls \in Nat

VARIABLES
  fields,            \* the declaration the program has
  root,              \* the type the search was asked for
  recursion_guard,
  found_archs,
  visits             \* the running calls, outermost first

search == <<root, recursion_guard, found_archs, visits>>
rvars == <<fields, search>>

ReferrerInit ==
  /\ fields \in Declarations
  /\ root \in Type
  /\ recursion_guard = {}
  /\ found_archs = {}
  /\ visits = << >>

-----------------------------------------------------------------------------

(* Mutants: a type is entered whenever it is met; a weak reference is      *)
(* found like a strong one.                                                *)
MutMark(t) == TRUE
MutAddsArchetype(t) == t \in References

(* mark: the first to insert the type goes on.                             *)
Mark(t) == t \notin recursion_guard

(* Entity<A> calls add_archetype, Weak<A> does not.                        *)
AddsArchetype(t) == t \in EntityType

Depth == Len(visits)

(* VisitTypeArg::new() and the call for the type of a request.             *)
Search(t) ==
  /\ visits = << >>
  /\ root' = t
  /\ recursion_guard' = {}
  /\ found_archs' = {}
  /\ visits' = << <<t>> >>
  /\ UNCHANGED fields

(* The innermost call goes on to its next field t: t::visit_type.          *)
VisitType(t) ==
  LET calls == [visits EXCEPT ![Depth] = Tail(@)]
  IN  IF Mark(t)
      THEN /\ recursion_guard' = recursion_guard \cup {t}
           /\ found_archs' = IF AddsArchetype(t) THEN found_archs \cup {ArchOf[t]} ELSE found_archs
           /\ visits' = Append(calls, fields[t])
      ELSE /\ visits' = calls
           /\ UNCHANGED <<recursion_guard, found_archs>>

VisitField ==
  /\ visits # << >> /\ Depth <= MaxCalls
  /\ visits[Depth] # << >>
  /\ VisitType(Head(visits[Depth]))
  /\ UNCHANGED <<fields, root>>

VisitReturn ==
  /\ visits # << >>
  /\ visits[Depth] = << >>
  /\ visits' = SubSeq(visits, 1, Depth - 1)
  /\ UNCHANGED <<fields, root, recursion_guard, found_archs>>

VisitNext == VisitField \/ VisitReturn

ReferrerNext == VisitNext \/ \E t \in Type : Search(t)

ReferrerSpec == ReferrerInit /\ [][ReferrerNext]_rvars /\ WF_rvars(VisitNext)

-----------------------------------------------------------------------------

FieldsOf(t) == {fields[t][i] : i \in DOMAIN fields[t]}

(* What a value of type r may contain: the least set closed under fields.  *)
Closed(S) == \A t \in S : FieldsOf(t) \subseteq S
Reachable(r) == {t \in Type : \A S \in SUBSET Type : r \in S /\ Closed(S) => t \in S}

(* A finished search has found the archetypes of exactly the strong        *)
(* references that a value of the type may own, through any nesting of     *)
(* structs and containers, recursive ones included (found_archs of         *)
(* VisitTypeArg, the strong_refs of a request).                            *)
FindsStrongReferences ==
  visits = << >> /\ root \in recursion_guard =>
    found_archs = {ArchOf[t] : t \in Reachable(root) \cap EntityType}

(* The search comes to an end on every type, recursive or not: "`arg`      *)
(* contains an internal hash set that avoids recursion".                   *)
SearchEnds == visits # << >> ~> visits = << >>

=============================================================================
