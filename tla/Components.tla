----------------------------- MODULE Components -----------------------------
(***************************************************************************)
(* What becomes of a component that systems request: its type is searched  *)
(* for strong references (Referrer), then its storage is registered, with  *)
(* those its initialiser reads, and entities are created (Typed).  Its     *)
(* declaration is that of #[comp] (CompMacro), or written by hand.         *)
(***************************************************************************)
EXTENDS Referrer, CompMacro

(* Every component is a type.                                              *)
ASSUME ComponentsAssumption == Component \subseteq Type

cvars == <<rvars, tvars>>

ComponentsInit == ReferrerInit /\ root = Flag /\ TypedInit

(* SimpleRequest::new and IsotopeRequest::new search the component.        *)
NewRequest(c) ==
  /\ phase = "building" /\ calls = << >>
  /\ root \notin recursion_guard
  /\ Search(c)
  /\ UNCHANGED tvars

(* register_resources takes the request with what was found in it.         *)
Register(c) ==
  /\ visits = << >> /\ root = c /\ root \in recursion_guard
  /\ IF c \in Simple THEN RequestSimple(c) ELSE RequestIsotope(c)
  /\ root' = Flag /\ recursion_guard' = {} /\ found_archs' = {}
  /\ UNCHANGED <<fields, visits>>

ComponentsNext ==
  \/ \E c \in Component : NewRequest(c) \/ Register(c)
  \/ VisitNext /\ UNCHANGED tvars
  \/ /\ root \notin recursion_guard /\ visits = << >>
     /\ \/ AddNext
        \/ BuildTyped
        \/ \E e \in Entity : Allocate(e) \/ Delete(e) \/ \E given \in Given : InitEntity(e, given)
        \/ FillNext
     /\ UNCHANGED rvars

(* One thread registers components, and it goes on.                        *)
ComponentsSpec ==
  /\ ComponentsInit /\ [][ComponentsNext]_cvars
  /\ WF_cvars(VisitNext /\ UNCHANGED tvars) /\ WF_cvars(AddNext /\ UNCHANGED rvars)

=============================================================================
