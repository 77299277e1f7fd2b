------------------------------ MODULE Topology ------------------------------
(***************************************************************************)
(* The static half of the scheduler: the nodes of a cycle, the orders      *)
(* between them, the exclusions among them, and the state every cycle      *)
(* starts from (src/scheduler/topology.rs, src/scheduler.rs).              *)
(*                                                                         *)
(* Everything here is an operator of a set of orders `os` and an exclusion *)
(* function `ex`: Builder produces the pair and Planner runs it.           *)
(***************************************************************************)
EXTENDS Integers, FiniteSets

CONSTANTS
  SendSystem,    \* ids of the thread-safe systems
  UnsendSystem,  \* ids of the systems bound to the main thread
  Partition,     \* ids of the partitions
  Order,         \* every order the program can register; a Vec may hold the
                 \* same pair twice, so an order is an identity with two ends
  Before,        \* Before[o] runs first
  After          \* After[o] waits for it

VARIABLES
  orders,        \* the Vec<Order> of the builder, then Topology::dependents
  exclusions     \* Topology::exclusions

System == SendSystem \cup UnsendSystem
Node == System \cup Partition

(* Ids are numbers, so that the BTreeSet pools are ordered by them, and    *)
(* they are distinct across the three kinds of node.                       *)
ASSUME NodeAssumption ==
  /\ SendSystem \subseteq Nat /\ UnsendSystem \subseteq Nat /\ Partition \subseteq Nat
  /\ IsFiniteSet(SendSystem) /\ IsFiniteSet(UnsendSystem) /\ IsFiniteSet(Partition)
  /\ SendSystem \cap UnsendSystem = {}
  /\ System \cap Partition = {}

(* add_dependencies is the only caller of add_dependency, and it always    *)
(* links a system with a partition.                                        *)
ASSUME OrderAssumption ==
  /\ IsFiniteSet(Order)
  /\ Before \in [Order -> Node]
  /\ After \in [Order -> Node]
  /\ \A o \in Order : Before[o] \in System <=> After[o] \in Partition

-----------------------------------------------------------------------------

(* dependents_of, with the multiplicity of the Vec.                        *)
DependentsOf(os, n) == {o \in os : Before[o] = n}

DependenciesOf(os, n) == {o \in os : After[o] = n}

Edges(os, n, m) == {o \in os : Before[o] = n /\ After[o] = m}

(* No set of nodes waits only for itself.                                  *)
Acyclic(os) ==
  \A S \in SUBSET Node :
    S # {} => \E n \in S : \A o \in DependenciesOf(os, n) : Before[o] \notin S

(* scan_cycles lets only these sets of orders through.                     *)
AcyclicOrders == {os \in SUBSET Order : Acyclic(os)}

(* build_exclusions compares every two distinct nodes both ways round, and *)
(* only systems use resources.                                             *)
Exclusions ==
  {ex \in [Node -> SUBSET System] : \A n \in Node : \A m \in ex[n] : m # n /\ n \in ex[m]}

(* What Topology::init establishes for a Scheduler.                        *)
IsTopology(os, ex) == os \in AcyclicOrders /\ ex \in Exclusions

-----------------------------------------------------------------------------

(* Mutant: trimming is forgotten.                                          *)
MutDeplessPars(os) == {}

(* build_initials: partitions nothing comes before are trimmed first; the  *)
(* orders that leave them block nobody.                                    *)
DeplessPars(os) == {p \in Partition : DependenciesOf(os, p) = {}}

InitialCount(os, n) ==
  Cardinality({o \in DependenciesOf(os, n) : Before[o] \notin DeplessPars(os)})

InitialState(os, n) ==
  IF InitialCount(os, n) > 0 THEN "Blocked"
  ELSE IF n \in System THEN "Pending" ELSE "Completed"

InitialRunnable(os, pool) == {s \in pool : InitialCount(os, s) = 0}

=============================================================================
