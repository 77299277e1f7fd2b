---------------------------- MODULE PlannerProofs ----------------------------
(***************************************************************************)
(* The planner is correct for every number of systems and partitions and   *)
(* every topology that Topology::init accepts.                             *)
(***************************************************************************)
EXTENDS Planner, FiniteSetTheorems, TLAPS

(* The inductive invariant.  The counters are exact only as long as no two *)
(* exclusive nodes run together, and that needs exact counters, so the     *)
(* four are proved as one.                                                 *)
Inv == TypeOK /\ PlannerInv /\ ExclusionSafety /\ NoPlannerPanic

-----------------------------------------------------------------------------
(* Finite sets *)

(* A subset of a finite set splits its cardinality, and has all of it only *)
(* when it is the whole set.                                               *)
LEMMA CardMinus ==
  ASSUME NEW S, IsFiniteSet(S), NEW T \in SUBSET S
  PROVE  /\ IsFiniteSet(T) /\ IsFiniteSet(S \ T)
         /\ Cardinality(S) \in Nat /\ Cardinality(T) \in Nat
         /\ Cardinality(T) <= Cardinality(S)
         /\ Cardinality(S \ T) = Cardinality(S) - Cardinality(T)
         /\ Cardinality(T) = Cardinality(S) => T = S
<1>1. IsFiniteSet(T) /\ IsFiniteSet(S \ T)
  BY FS_Subset, S \ T \in SUBSET S
<1>2. Cardinality(S) \in Nat /\ Cardinality(T) \in Nat /\ Cardinality(S \ T) \in Nat
  BY <1>1, FS_CardinalityType
<1>3. Cardinality(S \ T) = Cardinality(S) - Cardinality(S \cap T)
  BY FS_Difference
<1>4. S \cap T = T
  OBVIOUS
<1>5. Cardinality(S \ T) = Cardinality(S) - Cardinality(T)
  BY <1>3, <1>4
<1>6. Cardinality(T) = Cardinality(S) => S \ T = {}
  BY <1>1, <1>2, <1>5, FS_EmptySet
<1> QED
  BY <1>1, <1>2, <1>5, <1>6

(* A finite set is empty exactly when it has cardinality zero.             *)
LEMMA CardZero ==
  ASSUME NEW S, IsFiniteSet(S)
  PROVE  Cardinality(S) \in Nat /\ (Cardinality(S) = 0 <=> S = {})
BY FS_CardinalityType, FS_EmptySet

(* What a topology gives every node: finite sets of orders and exclusions, *)
(* exclusions that are symmetric, and none for a partition.                *)
LEMMA TopologyFacts ==
  ASSUME NEW os, NEW ex, IsTopology(os, ex), NEW m \in Node
  PROVE  /\ IsFiniteSet(System) /\ IsFiniteSet(os)
         /\ IsFiniteSet(DependenciesOf(os, m))
         /\ ex[m] \subseteq System /\ IsFiniteSet(ex[m])
         /\ \A x \in ex[m] : x # m /\ m \in ex[x]
         /\ m \in Partition => ex[m] = {}
         /\ \A o \in os : o \in Order /\ Before[o] \in Node /\ After[o] \in Node
         /\ m \in Partition => \A o \in DependenciesOf(os, m) : Before[o] \in System
         /\ m \in System => \A o \in DependenciesOf(os, m) : Before[o] \in Partition
<1>1. os \subseteq Order /\ ex \in [Node -> SUBSET System]
  BY DEF IsTopology, AcyclicOrders, Exclusions
<1>2. IsFiniteSet(System)
  BY Zenon, NodeAssumption, FS_Union DEF System
<1>3. IsFiniteSet(os)
  BY <1>1, OrderAssumption, FS_Subset
<1>4. IsFiniteSet(DependenciesOf(os, m))
  BY <1>3, FS_Subset, DependenciesOf(os, m) \subseteq os DEF DependenciesOf
<1>5. ex[m] \subseteq System /\ IsFiniteSet(ex[m])
  BY <1>1, <1>2, FS_Subset
<1>6. \A x \in ex[m] : x # m /\ m \in ex[x]
  BY DEF IsTopology, Exclusions
<1>7. m \in Partition => ex[m] = {}
  BY Zenon, <1>1, <1>5, <1>6, NodeAssumption DEF Node
<1>8. \A o \in os : o \in Order /\ Before[o] \in Node /\ After[o] \in Node
  BY <1>1, OrderAssumption
<1>9. m \in Partition => \A o \in DependenciesOf(os, m) : Before[o] \in System
  BY <1>1, OrderAssumption DEF DependenciesOf
<1>10. m \in System => \A o \in DependenciesOf(os, m) : Before[o] \in Partition
  BY <1>8, <1>1, OrderAssumption, NodeAssumption DEF DependenciesOf, Node
<1> QED
  BY <1>2, <1>3, <1>4, <1>5, <1>6, <1>7, <1>8, <1>9, <1>10

(* The blockers of a node are finite, so their number is a natural number. *)
LEMMA BlockersFinite ==
  ASSUME TypeOK, NEW m \in Node
  PROVE  /\ IsFiniteSet(OpenOrders(m)) /\ IsFiniteSet(RunningExclusions(m))
         /\ Cardinality(OpenOrders(m)) \in Nat /\ Cardinality(RunningExclusions(m)) \in Nat
         /\ m \in Partition => RunningExclusions(m) = {}
<1>1. IsTopology(orders, exclusions)
  BY DEF TypeOK
<1>2. IsFiniteSet(DependenciesOf(orders, m)) /\ IsFiniteSet(exclusions[m])
      /\ (m \in Partition => exclusions[m] = {})
  BY <1>1, TopologyFacts
<1>3. OpenOrders(m) \subseteq DependenciesOf(orders, m) /\ RunningExclusions(m) \subseteq exclusions[m]
  BY DEF OpenOrders, RunningExclusions
<1>4. IsFiniteSet(OpenOrders(m)) /\ IsFiniteSet(RunningExclusions(m))
  BY <1>2, <1>3, FS_Subset
<1> QED
  BY <1>2, <1>3, <1>4, FS_CardinalityType

(* A Pending node has no open order and no exclusive node is running.      *)
LEMMA PendingIsFree ==
  ASSUME Inv, NEW m \in Node, wakeup_state[m] = "Pending"
  PROVE  block_count[m] = 0 /\ OpenOrders(m) = {} /\ RunningExclusions(m) = {}
<1>1. block_count[m] = 0 /\ OpenOrders(m) = {}
      /\ block_count[m] = Cardinality(OpenOrders(m)) + Cardinality(RunningExclusions(m))
  BY DEF Inv, PlannerInv
<1>2. IsFiniteSet(OpenOrders(m)) /\ IsFiniteSet(RunningExclusions(m))
  BY BlockersFinite DEF Inv
<1> QED
  BY <1>1, <1>2, CardZero

-----------------------------------------------------------------------------
(* The initial planner *)

(* build_initials marks a partition Completed exactly when it trims it, so *)
(* the counts it leaves are the numbers of open orders.                    *)
LEMMA InitialPlannerInv ==
  ASSUME IsTopology(orders, exclusions), InitialPlanner
  PROVE  Inv
<1> DEFINE Kept(m) == {o \in DependenciesOf(orders, m) : Before[o] \notin DeplessPars(orders)}
<1>1. ASSUME NEW m \in Node
      PROVE  IsFiniteSet(Kept(m)) /\ InitialCount(orders, m) = Cardinality(Kept(m))
             /\ InitialCount(orders, m) \in Nat /\ (InitialCount(orders, m) = 0 <=> Kept(m) = {})
  <2>1. IsFiniteSet(Kept(m))
    BY <1>1, TopologyFacts, FS_Subset, Kept(m) \subseteq DependenciesOf(orders, m)
  <2> QED
    BY <2>1, CardZero DEF InitialCount
<1>2. ASSUME NEW p \in Partition
      PROVE  InitialCount(orders, p) = 0 <=> p \in DeplessPars(orders)
  <2>1. p \in Node
    BY DEF Node
  <2>2. \A o \in DependenciesOf(orders, p) : Before[o] \notin DeplessPars(orders)
    BY <2>1, <1>2, TopologyFacts, NodeAssumption DEF DeplessPars
  <2>3. Kept(p) = DependenciesOf(orders, p)
    BY <2>2
  <2> QED
    BY Zenon, <1>1, <2>1, <2>3, <1>2 DEF DeplessPars
<1>3. ASSUME NEW n \in Node
      PROVE  wakeup_state[n] = InitialState(orders, n) /\ block_count[n] = InitialCount(orders, n)
             /\ (wakeup_state[n] = "Completed" <=> n \in DeplessPars(orders))
             /\ wakeup_state[n] \in {"Blocked", "Pending", "Completed"}
             /\ (wakeup_state[n] = "Blocked" <=> InitialCount(orders, n) > 0)
             /\ (n \in System => wakeup_state[n] # "Completed")
             /\ (n \in Partition => wakeup_state[n] # "Pending")
  <2>1. wakeup_state[n] = InitialState(orders, n) /\ block_count[n] = InitialCount(orders, n)
    BY <1>3 DEF InitialPlanner
  <2>0. InitialCount(orders, n) \in Nat
    BY Zenon, <1>1, <1>3
  <2>2. CASE n \in System
    <3>1. n \notin Partition /\ n \notin DeplessPars(orders)
      BY <2>2, NodeAssumption DEF DeplessPars
    <3> QED
      BY <2>0, <2>1, <2>2, <3>1 DEF InitialState
  <2>3. CASE n \in Partition
    <3>1. n \notin System /\ (InitialCount(orders, n) = 0 <=> n \in DeplessPars(orders))
      BY <2>3, <1>2, NodeAssumption
    <3> QED
      BY <2>0, <2>1, <2>3, <3>1 DEF InitialState
  <2> QED
    BY <2>2, <2>3, <1>3 DEF Node
<1>4. ASSUME NEW m \in Node
      PROVE  OpenOrders(m) = Kept(m) /\ RunningExclusions(m) = {}
  <2>1. \A o \in DependenciesOf(orders, m) : Before[o] \in Node
    BY Zenon, <1>4, TopologyFacts DEF DependenciesOf
  <2>2. \A x \in exclusions[m] : x \in Node
    BY <1>4, TopologyFacts DEF Node
  <2> QED
    BY <2>1, <2>2, <1>3 DEF OpenOrders, RunningExclusions
<1>5. TypeOK
  <2>1. wakeup_state \in [Node -> WakeupState]
    BY <1>3 DEF InitialPlanner, WakeupState
  <2>2. block_count \in [Node -> Nat]
    BY Zenon, <1>1 DEF InitialPlanner
  <2>3. remaining_systems \in Nat
    <3>1. IsFiniteSet(System)
      BY Zenon, NodeAssumption, FS_Union DEF System
    <3> QED
      BY <3>1, FS_CardinalityType DEF InitialPlanner
  <2> QED
    BY Zenon, <2>1, <2>2, <2>3 DEF TypeOK, InitialPlanner, InitialRunnable
<1>6. PlannerInv
  <2>1. ASSUME NEW m \in Node
        PROVE  /\ wakeup_state[m] = "Blocked" => block_count[m] > 0
               /\ wakeup_state[m] # "Blocked" => block_count[m] = 0 /\ OpenOrders(m) = {}
               /\ block_count[m] = Cardinality(OpenOrders(m)) + Cardinality(RunningExclusions(m))
    <3>1. Cardinality({}) = 0
      BY FS_EmptySet
    <3>2. InitialCount(orders, m) \in Nat /\ InitialCount(orders, m) = Cardinality(Kept(m))
          /\ (InitialCount(orders, m) = 0 <=> Kept(m) = {})
      BY Zenon, <1>1, <2>1
    <3>3. block_count[m] = InitialCount(orders, m)
          /\ (wakeup_state[m] = "Blocked" <=> InitialCount(orders, m) > 0)
      BY <1>3, <2>1
    <3> HIDE DEF Kept
    <3>4. OpenOrders(m) = Kept(m) /\ RunningExclusions(m) = {}
      BY <1>4, <2>1
    <3> QED
      BY <3>1, <3>2, <3>3, <3>4
  <2>2. \A p \in Partition : wakeup_state[p] \in {"Blocked", "Completed"}
    BY <1>3 DEF Node
  <2>3. \A s \in System : wakeup_state[s] = "Pending" <=> InitialCount(orders, s) = 0
    <3> SUFFICES ASSUME NEW s \in System
                 PROVE  wakeup_state[s] = "Pending" <=> InitialCount(orders, s) = 0
      OBVIOUS
    <3>1. s \in Node
      BY DEF Node
    <3>2. InitialCount(orders, s) \in Nat
      BY Zenon, <1>1, <3>1
    <3>3. /\ wakeup_state[s] # "Completed"
          /\ wakeup_state[s] \in {"Blocked", "Pending", "Completed"}
          /\ wakeup_state[s] = "Blocked" <=> InitialCount(orders, s) > 0
      BY <1>3, <3>1
    <3> QED
      BY <3>2, <3>3
  <2>4. send_runnable = {s \in SendSystem : wakeup_state[s] = "Pending"}
    BY <2>3 DEF InitialPlanner, InitialRunnable, System
  <2>5. unsend_runnable = {s \in UnsendSystem : wakeup_state[s] = "Pending"}
    BY <2>3 DEF InitialPlanner, InitialRunnable, System
  <2>6. Unfinished = System
    BY <1>3 DEF Unfinished, Node
  <2> QED
    BY <2>1, <2>2, <2>4, <2>5, <2>6 DEF PlannerInv, InitialPlanner
<1>7. ExclusionSafety
  BY <1>3 DEF ExclusionSafety, Node
<1> QED
  BY <1>5, <1>6, <1>7 DEF Inv, NoPlannerPanic, InitialPlanner

-----------------------------------------------------------------------------
(* steal *)

(* Starting a Pending system keeps the counters exact: it opens no order   *)
(* and is one more running exclusion for exactly the nodes it blocks.      *)
LEMMA StealInv ==
  ASSUME Inv, NEW n \in System, n \in Runnable, Steal(n)
  PROVE  Inv'
<1> USE DEF Inv
<1>1. n \in Node /\ wakeup_state[n] = "Pending"
  BY DEF PlannerInv, Runnable, Node
<1>2. block_count[n] = 0 /\ OpenOrders(n) = {} /\ RunningExclusions(n) = {}
  BY <1>1, PendingIsFree
<1>3. ASSUME NEW m \in Node
      PROVE  /\ exclusions[m] \subseteq Node /\ (n \in exclusions[m] <=> m \in exclusions[n])
             /\ n \notin exclusions[n]
             /\ m \in exclusions[n] => m \in System /\ wakeup_state[m] # "Started" /\ m # n
             /\ \A o \in DependenciesOf(orders, m) : Before[o] \in Node
  <2>1. IsTopology(orders, exclusions)
    BY DEF TypeOK
  <2>2. /\ exclusions[m] \subseteq System
        /\ \A x \in exclusions[m] : x # m /\ m \in exclusions[x]
        /\ \A o \in orders : Before[o] \in Node
    BY <2>1, <1>3, TopologyFacts
  <2>3. /\ exclusions[n] \subseteq System
        /\ \A x \in exclusions[n] : x # n /\ n \in exclusions[x]
    BY <2>1, <1>1, TopologyFacts
  <2>4. m \in exclusions[n] => wakeup_state[m] # "Started"
    BY <1>2 DEF RunningExclusions
  <2> QED
    BY <2>2, <2>3, <2>4 DEF Node, DependenciesOf
<1>4. ASSUME NEW m \in Node
      PROVE  /\ wakeup_state'[m] = IF m = n THEN "Started"
                                   ELSE IF BlockedByStart(n, m) THEN "Blocked"
                                   ELSE wakeup_state[m]
             /\ block_count'[m] = IF BlockedByStart(n, m) THEN block_count[m] + 1
                                  ELSE block_count[m]
  BY <1>4 DEF Steal
<1>5. ~BlockedByStart(n, n)
  BY <1>1, <1>3 DEF BlockedByStart
<1>6. ASSUME NEW m \in Node
      PROVE  /\ (wakeup_state'[m] = "Completed" <=> wakeup_state[m] = "Completed")
             /\ (wakeup_state'[m] = "Started" <=> m = n \/ wakeup_state[m] = "Started")
             /\ (wakeup_state'[m] = "Pending" <=>
                   wakeup_state[m] = "Pending" /\ m # n /\ ~BlockedByStart(n, m))
  BY <1>4, <1>6, <1>1 DEF BlockedByStart
<1>7. ASSUME NEW m \in Node
      PROVE  OpenOrders(m)' = OpenOrders(m)
  BY <1>3, <1>6, <1>7 DEF OpenOrders, Steal, DependenciesOf
<1>8. ASSUME NEW m \in Node
      PROVE  RunningExclusions(m)' =
               IF m \in exclusions[n] THEN RunningExclusions(m) \cup {n} ELSE RunningExclusions(m)
  <2>1. exclusions' = exclusions
    BY DEF Steal
  <2>2. \A x \in exclusions[m] : wakeup_state'[x] = "Started" <=> x = n \/ wakeup_state[x] = "Started"
    BY <1>3, <1>6, <1>8
  <2> QED
    BY <2>1, <2>2, <1>3, <1>8 DEF RunningExclusions
<1>9. ASSUME NEW m \in Node, wakeup_state'[m] \in {"Blocked", "Pending"}
      PROVE  block_count'[m] = Cardinality(OpenOrders(m)') + Cardinality(RunningExclusions(m)')
  <2>1. m # n /\ wakeup_state[m] \in {"Blocked", "Pending"}
    BY <1>4, <1>9 DEF BlockedByStart
  <2>2. block_count[m] = Cardinality(OpenOrders(m)) + Cardinality(RunningExclusions(m))
    BY <2>1, <1>9 DEF PlannerInv
  <2>3. BlockedByStart(n, m) <=> m \in exclusions[n]
    BY <2>1 DEF BlockedByStart
  <2>4. n \notin RunningExclusions(m) /\ IsFiniteSet(RunningExclusions(m))
        /\ Cardinality(OpenOrders(m)) \in Nat /\ Cardinality(RunningExclusions(m)) \in Nat
    BY <1>1, <1>9, BlockersFinite DEF RunningExclusions
  <2>5. Cardinality(RunningExclusions(m) \cup {n}) = Cardinality(RunningExclusions(m)) + 1
    BY Zenon, <2>4, FS_AddElement
  <2>6. block_count'[m] = IF m \in exclusions[n] THEN block_count[m] + 1 ELSE block_count[m]
    BY <1>4, <1>9, <2>3
  <2>7. OpenOrders(m)' = OpenOrders(m)
    BY <1>7, <1>9
  <2>8. CASE m \in exclusions[n]
    <3>1. RunningExclusions(m)' = RunningExclusions(m) \cup {n}
      BY <1>8, <1>9, <2>8
    <3> QED
      BY <3>1, <2>2, <2>4, <2>5, <2>6, <2>7, <2>8
  <2>9. CASE m \notin exclusions[n]
    <3>1. RunningExclusions(m)' = RunningExclusions(m)
      BY <1>8, <1>9, <2>9
    <3> QED
      BY <3>1, <2>2, <2>6, <2>7, <2>9
  <2> QED
    BY <2>8, <2>9
<1>10. TypeOK'
  <2>1. IsTopology(orders, exclusions)'
    BY DEF TypeOK, Steal
  <2>2. wakeup_state' \in [Node -> WakeupState]
    BY DEF TypeOK, Steal, WakeupState
  <2>3. block_count' \in [Node -> Nat]
    BY DEF TypeOK, Steal
  <2>4. planner_panic' \in BOOLEAN
    BY DEF Steal
  <2> QED
    BY <2>1, <2>2, <2>3, <2>4 DEF TypeOK, Steal
<1>11. PlannerInv'
  <2>1. ASSUME NEW m \in Node
        PROVE  /\ wakeup_state'[m] = "Blocked" => block_count'[m] > 0
               /\ wakeup_state'[m] # "Blocked" => block_count'[m] = 0 /\ OpenOrders(m)' = {}
    <3>1. /\ wakeup_state[m] = "Blocked" => block_count[m] > 0
          /\ wakeup_state[m] # "Blocked" => block_count[m] = 0 /\ OpenOrders(m) = {}
          /\ block_count[m] \in Nat
      BY <2>1 DEF PlannerInv, TypeOK
    <3> QED
      BY <3>1, <1>1, <1>4, <1>5, <1>7, <2>1
  <2>2. \A p \in Partition : wakeup_state'[p] \in {"Blocked", "Completed"}
    <3>1. \A p \in Partition : p # n
      BY NodeAssumption
    <3> QED
      BY <3>1, <1>4 DEF PlannerInv, Node
  <2>3. send_runnable' = {s \in SendSystem : wakeup_state'[s] = "Pending"}
    <3>1. \A s \in SendSystem : s \in Node
      BY DEF Node, System
    <3> QED
      BY <3>1, <1>6 DEF PlannerInv, Steal
  <2>4. unsend_runnable' = {s \in UnsendSystem : wakeup_state'[s] = "Pending"}
    <3>1. \A s \in UnsendSystem : s \in Node
      BY DEF Node, System
    <3> QED
      BY <3>1, <1>6 DEF PlannerInv, Steal
  <2>5. Unfinished' = Unfinished
    BY <1>6 DEF Unfinished, Node
  <2> QED
    BY <1>9, <2>1, <2>2, <2>3, <2>4, <2>5 DEF PlannerInv, Steal
<1>12. ExclusionSafety'
  <2>1. \A a, b \in System : wakeup_state'[a] = "Started" /\ wakeup_state'[b] = "Started"
                               => b \notin exclusions[a]
    BY <1>3, <1>6 DEF ExclusionSafety, Node
  <2> QED
    BY <2>1 DEF ExclusionSafety, Steal
<1>13. NoPlannerPanic'
  <2>1. \A m \in exclusions[n] : wakeup_state[m] = "Pending" => m \in Runnable
    BY <1>1, <1>3 DEF PlannerInv, Runnable, System
  <2>2. ~StealPanics(n)
    BY <2>1, <1>1, <1>3 DEF StealPanics
  <2> QED
    BY Zenon, <2>2 DEF NoPlannerPanic, Steal
<1> QED
  BY <1>10, <1>11, <1>12, <1>13

-----------------------------------------------------------------------------
(* complete *)

(* The open orders that complete(n) closes for m: the edges from n itself  *)
(* for a partition, the edges from the partitions it completes for a       *)
(* system.                                                                 *)
Closed(n, m) ==
  IF m \in Partition THEN Edges(orders, n, m)
  ELSE {o \in DependenciesOf(orders, m) : Before[o] \in CompletedPars(n)}

(* The queues of complete(n) hold a node once per order they close and     *)
(* once if it excludes n, and those are all blockers the node counted.     *)
LEMMA UnblocksAreBlockers ==
  ASSUME Inv, NEW n \in System, wakeup_state[n] = "Started", NEW m \in Node
  PROVE  /\ Closed(n, m) \subseteq OpenOrders(m)
         /\ RunningExclusions(m) \cap {n} = IF m \in exclusions[n] THEN {n} ELSE {}
         /\ Unblocks(n, m) \in Nat
         /\ Cardinality(OpenOrders(m) \ Closed(n, m)) + Cardinality(RunningExclusions(m) \ {n})
              = Cardinality(OpenOrders(m)) + Cardinality(RunningExclusions(m)) - Unblocks(n, m)
         /\ Unblocks(n, m) <= Cardinality(OpenOrders(m)) + Cardinality(RunningExclusions(m))
         /\ Unblocks(n, m) = Cardinality(OpenOrders(m)) + Cardinality(RunningExclusions(m))
              => OpenOrders(m) = Closed(n, m)
<1> USE DEF Inv
<1>1. n \in Node
  BY DEF Node
<1>2. IsTopology(orders, exclusions)
  BY DEF TypeOK
<1>3. Closed(n, m) \subseteq OpenOrders(m)
  BY DEF Closed, OpenOrders, Edges, DependenciesOf, CompletedPars
<1>4. n \in exclusions[m] <=> m \in exclusions[n]
  BY <1>1, <1>2, TopologyFacts
<1>5. RunningExclusions(m) \cap {n} = IF m \in exclusions[n] THEN {n} ELSE {}
  BY <1>4 DEF RunningExclusions
<1>6. IsFiniteSet(OpenOrders(m)) /\ IsFiniteSet(RunningExclusions(m))
  BY BlockersFinite
<1>7. /\ Cardinality(OpenOrders(m)) \in Nat /\ Cardinality(Closed(n, m)) \in Nat
      /\ Cardinality(Closed(n, m)) <= Cardinality(OpenOrders(m))
      /\ Cardinality(OpenOrders(m) \ Closed(n, m)) = Cardinality(OpenOrders(m)) - Cardinality(Closed(n, m))
      /\ Cardinality(Closed(n, m)) = Cardinality(OpenOrders(m)) => Closed(n, m) = OpenOrders(m)
  BY <1>3, <1>6, CardMinus
<1> DEFINE x == IF m \in exclusions[n] THEN 1 ELSE 0
<1>8. /\ Cardinality(RunningExclusions(m)) \in Nat
      /\ x <= Cardinality(RunningExclusions(m))
      /\ Cardinality(RunningExclusions(m) \ {n}) = Cardinality(RunningExclusions(m)) - x
  <2>1. Cardinality({n}) = 1 /\ Cardinality({}) = 0
    BY FS_Singleton, FS_EmptySet
  <2>2. CASE m \in exclusions[n]
    <3>1. {n} \in SUBSET RunningExclusions(m)
      BY <1>5, <2>2
    <3>2. /\ Cardinality(RunningExclusions(m)) \in Nat
          /\ Cardinality({n}) <= Cardinality(RunningExclusions(m))
          /\ Cardinality(RunningExclusions(m) \ {n})
               = Cardinality(RunningExclusions(m)) - Cardinality({n})
      BY <3>1, <1>6, CardMinus
    <3> QED
      BY <3>2, <2>1, <2>2
  <2>3. CASE m \notin exclusions[n]
    <3>1. RunningExclusions(m) \ {n} = RunningExclusions(m)
      BY <1>5, <2>3
    <3>2. Cardinality(RunningExclusions(m)) \in Nat
      BY <1>6, FS_CardinalityType
    <3> QED
      BY <3>1, <3>2, <2>3
  <2> QED
    BY <2>2, <2>3
<1>9. Unblocks(n, m) = Cardinality(Closed(n, m)) + x
  <2>1. CASE m \in Partition
    <3>1. exclusions[n] \subseteq System
      BY <1>1, <1>2, TopologyFacts
    <3>2. x = 0
      BY <2>1, <3>1, NodeAssumption
    <3> QED
      BY <2>1, <3>2, <1>7 DEF Unblocks, Closed
  <2>2. CASE m \notin Partition
    BY <2>2 DEF Unblocks, Closed
  <2> QED
    BY <2>1, <2>2
<1>10. x \in {0, 1}
  OBVIOUS
<1> HIDE DEF x
<1> QED
  BY <1>3, <1>5, <1>7, <1>8, <1>9, <1>10

(* The partitions of CompletedPars are the released ones, and their orders *)
(* are the ones that close.                                                *)
LEMMA OpenOrdersAfterComplete ==
  ASSUME Inv, NEW n \in System, wakeup_state[n] = "Started", Complete(n), NEW m \in Node
  PROVE  OpenOrders(m)' = OpenOrders(m) \ Closed(n, m)
<1> USE DEF Inv
<1>1. \A k \in Node : wakeup_state'[k] =
         IF k = n THEN "Completed"
         ELSE IF Released(n, k) THEN IF k \in Partition THEN "Completed" ELSE "Pending"
         ELSE wakeup_state[k]
  BY DEF Complete
<1>2. orders' = orders
  BY DEF Complete, topology
<1>3. IsTopology(orders, exclusions)
  BY DEF TypeOK
<1>4. CASE m \in Partition
  <2>1. \A o \in DependenciesOf(orders, m) : Before[o] \in System
    BY <1>3, <1>4, TopologyFacts
  <2>2. \A k \in System : k \in Node /\ k \notin Partition
    BY NodeAssumption DEF Node
  <2>3. \A k \in System : wakeup_state'[k] = "Completed" <=> k = n \/ wakeup_state[k] = "Completed"
    BY <1>1, <2>2 DEF Released
  <2> QED
    BY <1>2, <1>4, <2>1, <2>3 DEF OpenOrders, Closed, Edges, DependenciesOf
<1>5. CASE m \in System
  <2>1. \A o \in DependenciesOf(orders, m) : Before[o] \in Partition
    BY <1>3, <1>5, TopologyFacts
  <2>2. m \notin Partition
    BY <1>5, NodeAssumption
  <2>3. ASSUME NEW p \in Partition
        PROVE  Released(n, p) <=> p \in CompletedPars(n)
    <3>1. p \in Node
      BY DEF Node
    <3>2. wakeup_state[p] = "Blocked" => block_count[p] > 0
      BY <3>1 DEF PlannerInv
    <3>3. block_count[p] \in Nat /\ Unblocks(n, p) \in Nat
      BY Zenon, <3>1, UnblocksAreBlockers DEF TypeOK
    <3>4. Unblocks(n, p) = Cardinality(Edges(orders, n, p))
      BY <2>3 DEF Unblocks
    <3>5. Edges(orders, n, p) = {} => Cardinality(Edges(orders, n, p)) = 0
      BY FS_EmptySet
    <3> QED
      BY <2>3, <3>2, <3>3, <3>4, <3>5 DEF Released, CompletedPars
  <2>4. \A p \in Partition : p \in Node /\ p # n
    BY NodeAssumption DEF Node
  <2>5. \A p \in Partition : wakeup_state'[p] = "Completed"
                               <=> p \in CompletedPars(n) \/ wakeup_state[p] = "Completed"
    BY <1>1, <2>3, <2>4
  <2> QED
    BY <1>2, <2>1, <2>2, <2>5 DEF OpenOrders, Closed, DependenciesOf
<1> QED
  BY <1>4, <1>5 DEF Node

(* Completing a running system keeps the counters exact: what each waiting *)
(* node loses is what the queues take from it, and the nodes that reach    *)
(* zero are the ones with no blocker left.                                 *)
LEMMA CompleteInv ==
  ASSUME Inv, NEW n \in System, wakeup_state[n] = "Started", Complete(n)
  PROVE  Inv'
<1> USE DEF Inv
<1>1. n \in Node /\ n \notin Partition
  BY NodeAssumption DEF Node
<1>2. IsTopology(orders, exclusions)
  BY DEF TypeOK
<1>3. orders' = orders /\ exclusions' = exclusions
  BY DEF Complete, topology
<1>4. ASSUME NEW m \in Node
      PROVE  /\ wakeup_state'[m] =
                   IF m = n THEN "Completed"
                   ELSE IF Released(n, m) THEN IF m \in Partition THEN "Completed" ELSE "Pending"
                   ELSE wakeup_state[m]
             /\ block_count'[m] =
                   IF wakeup_state[m] # "Blocked" THEN block_count[m]
                   ELSE IF Released(n, m) THEN 0
                   ELSE block_count[m] - Unblocks(n, m)
  BY <1>4 DEF Complete
<1>5. ASSUME NEW m \in Node
      PROVE  /\ wakeup_state'[m] = "Started" <=> wakeup_state[m] = "Started" /\ m # n
             /\ m \in System => (wakeup_state'[m] = "Completed" <=> m = n \/ wakeup_state[m] = "Completed")
             /\ m \in System => (wakeup_state'[m] = "Pending" <=> Released(n, m) \/ wakeup_state[m] = "Pending")
  BY <1>4, <1>5, NodeAssumption DEF Released
<1>6. ASSUME NEW m \in Node
      PROVE  RunningExclusions(m)' = RunningExclusions(m) \ {n}
  <2>1. exclusions[m] \subseteq Node
    BY SMTT(30), <1>2, <1>6, TopologyFacts DEF Node
  <2> QED
    BY <1>3, <1>5, <2>1 DEF RunningExclusions
<1>7. ASSUME NEW m \in Node, wakeup_state[m] = "Blocked"
      PROVE  /\ block_count[m] = Cardinality(OpenOrders(m)) + Cardinality(RunningExclusions(m))
             /\ block_count[m] \in Nat /\ Unblocks(n, m) \in Nat /\ Unblocks(n, m) <= block_count[m]
             /\ Cardinality(OpenOrders(m)') + Cardinality(RunningExclusions(m)') = block_count[m] - Unblocks(n, m)
             /\ Released(n, m) <=> Unblocks(n, m) = block_count[m]
             /\ Released(n, m) => OpenOrders(m)' = {}
             /\ block_count'[m] = block_count[m] - Unblocks(n, m)
  <2>1. block_count[m] = Cardinality(OpenOrders(m)) + Cardinality(RunningExclusions(m))
    BY <1>7 DEF PlannerInv
  <2>2. block_count[m] \in Nat
    BY <1>7 DEF TypeOK
  <2>3. /\ Unblocks(n, m) \in Nat
        /\ Cardinality(OpenOrders(m) \ Closed(n, m)) + Cardinality(RunningExclusions(m) \ {n})
             = Cardinality(OpenOrders(m)) + Cardinality(RunningExclusions(m)) - Unblocks(n, m)
        /\ Unblocks(n, m) <= Cardinality(OpenOrders(m)) + Cardinality(RunningExclusions(m))
        /\ Unblocks(n, m) = Cardinality(OpenOrders(m)) + Cardinality(RunningExclusions(m))
             => OpenOrders(m) = Closed(n, m)
    BY Zenon, <1>7, UnblocksAreBlockers
  <2>4. OpenOrders(m)' = OpenOrders(m) \ Closed(n, m)
    BY <1>7, OpenOrdersAfterComplete
  <2>5. RunningExclusions(m)' = RunningExclusions(m) \ {n}
    BY <1>6, <1>7
  <2>6. Released(n, m) <=> Unblocks(n, m) >= block_count[m]
    BY <1>7 DEF Released
  <2>7. Released(n, m) <=> Unblocks(n, m) = block_count[m]
    BY <2>1, <2>2, <2>3, <2>6
  <2>8. Released(n, m) => OpenOrders(m)' = {}
    BY <2>1, <2>3, <2>4, <2>7
  <2>9. block_count'[m] = block_count[m] - Unblocks(n, m)
    BY <1>4, <1>7, <2>2, <2>3, <2>7
  <2>10. Cardinality(OpenOrders(m)') + Cardinality(RunningExclusions(m)') = block_count[m] - Unblocks(n, m)
    <3>1. Cardinality(OpenOrders(m)') = Cardinality(OpenOrders(m) \ Closed(n, m))
      BY <2>4
    <3>2. Cardinality(RunningExclusions(m)') = Cardinality(RunningExclusions(m) \ {n})
      BY <2>5
    <3>3. Cardinality(OpenOrders(m)) \in Nat /\ Cardinality(RunningExclusions(m)) \in Nat
      BY <1>7, BlockersFinite
    <3> QED
      BY <2>1, <2>3, <3>1, <3>2, <3>3
  <2>11. Unblocks(n, m) <= block_count[m]
    BY <2>1, <2>3
  <2> QED
    BY <2>1, <2>2, <2>3, <2>7, <2>8, <2>9, <2>10, <2>11
<1>8. ASSUME NEW m \in Node, wakeup_state[m] # "Blocked"
      PROVE  /\ ~Released(n, m) /\ OpenOrders(m) = {} /\ OpenOrders(m)' = {}
             /\ block_count[m] = 0 /\ block_count'[m] = 0
  <2>1. block_count[m] = 0 /\ OpenOrders(m) = {}
    BY <1>8 DEF PlannerInv
  <2>2. OpenOrders(m)' = OpenOrders(m) \ Closed(n, m)
    BY <1>8, OpenOrdersAfterComplete
  <2> QED
    BY <1>4, <1>8, <2>1, <2>2 DEF Released
<1>9. ASSUME NEW m \in Node, m # n, wakeup_state[m] \in {"Pending", "Started"}
      PROVE  Unblocks(n, m) = 0 /\ m \notin exclusions[n]
  <2>1. m \notin exclusions[n]
    <3>1. CASE wakeup_state[m] = "Started"
      <4>1. exclusions[n] \subseteq System
        BY <1>1, <1>2, TopologyFacts
      <4> QED
        BY <3>1, <4>1 DEF ExclusionSafety
    <3>2. CASE wakeup_state[m] = "Pending"
      <4>1. RunningExclusions(m) = {}
        BY <3>2, <1>9, PendingIsFree
      <4>2. RunningExclusions(m) \cap {n} = IF m \in exclusions[n] THEN {n} ELSE {}
        BY Zenon, <1>9, UnblocksAreBlockers
      <4> QED
        BY <4>1, <4>2
    <3> QED
      BY <3>1, <3>2, <1>9
  <2>2. Closed(n, m) = {}
    <3>1. Closed(n, m) \subseteq OpenOrders(m)
      BY Zenon, <1>9, UnblocksAreBlockers
    <3> QED
      BY <3>1, <1>8, <1>9
  <2> QED
    BY <2>1, <2>2, FS_EmptySet DEF Unblocks, Closed
<1>10. remaining_systems > 0 /\ remaining_systems \in Nat
       /\ Unfinished' = Unfinished \ {n} /\ Cardinality(Unfinished') = remaining_systems - 1
  <2>1. n \in Unfinished /\ Unfinished \subseteq System
    BY DEF Unfinished
  <2>2. IsFiniteSet(Unfinished)
    BY <1>1, <1>2, <2>1, TopologyFacts, FS_Subset
  <2>3. Unfinished' = Unfinished \ {n}
    BY <1>5 DEF Unfinished, Node
  <2>4. remaining_systems = Cardinality(Unfinished) /\ remaining_systems \in Nat
    BY DEF PlannerInv, TypeOK
  <2>5. Cardinality(Unfinished \ {n}) = Cardinality(Unfinished) - 1
    BY Zenon, <2>1, <2>2, FS_RemoveElement
  <2>6. Cardinality(Unfinished) # 0
    BY <2>1, <2>2, FS_EmptySet
  <2> QED
    BY <2>3, <2>4, <2>5, <2>6
<1>11. TypeOK'
  <2>1. IsTopology(orders, exclusions)'
    BY <1>2, <1>3
  <2>2. wakeup_state' \in [Node -> WakeupState]
    BY DEF TypeOK, Complete, WakeupState
  <2>3. \A m \in Node : block_count'[m] \in Nat
    BY <1>7, <1>8
  <2>4. block_count' \in [Node -> Nat]
    BY <2>3 DEF Complete
  <2>5. planner_panic' \in BOOLEAN
    BY DEF Complete
  <2>6. send_runnable' \subseteq SendSystem /\ unsend_runnable' \subseteq UnsendSystem
    BY DEF TypeOK, Complete
  <2>7. remaining_systems' \in Nat
    BY <1>10 DEF Complete
  <2> QED
    BY <2>1, <2>2, <2>4, <2>5, <2>6, <2>7 DEF TypeOK
<1>12. PlannerInv'
  <2>1. ASSUME NEW m \in Node
        PROVE  /\ wakeup_state'[m] = "Blocked" => block_count'[m] > 0
               /\ wakeup_state'[m] # "Blocked" => block_count'[m] = 0 /\ OpenOrders(m)' = {}
               /\ wakeup_state'[m] \in {"Blocked", "Pending"} =>
                    block_count'[m] = Cardinality(OpenOrders(m)') + Cardinality(RunningExclusions(m)')
    <3>1. CASE wakeup_state[m] = "Blocked"
      <4>1. m # n
        BY <3>1
      <4>2. wakeup_state'[m] = "Blocked" <=> ~Released(n, m)
        BY <1>4, <2>1, <3>1, <4>1
      <4> QED
        BY <1>7, <2>1, <3>1, <4>2
    <3>2. CASE wakeup_state[m] # "Blocked"
      <4>1. wakeup_state'[m] # "Blocked"
        BY <1>4, <1>8, <2>1, <3>2
      <4>2. block_count'[m] = 0 /\ OpenOrders(m)' = {}
        BY <1>8, <2>1, <3>2
      <4>3. wakeup_state'[m] = "Pending" => Cardinality(OpenOrders(m)') + Cardinality(RunningExclusions(m)') = 0
        <5> SUFFICES ASSUME wakeup_state'[m] = "Pending"
                     PROVE  Cardinality(OpenOrders(m)') + Cardinality(RunningExclusions(m)') = 0
          OBVIOUS
        <5>1. wakeup_state[m] = "Pending"
          BY <1>4, <1>8, <2>1, <3>2
        <5>2. RunningExclusions(m)' = {}
          BY <5>1, <1>6, <2>1, PendingIsFree
        <5> QED
          BY <5>2, <4>2, FS_EmptySet
      <4> QED
        BY <4>1, <4>2, <4>3
    <3> QED
      BY <3>1, <3>2
  <2>2. \A p \in Partition : wakeup_state'[p] \in {"Blocked", "Completed"}
    BY SMTT(30), <1>4 DEF PlannerInv, Node
  <2>3. send_runnable' = {s \in SendSystem : wakeup_state'[s] = "Pending"}
    <3>1. \A s \in SendSystem : s \in Node /\ s \in System
      BY DEF Node, System
    <3> QED
      BY <3>1, <1>5 DEF PlannerInv, Complete
  <2>4. unsend_runnable' = {s \in UnsendSystem : wakeup_state'[s] = "Pending"}
    <3>1. \A s \in UnsendSystem : s \in Node /\ s \in System
      BY DEF Node, System
    <3> QED
      BY <3>1, <1>5 DEF PlannerInv, Complete
  <2>5. remaining_systems' = Cardinality(Unfinished')
    BY <1>10 DEF Complete
  <2> QED
    BY SMTT(30), <2>1, <2>2, <2>3, <2>4, <2>5 DEF PlannerInv
<1>13. ExclusionSafety'
  BY <1>3, <1>5 DEF ExclusionSafety, Node
<1>14. NoPlannerPanic'
  <2>1. \A m \in System : wakeup_state[m] = "Blocked" => m \notin Runnable
    BY NodeAssumption DEF PlannerInv, Runnable
  <2>2. \A m \in Node \ {n} : wakeup_state[m] = "Blocked" => ~(Unblocks(n, m) > block_count[m])
    BY <1>7
  <2>3. \A m \in Node \ {n} : wakeup_state[m] \in {"Pending", "Started"} => ~(Unblocks(n, m) > 0)
    BY <1>9
  <2>4. ~CompletePanics(n)
    BY <1>10, <2>1, <2>2, <2>3 DEF CompletePanics
  <2> QED
    BY Zenon, <2>4 DEF NoPlannerPanic, Complete
<1> QED
  BY <1>11, <1>12, <1>13, <1>14

-----------------------------------------------------------------------------
(* The invariant *)

(* The planner every cycle starts from satisfies the invariant.            *)
THEOREM InvInit == Init => Inv
BY InitialPlannerInv DEF Init, IsTopology

(* steal_send, steal_unsend, complete and the reset of a cycle keep it.    *)
THEOREM InvNext == Inv /\ [Next]_vars => Inv'
<1> SUFFICES ASSUME Inv, [Next]_vars PROVE Inv'
  OBVIOUS
<1>1. CASE NextStealSend
  BY <1>1, StealInv DEF NextStealSend, StealSend, PopFirst, Runnable, System
<1>2. CASE NextStealUnsend
  BY <1>2, StealInv DEF NextStealUnsend, StealUnsend, PopFirst, Runnable, System
<1>3. CASE NextComplete
  BY <1>3, CompleteInv DEF NextComplete
<1>4. CASE Reset
  <2>1. IsTopology(orders, exclusions)'
    BY <1>4 DEF Reset, topology, Inv, TypeOK
  <2>2. InitialPlanner'
    BY SMTT(30), <1>4 DEF Reset, topology, InitialPlanner
  <2> QED
    BY <2>1, <2>2, InitialPlannerInv, PTL
<1>5. CASE UNCHANGED vars
  BY <1>5 DEF vars, Inv, TypeOK, PlannerInv, ExclusionSafety, NoPlannerPanic,
              OpenOrders, RunningExclusions, Unfinished
<1> QED
  BY <1>1, <1>2, <1>3, <1>4, <1>5 DEF Next

(* Every reachable state of the planner satisfies the invariant.           *)
THEOREM InvAlways == Spec => []Inv
BY InvInit, InvNext, PTL DEF Spec

(* The counters and the pools of the planner are exact in every state.     *)
THEOREM PlannerInvAlways == Spec => [](TypeOK /\ PlannerInv)
<1>1. Inv => TypeOK /\ PlannerInv
  BY DEF Inv
<1> QED
  BY <1>1, InvAlways, PTL

(* No two systems with conflicting accesses are ever running together.     *)
THEOREM ExclusionSafetyAlways == Spec => []ExclusionSafety
<1>1. Inv => ExclusionSafety
  BY DEF Inv
<1> QED
  BY <1>1, InvAlways, PTL

(* No panic branch of planner.rs is reachable.                             *)
THEOREM NoPlannerPanicAlways == Spec => []NoPlannerPanic
<1>1. Inv => NoPlannerPanic
  BY DEF Inv
<1> QED
  BY <1>1, InvAlways, PTL

-----------------------------------------------------------------------------
(* Consequences *)

(* A node past Blocked has only completed nodes in front of it, and a      *)
(* completed partition only completed systems.                             *)
LEMMA BarrierLemma ==
  ASSUME Inv, NEW o1 \in orders, NEW o2 \in orders, After[o1] = Before[o2],
         wakeup_state[After[o2]] # "Blocked"
  PROVE  wakeup_state[Before[o1]] = "Completed"
<1>1. IsTopology(orders, exclusions)
  BY DEF Inv, TypeOK
<1>2. o1 \in Order /\ o2 \in Order
  BY <1>1 DEF IsTopology, AcyclicOrders
<1>3. After[o1] \in Node /\ After[o2] \in Node /\ Before[o1] \in Node
  BY <1>2, OrderAssumption
<1>4. OpenOrders(After[o2]) = {}
  BY <1>3 DEF Inv, PlannerInv
<1>5. wakeup_state[Before[o2]] = "Completed"
  BY SMTT(30), <1>4 DEF OpenOrders, DependenciesOf
<1>6. OpenOrders(After[o1]) = {}
  BY <1>3, <1>5 DEF Inv, PlannerInv
<1> QED
  BY <1>6 DEF OpenOrders, DependenciesOf

(* Partitions are barriers: no system is started while a system in front   *)
(* of a partition before it has not completed.                             *)
THEOREM PartitionBarrierAlways == Spec => []PartitionBarrier
<1>1. Inv => PartitionBarrier
  BY BarrierLemma DEF PartitionBarrier
<1> QED
  BY <1>1, InvAlways, PTL

(* The nodes that are not completed contain, because scan_cycles found no  *)
(* cycle, one that waits for none of them; it can only be a system in a    *)
(* pool, a running system, or one excluded by a running system.            *)
LEMMA InvNoStall == Inv => NoStall
<1>1. ASSUME Inv, remaining_systems # 0, Runnable = {},
             \A s \in System : wakeup_state[s] # "Started"
      PROVE  FALSE
  <2> DEFINE S == {n \in Node : wakeup_state[n] # "Completed"}
  <2>1. IsTopology(orders, exclusions) /\ TypeOK /\ PlannerInv
    BY SMTT(30), <1>1 DEF Inv, TypeOK
  <2>2. Unfinished # {}
    BY <1>1, <2>1, FS_EmptySet DEF PlannerInv
  <2>3. S # {} /\ S \in SUBSET Node
    BY <2>2 DEF Unfinished, Node
  <2>4. PICK n \in S : \A o \in DependenciesOf(orders, n) : Before[o] \notin S
    BY Zenon, <2>1, <2>3 DEF IsTopology, AcyclicOrders, Acyclic
  <2>5. n \in Node /\ wakeup_state[n] # "Completed"
    BY <2>4
  <2>6. OpenOrders(n) = {}
    <3>1. \A o \in DependenciesOf(orders, n) : Before[o] \in Node
      BY Zenon, <2>1, <2>5, TopologyFacts DEF DependenciesOf
    <3> QED
      BY <2>4, <3>1 DEF OpenOrders
  <2>7. RunningExclusions(n) = {}
    <3>1. exclusions[n] \subseteq System
      BY <2>1, <2>5, TopologyFacts
    <3> QED
      BY <1>1, <3>1 DEF RunningExclusions
  <2>8. Cardinality(OpenOrders(n)) + Cardinality(RunningExclusions(n)) = 0
    BY <2>6, <2>7, FS_EmptySet
  <2>9. wakeup_state[n] # "Blocked"
    BY <2>1, <2>5, <2>8 DEF PlannerInv
  <2>10. n \in System
    BY <2>1, <2>5, <2>9 DEF PlannerInv, Node
  <2>11. wakeup_state[n] = "Pending"
    BY <1>1, <2>1, <2>5, <2>9, <2>10 DEF TypeOK, WakeupState
  <2> QED
    BY <1>1, <2>1, <2>10, <2>11 DEF PlannerInv, Runnable, System
<1> QED
  BY SMTT(30), <1>1 DEF NoStall

(* While systems remain there is always one running or one to steal.       *)
THEOREM NoStallAlways == Spec => []NoStall
BY InvNoStall, InvAlways, PTL

(* When no system remains every partition has completed as well.           *)
LEMMA InvCompleteAtEnd == Inv => CompleteAtEnd
<1>1. ASSUME Inv, remaining_systems = 0, NEW n \in Node
      PROVE  wakeup_state[n] = "Completed"
  <2>1. IsTopology(orders, exclusions) /\ TypeOK /\ PlannerInv
    BY <1>1 DEF Inv, TypeOK
  <2>2. IsFiniteSet(Unfinished)
    BY <1>1, <2>1, TopologyFacts, FS_Subset, Unfinished \subseteq System DEF Unfinished
  <2>3. \A s \in System : wakeup_state[s] = "Completed"
    BY <1>1, <2>1, <2>2, CardZero DEF PlannerInv, Unfinished
  <2>4. CASE n \in Partition
    <3>1. \A o \in DependenciesOf(orders, n) : Before[o] \in System
      BY <1>1, <2>1, <2>4, TopologyFacts
    <3>2. OpenOrders(n) = {}
      BY <2>3, <3>1 DEF OpenOrders
    <3>3. RunningExclusions(n) = {}
      BY <1>1, <2>1, <2>4, BlockersFinite
    <3>4. Cardinality(OpenOrders(n)) + Cardinality(RunningExclusions(n)) = 0
      BY <3>2, <3>3, FS_EmptySet
    <3>5. wakeup_state[n] # "Blocked"
      BY <1>1, <2>1, <3>4 DEF PlannerInv
    <3> QED
      BY <2>1, <2>4, <3>5 DEF PlannerInv
  <2> QED
    BY <1>1, <2>3, <2>4 DEF Node
<1> QED
  BY <1>1 DEF CompleteAtEnd

(* The debug assertion at the end of a cycle holds.                        *)
THEOREM CompleteAtEndAlways == Spec => []CompleteAtEnd
BY InvCompleteAtEnd, InvAlways, PTL

-----------------------------------------------------------------------------
(* Refinement *)

(* How the wakeup states of a system read in the contract.                 *)
LEMMA StatusFacts ==
  ASSUME TypeOK, NEW s \in System
  PROVE  /\ Status(s) = "Waiting" <=> wakeup_state[s] \in {"Blocked", "Pending"}
         /\ Status(s) = "Running" <=> wakeup_state[s] = "Started"
         /\ Status(s) = "Finished" <=> wakeup_state[s] = "Completed"
         /\ Status(s) \in {"Waiting", "Running", "Finished"}
BY DEF TypeOK, Status, WakeupState, Node

(* A steal is a start the contract allows.                                 *)
LEMMA StealRefines ==
  ASSUME Inv, Inv', NEW n \in System, n \in Runnable, Steal(n)
  PROVE  Contract!Start(n)
<1>1. n \in Node /\ wakeup_state[n] = "Pending" /\ TypeOK /\ TypeOK'
  BY DEF Inv, PlannerInv, Runnable, Node
<1>2. \A s \in System : Status(s)' = IF s = n THEN "Running" ELSE Status(s)
  <2> SUFFICES ASSUME NEW s \in System
               PROVE  Status(s)' = IF s = n THEN "Running" ELSE Status(s)
    OBVIOUS
  <2>1. wakeup_state'[s] = IF s = n THEN "Started"
                           ELSE IF BlockedByStart(n, s) THEN "Blocked" ELSE wakeup_state[s]
    BY DEF Steal, Node
  <2> QED
    BY <1>1, <2>1 DEF Status, BlockedByStart
<1>3. ASSUME NEW a \in Contract!Anterior(orders, n)
      PROVE  a \in System /\ wakeup_state[a] = "Completed"
  <2>1. PICK o1, o2 \in orders : Before[o1] = a /\ After[o1] = Before[o2] /\ After[o2] = n
    BY <1>3 DEF Contract!Anterior
  <2>2. wakeup_state[Before[o1]] = "Completed"
    BY <1>1, <2>1, BarrierLemma
  <2> QED
    BY <1>3, <2>1, <2>2 DEF Contract!Anterior, Contract!System, System
<1>4. ASSUME NEW x \in exclusions[n]
      PROVE  x \in System /\ wakeup_state[x] # "Started"
  <2>1. x \in System
    BY <1>1, <1>4, TopologyFacts DEF TypeOK
  <2> QED
    BY <1>1, <1>4, <2>1, PendingIsFree DEF RunningExclusions
<1>5. Status(n) = "Waiting"
  BY <1>1, StatusFacts
<1>6. \A a \in Contract!Anterior(orders, n) : a \in System /\ Status(a) = "Finished"
  BY <1>1, <1>3, StatusFacts
<1>7. \A x \in exclusions[n] : x \in System /\ Status(x) # "Running"
  BY <1>1, <1>4, StatusFacts
<1>8. [s \in System |-> Status(s)]' = [[s \in System |-> Status(s)] EXCEPT ![n] = "Running"]
  BY Zenon, <1>2
<1>9. UNCHANGED <<orders, exclusions>>
  BY DEF Steal
<1> QED
  BY SMTT(30), <1>5, <1>6, <1>7, <1>8, <1>9 DEF Contract!Start

(* The planner implements the contract of a cycle.                         *)
THEOREM PlannerImplementsSchedule == Spec => ImplementsSchedule
<1>1. Init => Contract!ScheduleInit
  <2> SUFFICES ASSUME Init PROVE Contract!ScheduleInit
    OBVIOUS
  <2>1. \A s \in System : wakeup_state[s] \in {"Blocked", "Pending"}
    BY DEF Init, InitialPlanner, InitialState, Node
  <2>2. [s \in System |-> Status(s)] = [s \in System |-> "Waiting"]
    BY <2>1 DEF Status
  <2> QED
    BY <2>2 DEF Init, Contract!ScheduleInit, AcyclicOrders,
                Contract!Exclusions, Exclusions, Contract!Node, Node,
                Contract!System, System
<1>2. Inv /\ Inv' /\ [Next]_vars => [Contract!ScheduleNext]_(Contract!svars)
  <2> SUFFICES ASSUME Inv, Inv', [Next]_vars
               PROVE  [Contract!ScheduleNext]_(Contract!svars)
    OBVIOUS
  <2>1. Contract!System = System
    BY DEF Contract!System, System
  <2>2. TypeOK
    BY DEF Inv
  <2>3. CASE NextStealSend \/ NextStealUnsend
    <3>1. PICK n \in System : n \in Runnable /\ Steal(n)
      BY <2>3 DEF NextStealSend, StealSend, NextStealUnsend, StealUnsend, PopFirst, Runnable, System
    <3>2. Contract!Start(n)
      BY <3>1, StealRefines
    <3> QED
      BY <3>2, <2>1 DEF Contract!ScheduleNext
  <2>4. CASE NextComplete
    <3>1. PICK n \in System : wakeup_state[n] = "Started" /\ Complete(n)
      BY <2>4 DEF NextComplete
    <3>2. \A s \in System : Status(s)' = IF s = n THEN "Finished" ELSE Status(s)
      <4> SUFFICES ASSUME NEW s \in System
                   PROVE  Status(s)' = IF s = n THEN "Finished" ELSE Status(s)
        OBVIOUS
      <4>1. s \in Node /\ s \notin Partition
        BY NodeAssumption DEF Node
      <4>2. wakeup_state'[s] = IF s = n THEN "Completed"
                               ELSE IF Released(n, s) THEN "Pending" ELSE wakeup_state[s]
        BY <3>1, <4>1 DEF Complete
      <4> QED
        BY <3>1, <4>2 DEF Status, Released
    <3>3. [s \in System |-> Status(s)]' = [[s \in System |-> Status(s)] EXCEPT ![n] = "Finished"]
      BY Zenon, <3>2
    <3>4. Status(n) = "Running"
      BY <2>2, <3>1, StatusFacts
    <3>5. Contract!Finish(n)
      BY <3>1, <3>3, <3>4 DEF Contract!Finish, Complete, topology
    <3> QED
      BY <3>5, <2>1 DEF Contract!ScheduleNext
  <2>5. CASE Reset
    <3>1. IsFiniteSet(Unfinished)
      <4>1. IsFiniteSet(System)
        BY Zenon, NodeAssumption, FS_Union DEF System
      <4> QED
        BY <4>1, FS_Subset, Unfinished \subseteq System DEF Unfinished
    <3>2. \A s \in System : wakeup_state[s] = "Completed"
      <4>1. Cardinality(Unfinished) = 0
        BY <2>5 DEF Inv, PlannerInv, Reset
      <4>2. Unfinished = {}
        BY <3>1, <4>1, CardZero
      <4> QED
        BY <4>2 DEF Unfinished
    <3>3. \A s \in System : Status(s) = "Finished"
      BY <2>2, <3>2, StatusFacts
    <3>4. \A s \in System : wakeup_state'[s] \in {"Blocked", "Pending"}
      BY <2>5 DEF Reset, InitialState, Node
    <3>5. \A s \in System : Status(s)' = "Waiting"
      BY <3>4 DEF Status
    <3>6. Contract!NextCycle
      BY <2>1, <2>5, <3>3, <3>5 DEF Contract!NextCycle, Reset, topology
    <3> QED
      BY <3>6 DEF Contract!ScheduleNext
  <2>6. CASE UNCHANGED vars
    BY <2>6 DEF vars, Contract!svars, Status
  <2> QED
    BY <2>3, <2>4, <2>5, <2>6 DEF Next
<1> QED
  BY <1>1, <1>2, InvAlways, PTL DEF Spec, ImplementsSchedule, Contract!ScheduleSpec

=============================================================================
