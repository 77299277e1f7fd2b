------------------------------- MODULE Planner -------------------------------
(***************************************************************************)
(* The tick-local scheduling state (src/scheduler/planner.rs).  Every      *)
(* operation runs under the planner mutex, so each is one atomic action.   *)
(*                                                                         *)
(* A WakeupState is a pair: wakeup_state[n] is the variant, block_count[n] *)
(* the count carried by Blocked (0 for the other variants).                *)
(***************************************************************************)
EXTENDS Topology

VARIABLES
  wakeup_state,
  block_count,
  send_runnable,
  unsend_runnable,
  remaining_systems,
  planner_panic       \* a panic! or expect() of planner.rs has fired

topology == <<orders, exclusions>>
planner == <<wakeup_state, block_count, send_runnable, unsend_runnable,
             remaining_systems, planner_panic>>
vars == <<orders, exclusions, wakeup_state, block_count, send_runnable,
          unsend_runnable, remaining_systems, planner_panic>>

WakeupState == {"Blocked", "Pending", "Started", "Completed"}

Runnable == send_runnable \cup unsend_runnable

(* The planner a cycle starts from: Topology::initial_planner.             *)
InitialPlanner ==
  /\ wakeup_state = [n \in Node |-> InitialState(orders, n)]
  /\ block_count = [n \in Node |-> InitialCount(orders, n)]
  /\ send_runnable = InitialRunnable(orders, SendSystem)
  /\ unsend_runnable = InitialRunnable(orders, UnsendSystem)
  /\ remaining_systems = Cardinality(System)
  /\ planner_panic = FALSE

(* There is no planner before Topology::init returns one.                  *)
NoPlanner ==
  /\ wakeup_state = [n \in Node |-> "Completed"]
  /\ block_count = [n \in Node |-> 0]
  /\ send_runnable = {} /\ unsend_runnable = {}
  /\ remaining_systems = 0
  /\ planner_panic = FALSE

Init ==
  /\ orders \in AcyclicOrders
  /\ exclusions \in Exclusions
  /\ InitialPlanner

-----------------------------------------------------------------------------
(* steal: what it does once a node has been popped from its pool.          *)

PopFirst(pool, n) == n \in pool /\ \A m \in pool : n <= m

(* Mutants: a start blocks only the nodes that are Pending, or only those  *)
(* that are Blocked already.                                               *)
MutBlockedByStartPending(n, m) == m \in exclusions[n] /\ wakeup_state[m] = "Pending"
MutBlockedByStartBlocked(n, m) == m \in exclusions[n] /\ wakeup_state[m] = "Blocked"

(* Exclusive nodes that have not started get one more blocker; a Pending   *)
(* one leaves its pool.                                                    *)
BlockedByStart(n, m) == m \in exclusions[n] /\ wakeup_state[m] \in {"Pending", "Blocked"}

StealPanics(n) ==
  \/ wakeup_state[n] # "Pending"
  \/ \E m \in exclusions[n] :
        \/ wakeup_state[m] = "Started"
        \/ wakeup_state[m] = "Pending" /\ m \notin Runnable

Steal(n) ==
  /\ remaining_systems # 0
  /\ wakeup_state' = [m \in Node |-> IF m = n THEN "Started"
                                     ELSE IF BlockedByStart(n, m) THEN "Blocked"
                                     ELSE wakeup_state[m]]
  /\ block_count' = [m \in Node |-> IF BlockedByStart(n, m) THEN block_count[m] + 1
                                    ELSE block_count[m]]
  /\ send_runnable' = {m \in send_runnable : m # n /\ ~BlockedByStart(n, m)}
  /\ unsend_runnable' = {m \in unsend_runnable : m # n /\ ~BlockedByStart(n, m)}
  /\ planner_panic' = (planner_panic \/ StealPanics(n))
  /\ UNCHANGED <<orders, exclusions, remaining_systems>>

StealSend(n) == PopFirst(send_runnable, n) /\ Steal(n)
StealUnsend(n) == PopFirst(unsend_runnable, n) /\ Steal(n)

-----------------------------------------------------------------------------
(* complete: remove_one_block over the dependents, then the exclusions.    *)

(* Mutant: a partition completes with the first of its dependencies.       *)
MutCompletedPars(n) == {p \in Partition : wakeup_state[p] = "Blocked" /\ Edges(orders, n, p) # {}}

(* The partitions that lose their last blocker; they complete in place     *)
(* and their own dependents join the queue.                                *)
CompletedPars(n) ==
  {p \in Partition : /\ wakeup_state[p] = "Blocked"
                     /\ Edges(orders, n, p) # {}
                     /\ block_count[p] <= Cardinality(Edges(orders, n, p))}

(* How often the queues of complete(n) hold the node m.                    *)
Unblocks(n, m) ==
  IF m \in Partition
  THEN Cardinality(Edges(orders, n, m))
  ELSE Cardinality({o \in DependenciesOf(orders, m) : Before[o] \in CompletedPars(n)})
         + (IF m \in exclusions[n] THEN 1 ELSE 0)

Released(n, m) ==
  /\ wakeup_state[m] = "Blocked"
  /\ Unblocks(n, m) >= block_count[m]

CompletePanics(n) ==
  \/ wakeup_state[n] # "Started"
  \/ remaining_systems = 0
  \/ \E m \in Node \ {n} :
        /\ Unblocks(n, m) > 0
        /\ \/ wakeup_state[m] \in {"Pending", "Started"}
           \/ /\ m \in System /\ wakeup_state[m] = "Blocked"
              /\ \/ Unblocks(n, m) > block_count[m]
                 \/ Released(n, m) /\ m \in Runnable

Complete(n) ==
  /\ wakeup_state' = [m \in Node |->
        IF m = n THEN "Completed"
        ELSE IF Released(n, m) THEN IF m \in Partition THEN "Completed" ELSE "Pending"
        ELSE wakeup_state[m]]
  /\ block_count' = [m \in Node |->
        IF wakeup_state[m] # "Blocked" THEN block_count[m]
        ELSE IF Released(n, m) THEN 0
        ELSE block_count[m] - Unblocks(n, m)]
  /\ send_runnable' = send_runnable \cup {m \in SendSystem : Released(n, m)}
  /\ unsend_runnable' = unsend_runnable \cup {m \in UnsendSystem : Released(n, m)}
  /\ remaining_systems' = remaining_systems - 1
  /\ planner_panic' = (planner_panic \/ CompletePanics(n))
  /\ UNCHANGED topology

(* execute_full_cycle resets the planner before the workers start.         *)
Reset ==
  /\ remaining_systems = 0
  /\ wakeup_state' = [n \in Node |-> InitialState(orders, n)]
  /\ block_count' = [n \in Node |-> InitialCount(orders, n)]
  /\ send_runnable' = InitialRunnable(orders, SendSystem)
  /\ unsend_runnable' = InitialRunnable(orders, UnsendSystem)
  /\ remaining_systems' = Cardinality(System)
  /\ planner_panic' = FALSE
  /\ UNCHANGED topology

-----------------------------------------------------------------------------

(* Some thread steals a thread-safe system.                                *)
NextStealSend == \E n \in SendSystem : StealSend(n)

(* The main thread steals a system bound to it.                            *)
NextStealUnsend == \E n \in UnsendSystem : StealUnsend(n)

(* A thread reports the system it has run.                                 *)
NextComplete == \E n \in System : wakeup_state[n] = "Started" /\ Complete(n)

Next == NextStealSend \/ NextStealUnsend \/ NextComplete \/ Reset

Spec == Init /\ [][Next]_vars

-----------------------------------------------------------------------------

(* Every variable stays in its Rust type; in particular the usize counters *)
(* never go below zero.                                                    *)
TypeOK ==
  /\ IsTopology(orders, exclusions)
  /\ wakeup_state \in [Node -> WakeupState]
  /\ block_count \in [Node -> Nat]
  /\ send_runnable \subseteq SendSystem
  /\ unsend_runnable \subseteq UnsendSystem
  /\ remaining_systems \in Nat
  /\ planner_panic \in BOOLEAN

(* The orders that still hold m back, and the running nodes it excludes.   *)
OpenOrders(m) == {o \in DependenciesOf(orders, m) : wakeup_state[Before[o]] # "Completed"}
RunningExclusions(m) == {x \in exclusions[m] : wakeup_state[x] = "Started"}
Unfinished == {s \in System : wakeup_state[s] # "Completed"}

(* The counters and pools of the planner are exact: a waiting node counts  *)
(* one blocker per open order and per running exclusive node, Blocked is   *)
(* a nonzero count, the pools hold the Pending systems, a node past        *)
(* Blocked has no open order, a partition never waits in a pool, and       *)
(* remaining_systems counts the systems left (wakeup_state, send_runnable, *)
(* unsend_runnable and remaining_systems of Planner agree).                *)
PlannerInv ==
  /\ \A m \in Node :
       /\ wakeup_state[m] = "Blocked" => block_count[m] > 0
       /\ wakeup_state[m] # "Blocked" => block_count[m] = 0 /\ OpenOrders(m) = {}
       /\ wakeup_state[m] \in {"Blocked", "Pending"} =>
            block_count[m] = Cardinality(OpenOrders(m)) + Cardinality(RunningExclusions(m))
  /\ \A p \in Partition : wakeup_state[p] \in {"Blocked", "Completed"}
  /\ send_runnable = {s \in SendSystem : wakeup_state[s] = "Pending"}
  /\ unsend_runnable = {s \in UnsendSystem : wakeup_state[s] = "Pending"}
  /\ remaining_systems = Cardinality(Unfinished)

(* Two systems with conflicting accesses never run at the same time.       *)
ExclusionSafety ==
  \A n, m \in System :
    wakeup_state[n] = "Started" /\ wakeup_state[m] = "Started" => m \notin exclusions[n]

(* A partition is a barrier: when a system behind it has been started,     *)
(* every system in front of it has completed.                              *)
PartitionBarrier ==
  \A o1, o2 \in orders :
    /\ After[o1] = Before[o2]
    /\ wakeup_state[After[o2]] \in {"Started", "Completed"}
    /\ Before[o1] \in System
    => wakeup_state[Before[o1]] = "Completed"

(* None of the panic!, expect() and "should not" branches of steal,        *)
(* complete and remove_one_block_no_recursion is reachable.                *)
NoPlannerPanic == ~planner_panic

(* While systems remain, one is running or one can be stolen: the threads  *)
(* cannot all wait for each other.                                         *)
NoStall ==
  remaining_systems # 0 =>
    Runnable # {} \/ \E s \in System : wakeup_state[s] = "Started"

(* When the planner reports CycleComplete, every node is Completed, the    *)
(* partitions included: the debug assertion at the end of                  *)
(* execute_full_cycle.                                                     *)
CompleteAtEnd ==
  remaining_systems = 0 => \A n \in Node : wakeup_state[n] = "Completed"

(* The planner implements the contract of a cycle.                         *)
Status(s) ==
  IF wakeup_state[s] = "Started" THEN "Running"
  ELSE IF wakeup_state[s] = "Completed" THEN "Finished" ELSE "Waiting"

Contract == INSTANCE Schedule WITH status <- [s \in System |-> Status(s)]

(* Every behaviour of the planner is a behaviour of Schedule: starts       *)
(* respect barriers and exclusions, each system runs once per cycle.       *)
ImplementsSchedule == Contract!ScheduleSpec

=============================================================================
