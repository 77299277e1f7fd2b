------------------------------ MODULE Scheduler ------------------------------
(***************************************************************************)
(* A world from its builder to its cycles: Builder registers systems and   *)
(* builds the topology, Planner runs it (src/scheduler.rs, src/world.rs).  *)
(* What a system's author relies on is stated here, in terms of what the   *)
(* systems asked for.                                                      *)
(***************************************************************************)
EXTENDS Builder, Planner

world == <<bvars, planner>>

WorldInit == BuildInit /\ NoPlanner

(* The calls on the builder that come before build().                      *)
Register ==
  /\ \/ \E s \in System : \E spec \in SpecOf[s] : ScheduleSystem(s, spec)
     \/ \E g \in Global : ProvideGlobal(g) \/ ProvideGlobalUnsync(g)
  /\ UNCHANGED planner

(* Builder::build ends with a clone of the initial planner.                *)
BuildWorld ==
  /\ Build
  /\ IF phase' = "built"
     THEN /\ wakeup_state' = [n \in Node |-> InitialState(orders, n)]
          /\ block_count' = [n \in Node |-> InitialCount(orders, n)]
          /\ send_runnable' = InitialRunnable(orders, SendSystem)
          /\ unsend_runnable' = InitialRunnable(orders, UnsendSystem)
          /\ remaining_systems' = Cardinality(System)
          /\ planner_panic' = FALSE
     ELSE UNCHANGED planner

(* World::execute: the operations of a cycle and the reset before the next.*)
Execute == phase = "built" /\ Next /\ UNCHANGED builder

WorldNext == Register \/ BuildWorld \/ Execute

WorldSpec == WorldInit /\ [][WorldNext]_world

-----------------------------------------------------------------------------

Started(s) == wakeup_state[s] = "Started"

(* While a system runs with a mutable request, no other running system     *)
(* reaches a cell of that request ("when a system requesting &mut T is     *)
(* running, all other systems requesting &T or &mut T cannot run until the *)
(* system is complete").                                                   *)
NoAliasedAccess ==
  phase = "built" =>
    \A s, u \in System : s # u /\ Started(s) /\ Started(u) =>
      \A r \in Requests(scheduled[s]), q \in Requests(scheduled[u]) :
        r.mutable => Cells(r) \cap Cells(q) = {}

(* The archetypes of whose entities a system owns strong references that   *)
(* it takes for initialized, and those it creates behind the partition.    *)
Assumes(spec) ==
  (spec.state_refs \ spec.maybe_uninit) \cup UNION {r.strong_refs : r \in Requests(spec)}
Creates(spec) == spec.creates \ spec.no_partition

(* EntityCreationPartition: when a system that creates entities of an      *)
(* archetype has been started, every system that takes its references to   *)
(* that archetype for initialized is done with the cycle.                  *)
HoldersBeforeCreators ==
  phase = "built" =>
    \A s, u \in System :
      /\ Assumes(scheduled[s]) \cap Creates(scheduled[u]) # {}
      /\ wakeup_state[u] \in {"Started", "Completed"}
      => wakeup_state[s] = "Completed"

(* What Planner takes for granted of its topology is what Builder leaves,  *)
(* so its invariants hold in every world that was built.                   *)
WorldInv == phase = "built" => TypeOK /\ PlannerInv /\ ExclusionSafety /\ NoPlannerPanic

=============================================================================
