------------------------------ MODULE Schedule ------------------------------
(***************************************************************************)
(* What a cycle of the scheduler promises, without saying how: the         *)
(* contract of partitions (src/system/partition.rs) and of conflicting     *)
(* resource accesses (src/scheduler.rs).  Planner implements it.           *)
(***************************************************************************)
EXTENDS Topology

VARIABLE status   \* of each system: Waiting, Running or Finished

svars == <<orders, exclusions, status>>

(* The systems a partition puts before s.                                  *)
Anterior(os, s) ==
  {a \in System : \E o1, o2 \in os : /\ Before[o1] = a
                                     /\ After[o1] = Before[o2]
                                     /\ After[o2] = s}

(* A cycle begins, or the first one has yet to.                            *)
ScheduleInit ==
  /\ orders \in SUBSET Order
  /\ exclusions \in Exclusions
  /\ \E st \in {"Waiting", "Finished"} : status = [s \in System |-> st]

Start(s) ==
  /\ status[s] = "Waiting"
  /\ \A a \in Anterior(orders, s) : status[a] = "Finished"
  /\ \A x \in exclusions[s] : status[x] # "Running"
  /\ status' = [status EXCEPT ![s] = "Running"]
  /\ UNCHANGED <<orders, exclusions>>

Finish(s) ==
  /\ status[s] = "Running"
  /\ status' = [status EXCEPT ![s] = "Finished"]
  /\ UNCHANGED <<orders, exclusions>>

(* The next cycle begins only when every system of this one has run.       *)
NextCycle ==
  /\ \A s \in System : status[s] = "Finished"
  /\ status' = [s \in System |-> "Waiting"]
  /\ UNCHANGED <<orders, exclusions>>

ScheduleNext == NextCycle \/ \E s \in System : Start(s) \/ Finish(s)

ScheduleSpec == ScheduleInit /\ [][ScheduleNext]_svars

=============================================================================
