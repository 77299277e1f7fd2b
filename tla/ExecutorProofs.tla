--------------------------- MODULE ExecutorProofs ---------------------------
(***************************************************************************)
(* The executor is correct for every number of worker threads: it drives   *)
(* the planner as the planner expects, runs every system on one thread,    *)
(* and, as long as no wait times out, loses no wakeup.                     *)
(***************************************************************************)
EXTENDS Executor, PlannerProofs

(* Without timeouts a parked thread has nothing to do and start_wait does  *)
(* not panic.                                                              *)
WakeupInv == ~Timeouts => NoLostWakeup /\ NoDeadlockDetected

EInv == Inv /\ ExecTypeOK /\ OneThreadPerSystem /\ ThreadInv /\ WakeupInv

-----------------------------------------------------------------------------

(* The threads, those at work and those that wait are finite sets.         *)
LEMMA ThreadsFinite ==
  /\ IsFiniteSet(Thread) /\ Cardinality(Thread) \in Nat
  /\ IsFiniteSet(Active) /\ Cardinality(Active) \in Nat
  /\ IsFiniteSet(Waiting) /\ Cardinality(Waiting) \in Nat
  /\ IsFiniteSet(Thread \ Waiting) /\ Cardinality(Thread \ Waiting) \in Nat
<1>1. IsFiniteSet(Thread)
  BY ThreadAssumption, FS_AddElement DEF Thread
<1>2. Active \subseteq Thread /\ Waiting \subseteq Thread /\ Thread \ Waiting \subseteq Thread
  BY DEF Active, Waiting
<1>3. IsFiniteSet(Active) /\ IsFiniteSet(Waiting) /\ IsFiniteSet(Thread \ Waiting)
  BY <1>1, <1>2, FS_Subset
<1> QED
  BY <1>1, <1>3, FS_CardinalityType

(* A step that leaves the planner alone keeps its invariant.               *)
LEMMA PlannerUntouched == Inv /\ UNCHANGED vars => Inv'
BY InvNext

(* Whoever is not part of the step is as it was.                           *)
LEMMA ActiveMinus ==
  ASSUME NEW t \in Thread, t \in Active, Active' = Active \ {t}
  PROVE  Cardinality(Active)' = Cardinality(Active) - 1
BY Zenon, ThreadsFinite, FS_RemoveElement

-----------------------------------------------------------------------------

(* planner.lock() at the start of a thread.                                *)
LEMMA LockInv ==
  ASSUME EInv, NEW t \in Thread, Lock(t)
  PROVE  EInv'
<1> USE DEF EInv
<1>1. Inv'
  BY PlannerUntouched DEF Lock
<1>2. ExecTypeOK'
  BY DEF ExecTypeOK, Lock, Location
<1>3. \A u \in Thread : pc'[u] = IF u = t THEN "steal" ELSE pc[u]
  BY DEF ExecTypeOK, Lock
<1>4. Active' = Active /\ Waiting' = Waiting
  BY <1>3 DEF Active, Waiting, Lock
<1>5. OneThreadPerSystem'
  BY DEF OneThreadPerSystem, Lock, vars
<1>6. ThreadInv'
  <2>1. \A u \in Thread : guard' = u <=> pc'[u] = "steal"
    BY <1>3, ThreadAssumption DEF ThreadInv, Lock
  <2>2. \A u \in Thread :
          /\ pc'[u] \in {"running", "unwinding"} => task'[u] # NoTask
          /\ task'[u] # NoTask => pc'[u] \in {"running", "unwinding", "panicked"}
          /\ pc'[u] = "done" => remaining_systems' = 0 \/ had_panic'
          /\ ~Timeouts => pc'[u] # "timed_out"
    BY <1>3 DEF ThreadInv, Lock, vars
  <2>3. had_panic' => \E u \in Thread : pc'[u] \in {"unwinding", "panicked"}
    BY <1>3 DEF ThreadInv, Lock
  <2> QED
    BY <1>4, <2>1, <2>2, <2>3 DEF ThreadInv, Lock
<1>7. WakeupInv'
  BY <1>3, <1>4 DEF WakeupInv, NoLostWakeup, NoDeadlockDetected, Pools, Lock, vars
<1> QED
  BY <1>1, <1>2, <1>5, <1>6, <1>7

(* StealResult::CycleComplete.                                             *)
LEMMA ReturnInv ==
  ASSUME EInv, NEW t \in Thread, Return(t)
  PROVE  EInv'
<1> USE DEF EInv
<1>1. Inv'
  BY PlannerUntouched DEF Return
<1>2. ExecTypeOK'
  BY DEF ExecTypeOK, Return, Location
<1>3. \A u \in Thread : pc'[u] = IF u = t THEN "done" ELSE pc[u]
  BY DEF ExecTypeOK, Return
<1>4. Waiting' = Waiting /\ Cardinality(Active)' = Cardinality(Active) - 1
  <2>1. t \in Active /\ Active' = Active \ {t} /\ Waiting' = Waiting
    BY <1>3 DEF Active, Waiting, Return
  <2> QED
    BY <2>1, ActiveMinus
<1>5. OneThreadPerSystem'
  BY DEF OneThreadPerSystem, Return, vars
<1>6. ThreadInv'
  <2>1. \A u \in Thread : guard' = u <=> pc'[u] = "steal"
    BY <1>3, ThreadAssumption DEF ThreadInv, Return
  <2>2. \A u \in Thread :
          /\ pc'[u] \in {"running", "unwinding"} => task'[u] # NoTask
          /\ task'[u] # NoTask => pc'[u] \in {"running", "unwinding", "panicked"}
          /\ pc'[u] = "done" => remaining_systems' = 0 \/ had_panic'
          /\ ~Timeouts => pc'[u] # "timed_out"
    BY <1>3 DEF ThreadInv, Return, vars
  <2>3. had_panic' => \E u \in Thread : pc'[u] \in {"unwinding", "panicked"}
    BY <1>3 DEF ThreadInv, Return
  <2> QED
    BY <1>4, <2>1, <2>2, <2>3, ThreadsFinite DEF ThreadInv, ExecTypeOK, Return
<1>7. WakeupInv'
  BY <1>3, <1>4 DEF WakeupInv, NoLostWakeup, NoDeadlockDetected, Pools, Return, vars, ThreadInv
<1> QED
  BY <1>1, <1>2, <1>5, <1>6, <1>7

(* A panic in system.run.                                                  *)
LEMMA RunPanicsInv ==
  ASSUME EInv, NEW t \in Thread, RunPanics(t)
  PROVE  EInv'
<1> USE DEF EInv
<1>1. Inv'
  BY PlannerUntouched DEF RunPanics
<1>2. ExecTypeOK'
  BY DEF ExecTypeOK, RunPanics, Location
<1>3. \A u \in Thread : pc'[u] = IF u = t THEN "unwinding" ELSE pc[u]
  BY DEF ExecTypeOK, RunPanics
<1>4. Active' = Active /\ Waiting' = Waiting
  BY <1>3 DEF Active, Waiting, RunPanics
<1>5. OneThreadPerSystem'
  BY DEF OneThreadPerSystem, RunPanics, vars
<1>6. ThreadInv'
  <2>1. \A u \in Thread : guard' = u <=> pc'[u] = "steal"
    BY <1>3, ThreadAssumption DEF ThreadInv, RunPanics
  <2>2. \A u \in Thread :
          /\ pc'[u] \in {"running", "unwinding"} => task'[u] # NoTask
          /\ task'[u] # NoTask => pc'[u] \in {"running", "unwinding", "panicked"}
          /\ pc'[u] = "done" => remaining_systems' = 0 \/ had_panic'
          /\ ~Timeouts => pc'[u] # "timed_out"
    BY <1>3 DEF ThreadInv, RunPanics, vars
  <2>3. had_panic' => \E u \in Thread : pc'[u] \in {"unwinding", "panicked"}
    BY <1>3 DEF ThreadInv, RunPanics
  <2> QED
    BY <1>4, <2>1, <2>2, <2>3, ThreadsFinite DEF ThreadInv, ExecTypeOK, RunPanics
<1>7. WakeupInv'
  BY <1>3, <1>4 DEF WakeupInv, NoLostWakeup, NoDeadlockDetected, Pools, RunPanics, vars, ThreadInv
<1> QED
  BY <1>1, <1>2, <1>5, <1>6, <1>7

(* The end of the unwinding.                                               *)
LEMMA UnwindInv ==
  ASSUME EInv, NEW t \in Thread, Unwind(t)
  PROVE  EInv'
<1> USE DEF EInv
<1>1. Inv'
  BY PlannerUntouched DEF Unwind
<1>2. ExecTypeOK'
  BY DEF ExecTypeOK, Unwind, Location
<1>3. \A u \in Thread : pc'[u] = IF u = t THEN "panicked" ELSE pc[u]
  BY DEF ExecTypeOK, Unwind
<1>4. Waiting' = Waiting /\ Cardinality(Active)' = Cardinality(Active) - 1
  <2>1. t \in Active /\ Active' = Active \ {t} /\ Waiting' = Waiting
    BY <1>3 DEF Active, Waiting, Unwind
  <2> QED
    BY <2>1, ActiveMinus
<1>5. OneThreadPerSystem'
  BY DEF OneThreadPerSystem, Unwind, vars
<1>6. ThreadInv'
  <2>1. \A u \in Thread : guard' = u <=> pc'[u] = "steal"
    BY <1>3, ThreadAssumption DEF ThreadInv, Unwind
  <2>2. \A u \in Thread :
          /\ pc'[u] \in {"running", "unwinding"} => task'[u] # NoTask
          /\ task'[u] # NoTask => pc'[u] \in {"running", "unwinding", "panicked"}
          /\ pc'[u] = "done" => remaining_systems' = 0 \/ had_panic'
          /\ ~Timeouts => pc'[u] # "timed_out"
    BY <1>3 DEF ThreadInv, Unwind, vars
  <2>3. had_panic' => \E u \in Thread : pc'[u] \in {"unwinding", "panicked"}
    BY <1>3 DEF ThreadInv, Unwind
  <2> QED
    BY <1>4, <2>1, <2>2, <2>3, ThreadsFinite DEF ThreadInv, ExecTypeOK, Unwind
<1>7. WakeupInv'
  BY <1>3, <1>4 DEF WakeupInv, NoLostWakeup, NoDeadlockDetected, Pools, Unwind, vars, ThreadInv
<1> QED
  BY <1>1, <1>2, <1>5, <1>6, <1>7

(* A wait_for elapses.                                                     *)
LEMMA TimeoutInv ==
  ASSUME EInv, NEW t \in Thread, Timeout(t)
  PROVE  EInv'
<1> USE DEF EInv
<1>1. Inv'
  BY PlannerUntouched DEF Timeout
<1>2. ExecTypeOK'
  BY DEF ExecTypeOK, Timeout, Location
<1>3. \A u \in Thread : pc'[u] = IF u = t THEN "timed_out" ELSE pc[u]
  BY DEF ExecTypeOK, Timeout
<1>4. Active' = Active
  BY <1>3 DEF Active, Timeout
<1>5. OneThreadPerSystem'
  BY DEF OneThreadPerSystem, Timeout, vars
<1>6. ThreadInv'
  <2>1. \A u \in Thread : guard' = u <=> pc'[u] = "steal"
    BY <1>3, ThreadAssumption DEF ThreadInv, Timeout
  <2>2. \A u \in Thread :
          /\ pc'[u] \in {"running", "unwinding"} => task'[u] # NoTask
          /\ task'[u] # NoTask => pc'[u] \in {"running", "unwinding", "panicked"}
          /\ pc'[u] = "done" => remaining_systems' = 0 \/ had_panic'
          /\ ~Timeouts => pc'[u] # "timed_out"
    BY <1>3 DEF ThreadInv, Timeout, vars
  <2>3. had_panic' => \E u \in Thread : pc'[u] \in {"unwinding", "panicked"}
    BY <1>3 DEF ThreadInv, Timeout
  <2> QED
    BY <1>4, <2>1, <2>2, <2>3, ThreadsFinite DEF ThreadInv, ExecTypeOK, Timeout
<1>7. WakeupInv'
  BY <1>3, <1>4 DEF WakeupInv, NoLostWakeup, NoDeadlockDetected, Pools, Timeout, vars, ThreadInv
<1> QED
  BY <1>1, <1>2, <1>5, <1>6, <1>7

(* wait_for returns: to the loop, to another wait, or out of the worker.   *)
LEMMA AfterWaitInv ==
  ASSUME EInv, NEW t \in Thread, AfterWait(t)
  PROVE  EInv'
<1> USE DEF EInv
<1>1. Inv'
  BY PlannerUntouched DEF AfterWait
<1>2. ExecTypeOK'
  BY DEF ExecTypeOK, AfterWait, Location
<1>3. \A u \in Thread \ {t} : pc'[u] = pc[u]
  BY DEF ExecTypeOK, AfterWait
<1>4. pc'[t] = IF had_panic THEN "done" ELSE IF pc[t] = "notified" THEN "steal" ELSE "waiting"
  BY DEF ExecTypeOK, AfterWait
<1>5. Cardinality(Active)' <= Cardinality(Active)
  <2>1. Active' = Active \/ (t \in Active /\ Active' = Active \ {t})
    BY <1>3, <1>4 DEF Active, AfterWait
  <2> QED
    BY <2>1, ActiveMinus, ThreadsFinite
<1>6. ~Timeouts => Waiting' = Waiting
  BY <1>3, <1>4 DEF Waiting, AfterWait, ThreadInv
<1>7. OneThreadPerSystem'
  BY DEF OneThreadPerSystem, AfterWait, vars
<1>8. ThreadInv'
  <2>1. \A u \in Thread : guard' = u <=> pc'[u] = "steal"
    BY <1>3, <1>4, ThreadAssumption DEF ThreadInv, AfterWait
  <2>2. \A u \in Thread :
          /\ pc'[u] \in {"running", "unwinding"} => task'[u] # NoTask
          /\ task'[u] # NoTask => pc'[u] \in {"running", "unwinding", "panicked"}
          /\ pc'[u] = "done" => remaining_systems' = 0 \/ had_panic'
          /\ ~Timeouts => pc'[u] # "timed_out"
    BY <1>3, <1>4 DEF ThreadInv, AfterWait, vars
  <2>3. had_panic' => \E u \in Thread : pc'[u] \in {"unwinding", "panicked"}
    BY <1>3 DEF ThreadInv, AfterWait
  <2>4. DebugAssertions => deadlock_counter' >= Cardinality(Active)'
    <3>1. (Cardinality(Active) \in Nat)'
      BY ThreadsFinite, PTL
    <3>2. Cardinality(Active) \in Nat /\ deadlock_counter \in Nat
      BY ThreadsFinite DEF ExecTypeOK
    <3> QED
      BY <1>5, <3>1, <3>2 DEF ThreadInv, AfterWait
  <2> QED
    BY <1>6, <2>1, <2>2, <2>3, <2>4 DEF ThreadInv, AfterWait
<1>9. WakeupInv'
  BY <1>3, <1>4, <1>6 DEF WakeupInv, NoLostWakeup, NoDeadlockDetected, Pools, AfterWait, vars
<1> QED
  BY <1>1, <1>2, <1>7, <1>8, <1>9

-----------------------------------------------------------------------------

(* A steal adds its node to the started ones and no pool grows.            *)
LEMMA StealEffect ==
  ASSUME Inv, NEW n \in System, n \in Runnable, Steal(n)
  PROVE  /\ wakeup_state[n] = "Pending"
         /\ \A m \in System : wakeup_state'[m] = "Started" <=> m = n \/ wakeup_state[m] = "Started"
         /\ send_runnable' \subseteq send_runnable /\ unsend_runnable' \subseteq unsend_runnable
         /\ remaining_systems' = remaining_systems /\ remaining_systems # 0
<1>1. wakeup_state[n] = "Pending"
  BY DEF Inv, PlannerInv, Runnable
<1>2. \A m \in System : wakeup_state'[m] = IF m = n THEN "Started"
                                            ELSE IF BlockedByStart(n, m) THEN "Blocked"
                                            ELSE wakeup_state[m]
  BY DEF Steal, Node
<1> QED
  BY <1>1, <1>2 DEF Steal, BlockedByStart

(* StealResult::Ready.                                                     *)
LEMMA RunInv ==
  ASSUME EInv, NEW t \in Thread, NEW n \in System, n \in Runnable, Steal(n), Run(t, n),
         n \in UnsendSystem => t = Main
  PROVE  EInv'
<1> USE DEF EInv
<1>1. Inv'
  BY StealInv
<1>2. ExecTypeOK'
  BY DEF ExecTypeOK, Run, Location
<1>3. /\ \A u \in Thread : pc'[u] = IF u = t THEN "running" ELSE pc[u]
      /\ \A u \in Thread : task'[u] = IF u = t THEN n ELSE task[u]
  BY DEF ExecTypeOK, Run
<1>4. Active' = Active /\ Waiting' = Waiting
  BY <1>3 DEF Active, Waiting, Run
<1>5. n # NoTask
  BY NodeAssumption DEF NoTask, System
<1>6. OneThreadPerSystem'
  <2>1. \A u \in Thread : task[u] # n
    BY StealEffect, <1>5 DEF OneThreadPerSystem
  <2>2. task[t] = NoTask
    BY DEF ThreadInv, Run
  <2>3. \A u \in Thread : task'[u] # NoTask =>
          /\ wakeup_state'[task'[u]] = "Started"
          /\ task'[u] \in UnsendSystem => u = Main
    BY <1>3, <1>5, StealEffect DEF OneThreadPerSystem, ExecTypeOK
  <2>4. ASSUME NEW m \in System, wakeup_state'[m] = "Started"
        PROVE  \E u \in Thread : task'[u] = m /\ \A v \in Thread : task'[v] = m => v = u
    <3>1. CASE m = n
      BY <1>3, <2>1, <3>1
    <3>2. CASE m # n
      <4>1. wakeup_state[m] = "Started"
        BY <2>4, <3>2, StealEffect
      <4>2. PICK u \in Thread : task[u] = m /\ \A v \in Thread : task[v] = m => v = u
        BY <2>4, <4>1 DEF OneThreadPerSystem
      <4>3. m # NoTask
        BY NodeAssumption DEF NoTask, System
      <4>4. u # t
        BY <2>2, <4>2, <4>3
      <4> QED
        BY <1>3, <3>2, <4>2, <4>4
    <3> QED
      BY <3>1, <3>2
  <2> QED
    BY <2>3, <2>4 DEF OneThreadPerSystem
<1>7. ThreadInv'
  <2>1. \A u \in Thread : guard' = u <=> pc'[u] = "steal"
    BY <1>3, ThreadAssumption DEF ThreadInv, Run
  <2>2. \A u \in Thread :
          /\ pc'[u] \in {"running", "unwinding"} => task'[u] # NoTask
          /\ task'[u] # NoTask => pc'[u] \in {"running", "unwinding", "panicked"}
          /\ pc'[u] = "done" => remaining_systems' = 0 \/ had_panic'
          /\ ~Timeouts => pc'[u] # "timed_out"
    BY <1>3, <1>5, StealEffect DEF ThreadInv, Run
  <2>3. had_panic' => \E u \in Thread : pc'[u] \in {"unwinding", "panicked"}
    BY <1>3 DEF ThreadInv, Run
  <2> QED
    BY <1>4, <2>1, <2>2, <2>3 DEF ThreadInv, Run
<1>8. WakeupInv'
  <2>1. \A u \in Thread : Pools(u)' \subseteq Pools(u)
    BY StealEffect DEF Pools, poll_send
  <2>2. NoDeadlockDetected => NoDeadlockDetected'
    BY <1>3 DEF NoDeadlockDetected
  <2>3. NoLostWakeup => NoLostWakeup'
    BY <1>4, <2>1 DEF NoLostWakeup, Waiting
  <2> QED
    BY <2>2, <2>3 DEF WakeupInv
<1> QED
  BY <1>1, <1>2, <1>6, <1>7, <1>8

-----------------------------------------------------------------------------

(* StealResult::Pending.  If this were the last thread to wait, no system  *)
(* would run and both pools would be empty while systems remain, which the *)
(* planner rules out.                                                      *)
LEMMA StartWaitInv ==
  ASSUME EInv, NEW t \in Thread, StartWait(t)
  PROVE  EInv'
<1> USE DEF EInv
<1>1. Inv'
  BY PlannerUntouched DEF StartWait
<1>2. t \in Active /\ Cardinality(Active) # 0
  BY ThreadsFinite, CardZero DEF Active, StartWait
<1>3. DebugAssertions => deadlock_counter >= 1 /\ deadlock_counter \in Nat
  BY <1>2, ThreadsFinite DEF ThreadInv, ExecTypeOK
<1>4. ExecTypeOK'
  BY <1>3 DEF ExecTypeOK, StartWait, Location
<1>5. \A u \in Thread \ {t} : pc'[u] = pc[u]
  BY DEF ExecTypeOK, StartWait
<1>6. pc'[t] = IF DebugAssertions /\ deadlock_counter = 1 THEN "panicked" ELSE "waiting"
  BY DEF ExecTypeOK, StartWait
<1>7. ASSUME ~Timeouts, DebugAssertions, deadlock_counter = 1
      PROVE  FALSE
  <2>1. Cardinality(Thread \ Waiting) = 1
    BY <1>7 DEF ThreadInv
  <2>2. t \in Thread \ Waiting
    BY DEF Waiting, StartWait
  <2>3. Cardinality((Thread \ Waiting) \ {t}) = 0 /\ IsFiniteSet((Thread \ Waiting) \ {t})
    <3>1. IsFiniteSet(Thread \ Waiting)
      BY ThreadsFinite
    <3>2. /\ IsFiniteSet((Thread \ Waiting) \ {t})
          /\ Cardinality((Thread \ Waiting) \ {t}) = Cardinality(Thread \ Waiting) - 1
      BY <2>2, <3>1, FS_RemoveElement, Zenon
    <3> QED
      BY <2>1, <3>2
  <2>4. \A u \in Thread : u # t => pc[u] = "waiting"
    BY <2>3, CardZero DEF Waiting
  <2>5. \A u \in Thread : task[u] = NoTask
    BY <2>4 DEF ThreadInv, StartWait
  <2>6. \A s \in System : wakeup_state[s] # "Started"
    <3>1. \A s \in System : s # NoTask
      BY NodeAssumption DEF NoTask, System
    <3> QED
      BY <2>5, <3>1 DEF OneThreadPerSystem
  <2>7. \A u \in Thread : Pools(u) = {}
    BY <1>7, <2>4 DEF WakeupInv, NoLostWakeup, Waiting, StartWait
  <2>8. unsend_runnable = {} /\ send_runnable = {}
    <3>1. Pools(Main) = {}
      BY <2>7 DEF Thread
    <3>2. unsend_runnable = {}
      BY <3>1 DEF Pools
    <3>3. CASE Worker = {}
      BY <3>1, <3>2, <3>3 DEF Pools, poll_send
    <3>4. CASE Worker # {}
      <4>1. PICK w \in Worker : TRUE
        BY <3>4
      <4>2. w \in Thread /\ w # Main
        BY ThreadAssumption DEF Thread
      <4> QED
        BY <2>7, <3>2, <4>2 DEF Pools
    <3> QED
      BY <3>3, <3>4
  <2> QED
    BY <2>6, <2>8, InvNoStall DEF NoStall, Runnable, StartWait
<1>8. Active' = Active \ {t}
  BY <1>2, <1>5, <1>6 DEF Active
<1>9. Cardinality(Active)' = Cardinality(Active) - 1
  BY <1>2, <1>8, ActiveMinus
<1>10. ~Timeouts => Waiting' = Waiting \cup {t}
  BY <1>5, <1>6, <1>7 DEF Waiting
<1>11. OneThreadPerSystem'
  BY DEF OneThreadPerSystem, StartWait, vars
<1>12. ThreadInv'
  <2>1. \A u \in Thread : guard' = u <=> pc'[u] = "steal"
    BY SMTT(30), <1>5, <1>6, ThreadAssumption DEF ThreadInv, StartWait
  <2>2. \A u \in Thread :
          /\ pc'[u] \in {"running", "unwinding"} => task'[u] # NoTask
          /\ task'[u] # NoTask => pc'[u] \in {"running", "unwinding", "panicked"}
          /\ pc'[u] = "done" => remaining_systems' = 0 \/ had_panic'
          /\ ~Timeouts => pc'[u] # "timed_out"
    BY <1>5, <1>6 DEF ThreadInv, StartWait, vars
  <2>3. had_panic' => \E u \in Thread : pc'[u] \in {"unwinding", "panicked"}
    BY <1>5, <1>6 DEF ThreadInv, StartWait
  <2>4. DebugAssertions => deadlock_counter' >= Cardinality(Active)'
    BY <1>3, <1>9, ThreadsFinite DEF ThreadInv, StartWait
  <2>5. ~Timeouts /\ DebugAssertions => deadlock_counter' = Cardinality(Thread \ Waiting')
    <3> SUFFICES ASSUME ~Timeouts, DebugAssertions
                 PROVE  deadlock_counter' = Cardinality(Thread \ Waiting')
      OBVIOUS
    <3>1. Thread \ Waiting' = (Thread \ Waiting) \ {t} /\ t \in Thread \ Waiting
      BY <1>10 DEF Waiting, StartWait
    <3>2. Cardinality((Thread \ Waiting) \ {t}) = Cardinality(Thread \ Waiting) - 1
      BY Zenon, <3>1, ThreadsFinite, FS_RemoveElement
    <3> QED
      BY <3>1, <3>2 DEF ThreadInv, StartWait
  <2> QED
    BY <2>1, <2>2, <2>3, <2>4, <2>5 DEF ThreadInv
<1>13. WakeupInv'
  <2> SUFFICES ASSUME ~Timeouts PROVE NoLostWakeup' /\ NoDeadlockDetected'
    BY DEF WakeupInv
  <2>1. \A u \in Thread : Pools(u)' = Pools(u)
    BY DEF Pools, StartWait, vars
  <2>2. NoLostWakeup'
    BY <1>10, <2>1 DEF WakeupInv, NoLostWakeup, Waiting, StartWait
  <2>3. NoDeadlockDetected'
    BY <1>5, <1>6, <1>7 DEF WakeupInv, NoDeadlockDetected, StartWait
  <2> QED
    BY <2>2, <2>3
<1> QED
  BY <1>1, <1>4, <1>11, <1>12, <1>13

-----------------------------------------------------------------------------

(* complete() after system.run: the thread gives its task up, the planner  *)
(* makes a step of its own, and everyone who is parked is notified.        *)
LEMMA FinishRunInv ==
  ASSUME EInv, NEW t \in Thread, FinishRun(t)
  PROVE  EInv'
<1> USE DEF EInv
<1> DEFINE n == task[t]
<1>1. n \in System /\ wakeup_state[n] = "Started" /\ Complete(n)
  BY SMTT(30) DEF ExecTypeOK, ThreadInv, OneThreadPerSystem, FinishRun
<1>2. Inv'
  BY SMTT(30), <1>1, CompleteInv
<1>3. \A u \in Thread : pc'[u] = IF u = t THEN "steal"
                                 ELSE IF u \in Waiting THEN "notified" ELSE pc[u]
  BY DEF FinishRun
<1>4. \A u \in Thread : task'[u] = IF u = t THEN NoTask ELSE task[u]
  BY DEF FinishRun, ExecTypeOK
<1>5. ExecTypeOK'
  <2>1. deadlock_counter' \in Nat
    BY ThreadsFinite DEF ExecTypeOK, FinishRun
  <2>2. pc' \in [Thread -> Location]
    BY SMTT(30) DEF ExecTypeOK, FinishRun, Location
  <2> QED
    BY SMTT(30), <2>1, <2>2 DEF ExecTypeOK, FinishRun
<1>6. \A s \in System : wakeup_state'[s] = "Started" <=> s # n /\ wakeup_state[s] = "Started"
  BY SMTT(30), <1>1 DEF Complete, Released, Node, Inv, TypeOK, WakeupState
<1>7. \A s \in System : s # NoTask
  BY NodeAssumption DEF NoTask, System
<1>8. OneThreadPerSystem'
  <2>1. \A u \in Thread : u # t => task[u] # n
    BY <1>1 DEF OneThreadPerSystem
  <2>2. ASSUME NEW u \in Thread, task'[u] # NoTask
        PROVE  wakeup_state'[task'[u]] = "Started" /\ (task'[u] \in UnsendSystem => u = Main)
    <3>1. u # t /\ task'[u] = task[u] /\ task[u] \in System
      BY <1>4, <2>2 DEF ExecTypeOK
    <3> QED
      BY SMTT(30), <1>6, <2>1, <2>2, <3>1 DEF OneThreadPerSystem
  <2>3. ASSUME NEW s \in System, wakeup_state'[s] = "Started"
        PROVE  \E u \in Thread : task'[u] = s /\ \A v \in Thread : task'[v] = s => v = u
    <3>1. s # n /\ wakeup_state[s] = "Started"
      BY SMTT(30), <1>6, <2>3
    <3>2. PICK u \in Thread : task[u] = s /\ \A v \in Thread : task[v] = s => v = u
      BY <3>1 DEF OneThreadPerSystem
    <3>3. task'[u] = s /\ \A v \in Thread : task'[v] = s => v = u
      BY SMTT(30), <1>4, <1>7, <3>1, <3>2
    <3> QED
      BY <3>3
  <2> QED
    BY <2>2, <2>3 DEF OneThreadPerSystem
<1>9. Waiting' = {} /\ Active' = Active \cup Waiting /\ Active \cap Waiting = {}
  <2>1. Waiting' = {}
    BY <1>3 DEF Waiting
  <2>2. pc[t] = "running" /\ pc'[t] = "steal"
    BY <1>3 DEF FinishRun
  <2>3. \A u \in Thread : u \in Active' <=> u \in Active \/ u \in Waiting
    BY <1>3, <2>2 DEF Active, Waiting
  <2>4. Active' \subseteq Thread /\ Active \subseteq Thread /\ Waiting \subseteq Thread
    BY DEF Active, Waiting
  <2> QED
    BY SMTT(30), <2>1, <2>3, <2>4 DEF Active, Waiting
<1>10. ThreadInv'
  <2>1. \A u \in Thread : guard' = u <=> pc'[u] = "steal"
    BY <1>3, ThreadAssumption DEF ThreadInv, FinishRun
  <2>2. \A u \in Thread :
          /\ pc'[u] \in {"running", "unwinding"} => task'[u] # NoTask
          /\ task'[u] # NoTask => pc'[u] \in {"running", "unwinding", "panicked"}
          /\ ~Timeouts => pc'[u] # "timed_out"
    BY <1>3, <1>4 DEF ThreadInv, Waiting
  <2>3. ASSUME NEW u \in Thread, pc'[u] = "done"
        PROVE  remaining_systems' = 0 \/ had_panic'
    <3>1. pc[u] = "done" /\ had_panic' = had_panic
      BY <1>3, <2>3 DEF FinishRun
    <3>2. remaining_systems # 0
      BY <1>1, InvCompleteAtEnd DEF CompleteAtEnd, Node
    <3> QED
      BY <3>1, <3>2 DEF ThreadInv
  <2>4. had_panic' => \E u \in Thread : pc'[u] \in {"unwinding", "panicked"}
    <3> SUFFICES ASSUME had_panic' PROVE \E u \in Thread : pc'[u] \in {"unwinding", "panicked"}
      OBVIOUS
    <3>1. PICK u \in Thread : pc[u] \in {"unwinding", "panicked"}
      BY DEF ThreadInv, FinishRun
    <3>2. pc'[u] = pc[u]
      BY <1>3, <3>1 DEF Waiting, FinishRun
    <3> QED
      BY <3>1, <3>2
  <2>5. DebugAssertions => deadlock_counter' >= Cardinality(Active)'
    <3>1. Cardinality(Active \cup Waiting) = Cardinality(Active) + Cardinality(Waiting)
      <4>1. IsFiniteSet(Active) /\ IsFiniteSet(Waiting)
        BY ThreadsFinite
      <4>2. Cardinality(Active \cup Waiting)
              = Cardinality(Active) + Cardinality(Waiting) - Cardinality(Active \cap Waiting)
        BY <4>1, FS_Union, Zenon
      <4>3. Cardinality(Active \cap Waiting) = 0
        BY <1>9, FS_EmptySet
      <4> QED
        BY <4>2, <4>3, ThreadsFinite
    <3>2. Cardinality(Active)' = Cardinality(Active) + Cardinality(Waiting)
      BY <1>9, <3>1
    <3> QED
      BY <3>2, ThreadsFinite DEF ThreadInv, ExecTypeOK, FinishRun
  <2>6. ~Timeouts /\ DebugAssertions => deadlock_counter' = Cardinality(Thread \ Waiting')
    <3> SUFFICES ASSUME ~Timeouts, DebugAssertions
                 PROVE  deadlock_counter' = Cardinality(Thread \ Waiting')
      OBVIOUS
    <3>1. deadlock_counter' = Cardinality(Thread \ Waiting) + Cardinality(Waiting)
      BY DEF ThreadInv, FinishRun
    <3>2. Waiting \in SUBSET Thread
      BY DEF Waiting
    <3>3. Cardinality(Thread \ Waiting) = Cardinality(Thread) - Cardinality(Waiting)
      BY <3>2, ThreadsFinite, CardMinus
    <3>4. Thread \ Waiting' = Thread
      BY <1>9
    <3>5. Cardinality(Thread) \in Nat /\ Cardinality(Waiting) \in Nat
      BY ThreadsFinite
    <3>6. deadlock_counter' = Cardinality(Thread)
      BY <3>1, <3>3, <3>5
    <3> QED
      BY <3>4, <3>6, Zenon
  <2> QED
    BY SMTT(30), <2>1, <2>2, <2>3, <2>4, <2>5, <2>6 DEF ThreadInv
<1>11. WakeupInv'
  <2>1. NoLostWakeup'
    BY <1>9 DEF NoLostWakeup
  <2>2. NoDeadlockDetected => NoDeadlockDetected'
    BY <1>3, <1>4 DEF NoDeadlockDetected, Waiting
  <2> QED
    BY <2>1, <2>2 DEF WakeupInv
<1> QED
  BY <1>2, <1>5, <1>8, <1>10, <1>11

-----------------------------------------------------------------------------

(* A fresh scope: no thread holds the mutex or a system, none waits.       *)
LEMMA FreshThreads ==
  ASSUME Inv, \A s \in System : wakeup_state[s] # "Started",
         guard = NoThread,
         pc = [t \in Thread |-> "start"],
         task = [t \in Thread |-> NoTask],
         had_panic = FALSE,
         deadlock_counter = Cardinality(Thread)
  PROVE  EInv
<1>1. Waiting = {} /\ Active = Thread /\ Thread \ Waiting = Thread
  BY DEF Waiting, Active
<1>2. ExecTypeOK
  BY Zenon, ThreadsFinite DEF ExecTypeOK, Location
<1>3. OneThreadPerSystem
  BY DEF OneThreadPerSystem
<1>4. ThreadInv
  <2>1. deadlock_counter >= Cardinality(Active) /\ deadlock_counter = Cardinality(Thread \ Waiting)
    BY <1>1, ThreadsFinite
  <2> QED
    BY <2>1, ThreadAssumption DEF ThreadInv
<1>5. WakeupInv
  BY <1>1 DEF WakeupInv, NoLostWakeup, NoDeadlockDetected
<1> QED
  BY <1>2, <1>3, <1>4, <1>5 DEF EInv

(* No system of the initial planner is Started.                            *)
LEMMA NoneStartedInitially ==
  ASSUME InitialPlanner
  PROVE  \A s \in System : wakeup_state[s] # "Started"
BY DEF InitialPlanner, InitialState, Node

(* Every thread has returned, so no task is left; the planner is reset.    *)
LEMMA NextCycleInv ==
  ASSUME EInv, NextCycle
  PROVE  EInv'
<1>1. Inv'
  BY InvNext DEF EInv, NextCycle, Next
<1>2. guard = NoThread
  BY DEF EInv, ExecTypeOK, ThreadInv, NextCycle
<1>3. task = [t \in Thread |-> NoTask]
  <2>1. \A t \in Thread : task[t] = NoTask
    BY DEF EInv, ThreadInv, NextCycle
  <2> QED
    BY <2>1 DEF EInv, ExecTypeOK
<1>4. \A s \in System : wakeup_state'[s] # "Started"
  BY DEF NextCycle, Reset, InitialState, Node
<1>5. /\ guard' = NoThread
      /\ pc' = [t \in Thread |-> "start"]
      /\ task' = [t \in Thread |-> NoTask]
      /\ had_panic' = FALSE
      /\ deadlock_counter' = Cardinality(Thread)
  BY <1>2, <1>3 DEF NextCycle
<1>6. (/\ Inv /\ \A s \in System : wakeup_state[s] # "Started"
       /\ guard = NoThread
       /\ pc = [t \in Thread |-> "start"]
       /\ task = [t \in Thread |-> NoTask]
       /\ had_panic = FALSE
       /\ deadlock_counter = Cardinality(Thread))'
  BY <1>1, <1>4, <1>5
<1> QED
  BY <1>6, FreshThreads, PTL

-----------------------------------------------------------------------------

(* execute_full_cycle starts its threads from the initial planner.         *)
THEOREM EInvInit == ExecInit => EInv
BY Zenon, InvInit, FreshThreads, NoneStartedInitially DEF ExecInit, Init

(* Every step of every thread, and the join at the end, keep it.           *)
THEOREM EInvNext == EInv /\ [ExecNext]_evars => EInv'
<1> SUFFICES ASSUME EInv, [ExecNext]_evars PROVE EInv'
  OBVIOUS
<1>1. CASE NextCycle
  BY <1>1, NextCycleInv
<1>2. ASSUME NEW t \in Thread, Holding(t)
      PROVE  EInv'
  <2>1. ASSUME NEW n \in System, RunUnsend(t, n)
        PROVE  EInv'
    BY <2>1, RunInv DEF RunUnsend, StealUnsend, PopFirst, Runnable
  <2>2. ASSUME NEW n \in System, RunSend(t, n)
        PROVE  EInv'
    <3>1. n \in Runnable /\ n \notin UnsendSystem /\ Steal(n) /\ Run(t, n)
      BY <2>2, NodeAssumption DEF RunSend, StealSend, PopFirst, Runnable, EInv, Inv, TypeOK
    <3> QED
      BY <3>1, RunInv
  <2> QED
    BY <1>2, <2>1, <2>2, ReturnInv, StartWaitInv DEF Holding, Steals
<1>3. ASSUME NEW t \in Thread, Acquiring(t)
      PROVE  EInv'
  BY <1>3, LockInv, AfterWaitInv, FinishRunInv, UnwindInv DEF Acquiring
<1>4. ASSUME NEW t \in Thread, Timeout(t) \/ RunPanics(t)
      PROVE  EInv'
  BY <1>4, TimeoutInv, RunPanicsInv
<1>5. CASE UNCHANGED evars
  <2>1. Inv'
    BY <1>5, PlannerUntouched DEF EInv, evars
  <2>2. /\ guard' = guard /\ pc' = pc /\ task' = task /\ had_panic' = had_panic
        /\ deadlock_counter' = deadlock_counter
        /\ wakeup_state' = wakeup_state /\ remaining_systems' = remaining_systems
        /\ send_runnable' = send_runnable /\ unsend_runnable' = unsend_runnable
    BY <1>5 DEF evars, threads, vars
  <2>3. Active' = Active /\ Waiting' = Waiting /\ \A t \in Thread : Pools(t)' = Pools(t)
    BY <2>2 DEF Active, Waiting, Pools
  <2>4. ExecTypeOK' /\ OneThreadPerSystem' /\ ThreadInv'
    <3>1. ExecTypeOK'
      BY <2>2 DEF EInv, ExecTypeOK
    <3>2. OneThreadPerSystem'
      BY <2>2 DEF EInv, OneThreadPerSystem
    <3>3. ThreadInv'
      BY <2>2, <2>3 DEF EInv, ThreadInv
    <3> QED
      BY <3>1, <3>2, <3>3
  <2>5. WakeupInv'
    <3>1. NoLostWakeup => NoLostWakeup'
      BY <2>3 DEF NoLostWakeup, Waiting
    <3>2. NoDeadlockDetected => NoDeadlockDetected'
      BY <2>2 DEF NoDeadlockDetected
    <3> QED
      BY <3>1, <3>2 DEF EInv, WakeupInv
  <2> QED
    BY <2>1, <2>4, <2>5 DEF EInv
<1> QED
  BY <1>1, <1>2, <1>3, <1>4, <1>5 DEF ExecNext

(* The planner's and the threads' invariants hold together.                *)
THEOREM EInvAlways == ExecSpec => []EInv
BY EInvInit, EInvNext, PTL DEF ExecSpec

(* A started system has exactly one thread: "system should only be         *)
(* scheduled to one worker" is true of every schedule.                     *)
THEOREM OneThreadPerSystemAlways == ExecSpec => []OneThreadPerSystem
<1>1. EInv => OneThreadPerSystem
  BY DEF EInv
<1> QED
  BY <1>1, EInvAlways, PTL

(* Two threads never run systems whose accesses conflict.                  *)
THEOREM ThreadExclusionAlways == ExecSpec => []ThreadExclusion
<1>1. EInv => ThreadExclusion
  <2> SUFFICES ASSUME EInv, NEW t \in Thread, NEW u \in Thread,
                      pc[t] = "running", pc[u] = "running"
               PROVE  task[t] \notin exclusions[task[u]]
    BY DEF ThreadExclusion
  <2>1. task[t] \in System /\ task[u] \in System
    BY DEF EInv, ExecTypeOK, ThreadInv
  <2>2. wakeup_state[task[t]] = "Started" /\ wakeup_state[task[u]] = "Started"
    BY DEF EInv, ThreadInv, OneThreadPerSystem
  <2> QED
    BY <2>1, <2>2 DEF EInv, Inv, ExclusionSafety
<1> QED
  BY <1>1, EInvAlways, PTL

(* Once all threads have returned, every node is Completed.                *)
THEOREM AllCompleteAfterJoinAlways == ExecSpec => []AllCompleteAfterJoin
<1>1. EInv => AllCompleteAfterJoin
  <2> SUFFICES ASSUME EInv, \A t \in Thread : pc[t] = "done"
               PROVE  \A n \in Node : wakeup_state[n] = "Completed"
    BY DEF AllCompleteAfterJoin
  <2>1. Main \in Thread /\ ~had_panic
    BY DEF Thread, EInv, ThreadInv
  <2>2. remaining_systems = 0
    BY <2>1 DEF EInv, ThreadInv
  <2> QED
    BY <2>2, InvCompleteAtEnd DEF EInv, CompleteAtEnd
<1> QED
  BY <1>1, EInvAlways, PTL

(* The threads, whatever their number, use the planner as it expects: a    *)
(* behaviour of the executor is a behaviour of the planner.                *)
THEOREM ExecutorDrivesPlanner == ExecSpec => DrivesPlanner
<1>1. ExecInit => Init
  BY DEF ExecInit
<1>2. EInv /\ [ExecNext]_evars => [Next]_vars
  <2> SUFFICES ASSUME EInv, [ExecNext]_evars PROVE Next \/ UNCHANGED vars
    OBVIOUS
  <2>1. CASE NextCycle
    BY <2>1 DEF NextCycle, Next
  <2>2. ASSUME NEW t \in Thread, NEW n \in System, RunUnsend(t, n) \/ RunSend(t, n)
        PROVE  Next
    BY SMTT(30), <2>2 DEF RunUnsend, RunSend, StealUnsend, StealSend, PopFirst, Next,
                NextStealSend, NextStealUnsend, EInv, Inv, TypeOK
  <2>3. ASSUME NEW t \in Thread, FinishRun(t)
        PROVE  Next
    <3>1. pc[t] = "running" /\ Complete(task[t])
      BY <2>3 DEF FinishRun
    <3>2. task[t] \in System /\ wakeup_state[task[t]] = "Started"
      BY <3>1 DEF EInv, ExecTypeOK, ThreadInv, OneThreadPerSystem
    <3> QED
      BY <3>1, <3>2 DEF Next, NextComplete
  <2>4. ASSUME NEW t \in Thread,
               \/ Return(t) \/ StartWait(t) \/ Lock(t) \/ AfterWait(t) \/ Unwind(t)
               \/ Timeout(t) \/ RunPanics(t)
        PROVE  UNCHANGED vars
    BY <2>4 DEF Return, StartWait, Lock, AfterWait, Unwind, Timeout, RunPanics
  <2>5. CASE UNCHANGED evars
    BY <2>5 DEF evars
  <2> QED
    BY <2>1, <2>2, <2>3, <2>4, <2>5 DEF ExecNext, Holding, Acquiring, Steals
<1> QED
  BY <1>1, <1>2, EInvAlways, PTL DEF ExecSpec, DrivesPlanner, Spec

(* As long as no wait times out no wakeup is lost and start_wait finds no  *)
(* deadlock.  (With timeouts both fail: run executor_deadlock.)            *)
THEOREM WakeupAlways ==
  ASSUME ~Timeouts
  PROVE  ExecSpec => [](NoLostWakeup /\ NoDeadlockDetected)
<1>1. EInv => NoLostWakeup /\ NoDeadlockDetected
  BY DEF EInv, WakeupInv
<1> QED
  BY <1>1, EInvAlways, PTL

=============================================================================
