------------------------------ MODULE Executor ------------------------------
(***************************************************************************)
(* The threads of a cycle (src/scheduler/executor.rs): the main thread and *)
(* the rayon workers share the planner behind a parking_lot mutex, wait on *)
(* one condition variable, and poll it for panics with a timeout.          *)
(*                                                                         *)
(* A critical section is a sequence of steps with guard = t; what happens  *)
(* between two of the thread's accesses to shared state is one step.       *)
(*                                                                         *)
(* Condvar (parking_lot) is modelled from its use: waiting threads are     *)
(* parked; notify_all returns how many it unparked, and those report that  *)
(* they did not time out, even if the timeout elapses before they get the  *)
(* mutex back; a thread whose timeout elapsed first is no longer parked    *)
(* and is not notified.                                                    *)
(***************************************************************************)
EXTENDS Planner

CONSTANTS
  Worker,           \* the rayon threads, `concurrency` of them
  Main,             \* the thread that calls World::execute
  NoThread,         \* the value of guard when the planner mutex is free
  Timeouts,         \* a wait_for of one second can elapse
  SystemPanics,     \* a system can panic
  DebugAssertions   \* cfg(debug_assertions): the deadlock counter exists

Thread == Worker \cup {Main}

ASSUME ThreadAssumption ==
  /\ IsFiniteSet(Worker) /\ Main \notin Worker /\ NoThread \notin Thread
  /\ Timeouts \in BOOLEAN /\ SystemPanics \in BOOLEAN /\ DebugAssertions \in BOOLEAN

VARIABLES
  guard,             \* the thread that holds the planner mutex
  pc,                \* where each thread is
  task,              \* the system a thread runs, or has panicked in
  had_panic,
  deadlock_counter

threads == <<guard, pc, task, had_panic, deadlock_counter>>
evars == <<vars, threads>>

NoTask == -1

(* start: spawned; steal: at the head of the loop, holding the mutex;      *)
(* running: in system.run; waiting: parked in wait_for; notified, timed_   *)
(* out: unparked, not yet holding the mutex; unwinding: dropping after a   *)
(* panic in system.run; done: returned; panicked: unwound.                 *)
Location == {"start", "steal", "running", "waiting", "notified", "timed_out",
             "unwinding", "done", "panicked"}

Exited(t) == pc[t] \in {"done", "panicked"}
Waiting == {t \in Thread : pc[t] = "waiting"}
Active == {t \in Thread : pc[t] \in {"start", "steal", "running", "notified", "unwinding"}}

(* Without a pool the main thread runs the thread-safe systems too.        *)
poll_send == Worker = {}

ExecInit ==
  /\ Init
  /\ guard = NoThread
  /\ pc = [t \in Thread |-> "start"]
  /\ task = [t \in Thread |-> NoTask]
  /\ had_panic = FALSE
  /\ deadlock_counter = Cardinality(Thread)

-----------------------------------------------------------------------------

(* planner.lock() at the entry of main_worker and threaded_worker.         *)
Lock(t) ==
  /\ pc[t] = "start" /\ guard = NoThread
  /\ guard' = t
  /\ pc' = [pc EXCEPT ![t] = "steal"]
  /\ UNCHANGED <<vars, task, had_panic, deadlock_counter>>

(* StealResult::Ready: the mutex is released around system.run.            *)
Run(t, n) ==
  /\ pc[t] = "steal" /\ guard = t
  /\ guard' = NoThread
  /\ pc' = [pc EXCEPT ![t] = "running"]
  /\ task' = [task EXCEPT ![t] = n]
  /\ UNCHANGED <<had_panic, deadlock_counter>>

RunUnsend(t, n) == t = Main /\ StealUnsend(n) /\ Run(t, n)

(* Mutant: a system that an exclusion took out of the pool is stolen.      *)
MutRunSend(t, n) ==
  n \in SendSystem /\ wakeup_state[n] \in {"Pending", "Blocked"} /\ Steal(n) /\ Run(t, n)

RunSend(t, n) ==
  /\ t = Main => poll_send /\ unsend_runnable = {}
  /\ StealSend(n)
  /\ Run(t, n)

(* Mutants: the loop goes on after CycleComplete, or ends with Pending.    *)
MutReturnLoops(t) ==
  /\ pc[t] = "steal" /\ guard = t /\ remaining_systems = 0
  /\ guard' = NoThread
  /\ pc' = [pc EXCEPT ![t] = "start"]
  /\ UNCHANGED <<vars, task, had_panic, deadlock_counter>>
MutReturnEarly(t) ==
  /\ pc[t] = "steal" /\ guard = t /\ send_runnable = {}
  /\ guard' = NoThread
  /\ pc' = [pc EXCEPT ![t] = "done"]
  /\ UNCHANGED <<vars, task, had_panic, deadlock_counter>>

(* StealResult::CycleComplete.                                             *)
Return(t) ==
  /\ pc[t] = "steal" /\ guard = t /\ remaining_systems = 0
  /\ guard' = NoThread
  /\ pc' = [pc EXCEPT ![t] = "done"]
  /\ UNCHANGED <<vars, task, had_panic, deadlock_counter>>

(* The pools this thread steals from.                                      *)
Pools(t) ==
  (IF t = Main THEN unsend_runnable ELSE {})
    \cup (IF t # Main \/ poll_send THEN send_runnable ELSE {})

(* StealResult::Pending: start_wait, then wait_for parks the thread and    *)
(* releases the mutex.  The last thread to wait panics in start_wait.      *)
StartWait(t) ==
  /\ pc[t] = "steal" /\ guard = t /\ remaining_systems # 0 /\ Pools(t) = {}
  /\ guard' = NoThread
  /\ pc' = [pc EXCEPT ![t] = IF DebugAssertions /\ deadlock_counter = 1
                             THEN "panicked" ELSE "waiting"]
  /\ deadlock_counter' = IF DebugAssertions THEN deadlock_counter - 1 ELSE deadlock_counter
  /\ UNCHANGED <<vars, task, had_panic>>

(* The second passed before anyone notified the thread.                    *)
Timeout(t) ==
  /\ Timeouts /\ pc[t] = "waiting"
  /\ pc' = [pc EXCEPT ![t] = "timed_out"]
  /\ UNCHANGED <<vars, guard, task, had_panic, deadlock_counter>>

(* Mutant: had_panic is looked at only after a notification.               *)
MutAfterWait(t) ==
  /\ pc[t] \in {"notified", "timed_out"} /\ guard = NoThread
  /\ guard' = IF pc[t] = "notified" /\ ~had_panic THEN t ELSE NoThread
  /\ pc' = [pc EXCEPT ![t] = IF pc[t] = "timed_out" THEN "waiting"
                             ELSE IF had_panic THEN "done" ELSE "steal"]
  /\ UNCHANGED <<vars, task, had_panic, deadlock_counter>>

(* wait_for returns with the mutex.  A notified thread steals again, one   *)
(* that timed out waits again; both return when a panic was reported.      *)
AfterWait(t) ==
  /\ pc[t] \in {"notified", "timed_out"} /\ guard = NoThread
  /\ guard' = IF pc[t] = "notified" /\ ~had_panic THEN t ELSE NoThread
  /\ pc' = [pc EXCEPT ![t] = IF had_panic THEN "done"
                             ELSE IF pc[t] = "notified" THEN "steal" ELSE "waiting"]
  /\ UNCHANGED <<vars, task, had_panic, deadlock_counter>>

(* Mutant: notify_one instead of notify_all.                               *)
MutFinishRunNotifyOne(t) ==
  /\ pc[t] = "running" /\ guard = NoThread
  /\ Complete(task[t])
  /\ guard' = t
  /\ \E w \in Thread :
       /\ w \in Waiting \/ Waiting = {}
       /\ pc' = [u \in Thread |-> IF u = t THEN "steal"
                                  ELSE IF u = w /\ u \in Waiting THEN "notified" ELSE pc[u]]
  /\ task' = [task EXCEPT ![t] = NoTask]
  /\ UNCHANGED <<had_panic, deadlock_counter>>

(* system.run returns, the mutex is taken back, complete notifies all.     *)
FinishRun(t) ==
  /\ pc[t] = "running" /\ guard = NoThread
  /\ Complete(task[t])
  /\ guard' = t
  /\ pc' = [u \in Thread |-> IF u = t THEN "steal"
                             ELSE IF u \in Waiting THEN "notified" ELSE pc[u]]
  /\ task' = [task EXCEPT ![t] = NoTask]
  /\ deadlock_counter' = IF DebugAssertions THEN deadlock_counter + Cardinality(Waiting)
                         ELSE deadlock_counter
  /\ UNCHANGED had_panic

(* system.run panics: the PanicGuard reports it; MutexGuard::unlocked      *)
(* takes the mutex back before the guard is dropped.                       *)
RunPanics(t) ==
  /\ SystemPanics /\ pc[t] = "running"
  /\ had_panic' = TRUE
  /\ pc' = [pc EXCEPT ![t] = "unwinding"]
  /\ UNCHANGED <<vars, guard, task, deadlock_counter>>

Unwind(t) ==
  /\ pc[t] = "unwinding" /\ guard = NoThread
  /\ pc' = [pc EXCEPT ![t] = "panicked"]
  /\ UNCHANGED <<vars, guard, task, had_panic, deadlock_counter>>

(* in_place_scope has joined every thread; World::execute is called again  *)
(* and starts from a fresh planner, condvar, had_panic and counter.        *)
NextCycle ==
  /\ \A t \in Thread : pc[t] = "done"
  /\ Reset
  /\ pc' = [t \in Thread |-> "start"]
  /\ had_panic' = FALSE
  /\ deadlock_counter' = Cardinality(Thread)
  /\ UNCHANGED <<guard, task>>

-----------------------------------------------------------------------------

Steals(t) == \E n \in System : RunUnsend(t, n) \/ RunSend(t, n)

(* Steps of the thread that holds the mutex, and of one that waits for it. *)
Holding(t) == Steals(t) \/ Return(t) \/ StartWait(t)
Acquiring(t) == Lock(t) \/ AfterWait(t) \/ FinishRun(t) \/ Unwind(t)

ExecNext ==
  \/ NextCycle
  \/ \E t \in Thread : Holding(t) \/ Acquiring(t) \/ Timeout(t) \/ RunPanics(t)

(* Threads run; parking_lot hands a contended mutex over every now and     *)
(* then, so no thread waits for it forever; timers fire; systems return.   *)
Fairness ==
  /\ WF_evars(NextCycle)
  /\ \A t \in Thread : WF_evars(Holding(t)) /\ SF_evars(Acquiring(t)) /\ WF_evars(Timeout(t))

ExecSpec == ExecInit /\ [][ExecNext]_evars
FairExecSpec == ExecSpec /\ Fairness

-----------------------------------------------------------------------------

(* The mutex, the locations and the counters stay in range.                *)
ExecTypeOK ==
  /\ guard \in Thread \cup {NoThread}
  /\ pc \in [Thread -> Location]
  /\ task \in [Thread -> System \cup {NoTask}]
  /\ had_panic \in BOOLEAN
  /\ deadlock_counter \in Nat

(* A started system belongs to exactly one thread, so the try_lock of its  *)
(* mutex succeeds ("system should only be scheduled to one worker"), and   *)
(* a system bound to the main thread runs there.                           *)
OneThreadPerSystem ==
  /\ \A t \in Thread :
       task[t] # NoTask => /\ wakeup_state[task[t]] = "Started"
                           /\ task[t] \in UnsendSystem => t = Main
  /\ \A n \in System : wakeup_state[n] = "Started" =>
       \E t \in Thread : task[t] = n /\ \A u \in Thread : task[u] = n => u = t

(* Locations, mutex, tasks and counters agree: the holder of the mutex is  *)
(* in its loop, a thread past its steal owns a task until it completes it, *)
(* had_panic is the trace of a thread that unwinds, a thread returns only  *)
(* from a finished or a panicked cycle, and the deadlock counter covers    *)
(* the threads at work; as long as no timeout elapses it counts exactly    *)
(* the threads that do not wait.                                           *)
ThreadInv ==
  /\ \A t \in Thread :
       /\ guard = t <=> pc[t] = "steal"
       /\ pc[t] \in {"running", "unwinding"} => task[t] # NoTask
       /\ task[t] # NoTask => pc[t] \in {"running", "unwinding", "panicked"}
       /\ pc[t] = "done" => remaining_systems = 0 \/ had_panic
       /\ ~Timeouts => pc[t] # "timed_out"
  /\ had_panic => \E t \in Thread : pc[t] \in {"unwinding", "panicked"}
  /\ DebugAssertions => deadlock_counter >= Cardinality(Active)
  /\ ~Timeouts /\ DebugAssertions => deadlock_counter = Cardinality(Thread \ Waiting)

(* Mutual exclusion reaches the threads: two of them never run systems     *)
(* with conflicting accesses at the same time.                             *)
ThreadExclusion ==
  \A t, u \in Thread :
    t # u /\ pc[t] = "running" /\ pc[u] = "running" => task[t] \notin exclusions[task[u]]

(* start_wait never finds that every thread is waiting: "Deadlock          *)
(* detected, all workers and main are waiting for tasks" never fires.      *)
NoDeadlockDetected == \A t \in Thread : pc[t] = "panicked" => task[t] # NoTask

(* A parked thread has nothing to steal: complete notifies everyone, so no *)
(* system becomes runnable while a thread that could take it sleeps on.    *)
NoLostWakeup == \A t \in Waiting : Pools(t) = {}

(* When the threads have all returned and none has panicked, every node is *)
(* Completed: the debug assertion after the workers are joined.            *)
AllCompleteAfterJoin ==
  (\A t \in Thread : pc[t] = "done") => \A n \in Node : wakeup_state[n] = "Completed"

(* The threads drive the planner only through its operations, in an order  *)
(* it allows.                                                              *)
DrivesPlanner == Spec

(* Every cycle ends: all systems are run and all threads return.           *)
CycleCompletes == []<>(\A t \in Thread : pc[t] = "done")

(* After a panic in a system, every thread returns or unwinds, so that the *)
(* panic reaches the caller of World::execute.                             *)
PanicPropagates == had_panic ~> (\A t \in Thread : Exited(t))

=============================================================================
