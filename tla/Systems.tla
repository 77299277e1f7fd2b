------------------------------- MODULE Systems -------------------------------
(***************************************************************************)
(* Systems as their authors write them, from #[system] to a run: the macro *)
(* makes a Spec of each function (SystemMacro), the builder and planner    *)
(* work with the specs (Scheduler), and a system that was started gets its *)
(* arguments one by one, most of them from locks that it only tries        *)
(* (src/world/global.rs, src/world/rw/simple.rs, src/entity/ealloc.rs).    *)
(* Threads get arguments side by side; a system keeps its own until it     *)
(* returns.                                                                *)
(*                                                                         *)
(* The accessors of isotope components lock storages when these are made,  *)
(* too (Isotopes); here they have all they may lock.                       *)
(***************************************************************************)
EXTENDS Scheduler, SystemMacro

CONSTANT FunctionOf    \* FunctionOf[s]: the functions that s may be

(* A function with #[dynec(thread_local)] is Unsendable, the others are    *)
(* Sendable.                                                               *)
ASSUME SystemsAssumption ==
  /\ DOMAIN FunctionOf = System
  /\ \A s \in System : \A f \in FunctionOf[s] :
       /\ Compiles(f) => SpecFrom(f, ArgsOf(f)) \in SpecOf[s]
       /\ ThreadLocal(f) <=> s \in UnsendSystem

VARIABLES
  run_args,      \* run_args[s]: the arguments run() of s gets, in order
  evaluated,     \* evaluated[s]: how many of them it has
  run_panic      \* why an argument could not be had, or "none"

systems == <<run_args, evaluated, run_panic>>
svars == <<world, systems>>

SystemsInit ==
  /\ WorldInit
  /\ run_args = [s \in System |-> << >>]
  /\ evaluated = [s \in System |-> 0]
  /\ run_panic = "none"

(* schedule and schedule_thread_unsafe of what build() returns.            *)
ScheduleFunction(s, f) ==
  /\ phase = "building" /\ scheduled[s] = NoSpec
  /\ Compiles(f)
  /\ IF GetSpecPanics(ArgsOf(f))
     THEN phase' = "panicked" /\ UNCHANGED <<orders, exclusions, scheduled, sync_globals, unsync_globals>>
     ELSE ScheduleSystem(s, SpecFrom(f, ArgsOf(f)))
  /\ run_args' = [run_args EXCEPT ![s] = ArgsOf(f)]
  /\ UNCHANGED <<planner, evaluated, run_panic>>

-----------------------------------------------------------------------------

(* The cells that an argument locks.  A list of discriminants that names   *)
(* one twice is not among the functions modelled: an accessor that writes  *)
(* would meet its own lock, see OwnTwice of module Isotopes.               *)
CellsOf(arg) ==
  IF arg.kind \in {"Global", "Simple", "Isotope"} /\ ~arg.thread_local
  THEN {<<ResourceOf(arg), d>> : d \in IF arg.all THEN Discrim ELSE arg.discrims}
  ELSE {}

Holds(u, k) == Started(u) /\ k \in 1..evaluated[u]

(* try_read, try_write: some argument that a running system has, this one  *)
(* included, is in the way.                                                *)
Locked(arg) ==
  \E u \in System : \E k \in DOMAIN run_args[u] :
    /\ Holds(u, k)
    /\ arg.mutable \/ run_args[u][k].mutable
    /\ CellsOf(arg) \cap CellsOf(run_args[u][k]) # {}

(* Components, SyncGlobals and UnsyncGlobals of the world.                 *)
Stored == UNION {{r.resource : r \in Requests(scheduled[s])} : s \in System}
Missing(arg) ==
  CASE arg.kind = "Global" ->
         (IF arg.thread_local THEN unsync_globals ELSE sync_globals)[arg.ty] = "None"
    [] arg.kind \in {"Simple", "Isotope"} -> ResourceOf(arg) \notin Stored
    [] OTHER -> FALSE

(* ShardMap has the archetypes that some component was requested of.       *)
Unregistered(arg) ==
  /\ arg.kind \in {"Isotope", "EntityCreator", "EntityIterator"}
  /\ \A x \in Stored \cap Component : x[1] # arg.arch

(* The shard is in a RefCell of the thread.                                *)
Borrowed(s, arg) ==
  /\ arg.kind = "EntityCreator"
  /\ \E k \in 1..evaluated[s] : run_args[s][k].kind = "EntityCreator" /\ run_args[s][k].arch = arg.arch

NextArg(s) == run_args[s][evaluated[s] + 1]
HasNextArg(s) == evaluated[s] + 1 \in DOMAIN run_args[s]

(* run() gets the next argument.                                           *)
GetArg(s) ==
  /\ phase = "built" /\ run_panic = "none"
  /\ Started(s) /\ HasNextArg(s)
  /\ LET arg == NextArg(s)
         fault == CASE Missing(arg) -> "missing"
                    [] Unregistered(arg) -> "unregistered"
                    [] Locked(arg) -> "locked"
                    [] Borrowed(s, arg) -> "borrowed"
                    [] OTHER -> "none"
     IN  /\ run_panic' = fault
         /\ evaluated' = IF fault = "none" THEN [evaluated EXCEPT ![s] = @ + 1] ELSE evaluated
  /\ UNCHANGED <<world, run_args>>

(* The planner is asked for a system, and a new cycle starts.              *)
Advance ==
  /\ phase = "built" /\ run_panic = "none"
  /\ NextStealSend \/ NextStealUnsend \/ Reset
  /\ UNCHANGED <<builder, systems>>

(* run() drops its arguments and returns, and the planner is told.         *)
Finish(s) ==
  /\ phase = "built" /\ run_panic = "none"
  /\ Started(s) /\ ~HasNextArg(s)
  /\ Complete(s)
  /\ evaluated' = [evaluated EXCEPT ![s] = 0]
  /\ UNCHANGED <<builder, run_args, run_panic>>

SystemsNext ==
  \/ \E s \in System : \E f \in FunctionOf[s] : ScheduleFunction(s, f)
  \/ (\E g \in Global : ProvideGlobal(g) \/ ProvideGlobalUnsync(g)) /\ UNCHANGED <<planner, systems>>
  \/ BuildWorld /\ UNCHANGED systems
  \/ Advance
  \/ \E s \in System : GetArg(s) \/ Finish(s)

SystemsSpec == SystemsInit /\ [][SystemsNext]_svars

-----------------------------------------------------------------------------

(* What the macro requests is what the arguments need: a system that the   *)
(* scheduler starts never finds a lock taken, by another system or by an   *)
(* argument of its own, and never asks for a component or global the world *)
(* does not have ("Maybe scheduler bug?", "cannot be used because it is    *)
(* not used in any systems").                                              *)
ArgumentsNeverFail == run_panic \notin {"locked", "missing"}

=============================================================================
