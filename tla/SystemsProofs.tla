---------------------------- MODULE SystemsProofs ----------------------------
(***************************************************************************)
(* What the builder leaves is what the planner needs, and together they    *)
(* keep the promises made to the authors of systems: no aliased access,    *)
(* and no holder of references behind a creator of entities.               *)
(*                                                                         *)
(* The requests that the macro makes of the parameters of a function are   *)
(* enough for the scheduler: no argument of a running system is locked by  *)
(* another or missing from the world.                                      *)
(***************************************************************************)
EXTENDS Systems, PlannerProofs

-----------------------------------------------------------------------------
(* The builder and the planner: module Scheduler.                          *)

IsScheduled(s) == scheduled[s] # NoSpec

(* The orders of a scheduled system are those it asked for, and its        *)
(* requests do not conflict with each other.                               *)
SystemInv(s) ==
  /\ {After[o] : o \in {p \in orders : Before[p] = s}} = Befores(scheduled[s])
  /\ {Before[o] : o \in {p \in orders : After[p] = s}} = Afters(scheduled[s])
  /\ ~SelfConflict(scheduled[s])

(* The topology of a built world comes from all its systems.               *)
BuiltInv ==
  /\ orders \in AcyclicOrders
  /\ \A s \in System : IsScheduled(s)
  /\ exclusions = [n \in Node |->
       IF n \in System THEN {u \in System \ {n} : Excludes(n, u)} ELSE {}]

WInv ==
  /\ BuildTypeOK
  /\ GlobalsSeparated
  /\ \A s \in System : IsScheduled(s) => SystemInv(s)
  /\ phase = "built" => BuiltInv /\ Inv

-----------------------------------------------------------------------------

(* An order of one system touches no other system.                         *)
LEMMA OneSystemPerOrder ==
  ASSUME NEW o \in Order, NEW s \in System, NEW u \in System,
         s \in {Before[o], After[o]}, u \in {Before[o], After[o]}
  PROVE  s = u
<1>1. \A n \in System : n \notin Partition
  BY NodeAssumption DEF System
<1> QED
  BY <1>1, OrderAssumption DEF Node

(* Registering a system leaves the orders of the others alone.             *)
LEMMA ScheduleSystemInv ==
  ASSUME WInv, NEW s \in System, NEW spec \in SpecOf[s], ScheduleSystem(s, spec), UNCHANGED planner
  PROVE  WInv'
<1>1. CASE SelfConflict(spec) \/ GlobalPanics(s, spec)
  <2>1. /\ phase' = "panicked" /\ orders' = orders /\ exclusions' = exclusions
        /\ scheduled' = scheduled /\ sync_globals' = sync_globals
        /\ unsync_globals' = unsync_globals
    BY Zenon, <1>1 DEF ScheduleSystem
  <2>2. BuildTypeOK' /\ GlobalsSeparated'
    <3>1. BuildTypeOK'
      BY Zenon, <2>1 DEF WInv, BuildTypeOK
    <3>2. GlobalsSeparated'
      BY Zenon, <2>1 DEF WInv, GlobalsSeparated
    <3> QED
      BY <3>1, <3>2
  <2>3. \A u \in System : IsScheduled(u)' => SystemInv(u)'
    BY <2>1 DEF WInv, IsScheduled, SystemInv
  <2> QED
    BY <2>1, <2>2, <2>3 DEF WInv
<1>2. CASE ~(SelfConflict(spec) \/ GlobalPanics(s, spec))
  <2>1. PICK new \in SUBSET OrdersOf(s) : Registers(s, spec, new) /\ orders' = orders \cup new
    BY <1>2 DEF ScheduleSystem
  <2>2. /\ scheduled' = [scheduled EXCEPT ![s] = spec]
        /\ sync_globals' = WithMissing(sync_globals, GlobalRequests(spec, TRUE))
        /\ unsync_globals' = WithMissing(unsync_globals, GlobalRequests(spec, FALSE))
        /\ exclusions' = exclusions /\ phase' = phase /\ phase = "building"
        /\ scheduled[s] = NoSpec
    BY <1>2 DEF ScheduleSystem
  <2>3. \A u \in System : scheduled'[u] = IF u = s THEN spec ELSE scheduled[u]
    BY <2>2 DEF WInv, BuildTypeOK
  <2>4. spec # NoSpec
    BY BuilderAssumption
  <2>5. new \subseteq Order /\ \A o \in new : s \in {Before[o], After[o]}
    BY <2>1 DEF OrdersOf
  <2>6. \A o \in orders : s \notin {Before[o], After[o]}
    BY <2>2 DEF WInv, BuildTypeOK
  <2>7. BuildTypeOK'
    <3>1. orders' \subseteq Order
      BY <2>1, <2>5 DEF WInv, BuildTypeOK
    <3>2. \A u \in System, o \in orders' : u \in {Before[o], After[o]} => scheduled'[u] # NoSpec
      BY <2>1, <2>3, <2>4, <2>5, OneSystemPerOrder DEF WInv, BuildTypeOK
    <3>3. DOMAIN scheduled' = System /\ \A u \in System : scheduled'[u] \in SpecOf[u] \cup {NoSpec}
      BY <2>2, <2>3 DEF WInv, BuildTypeOK
    <3>4. /\ sync_globals' \in [Global -> {"None", "Missing", "Provided"}]
          /\ unsync_globals' \in [Global -> {"None", "Missing", "Provided"}]
      BY Zenon, <2>2 DEF WInv, BuildTypeOK, WithMissing
    <3> QED
      BY Zenon, <2>2, <3>1, <3>2, <3>3, <3>4 DEF WInv, BuildTypeOK
  <2>8. GlobalsSeparated'
    <3>1. \A g \in Global :
            /\ sync_globals[g] # "None" \/ g \in GlobalRequests(spec, TRUE) => sync_globals'[g] # "None"
            /\ unsync_globals[g] # "None" \/ g \in GlobalRequests(spec, FALSE) => unsync_globals'[g] # "None"
      BY Zenon, <2>2 DEF WithMissing
    <3>2. \A t, b : GlobalRequests(t, b) \subseteq Global
      BY DEF GlobalRequests
    <3>3. GlobalRequests(spec, TRUE) \cap GlobalRequests(spec, FALSE) = {}
      BY Zenon, <1>2 DEF GlobalPanics
    <3>4. s \in SendSystem => GlobalRequests(spec, FALSE) = {}
      BY Zenon, <1>2 DEF GlobalPanics
    <3>5. ASSUME NEW u \in System, IsScheduled(u)
          PROVE  /\ GlobalRequests(spec, TRUE) \cap GlobalRequests(scheduled[u], FALSE) = {}
                 /\ GlobalRequests(spec, FALSE) \cap GlobalRequests(scheduled[u], TRUE) = {}
      BY Zenon, <1>2, <3>5 DEF GlobalPanics, WInv, GlobalsSeparated, IsScheduled
    <3> SUFFICES ASSUME NEW u \in System, NEW v \in System,
                        scheduled'[u] # NoSpec, scheduled'[v] # NoSpec
                 PROVE  /\ GlobalRequests(scheduled'[u], TRUE) \cap GlobalRequests(scheduled'[v], FALSE) = {}
                        /\ u \in SendSystem => GlobalRequests(scheduled'[u], FALSE) = {}
                        /\ \A g \in GlobalRequests(scheduled'[u], TRUE) : sync_globals'[g] # "None"
                        /\ \A g \in GlobalRequests(scheduled'[u], FALSE) : unsync_globals'[g] # "None"
      BY Zenon DEF GlobalsSeparated, GlobalRequests, Requests
    <3>6. GlobalRequests(scheduled'[u], TRUE) \cap GlobalRequests(scheduled'[v], FALSE) = {}
      BY Zenon, <2>3, <3>3, <3>5 DEF WInv, GlobalsSeparated, IsScheduled
    <3>7. u \in SendSystem => GlobalRequests(scheduled'[u], FALSE) = {}
      BY Zenon, <2>3, <3>4 DEF WInv, GlobalsSeparated
    <3>8. /\ \A g \in GlobalRequests(scheduled'[u], TRUE) : sync_globals'[g] # "None"
          /\ \A g \in GlobalRequests(scheduled'[u], FALSE) : unsync_globals'[g] # "None"
      BY Zenon, <2>3, <3>1, <3>2 DEF WInv, GlobalsSeparated
    <3> QED
      BY Zenon, <3>6, <3>7, <3>8
  <2>9. ASSUME NEW u \in System, IsScheduled(u)'
        PROVE  SystemInv(u)'
    <3>1. CASE u = s
      <4>1. /\ {p \in orders' : Before[p] = s} = {p \in new : Before[p] = s}
            /\ {p \in orders' : After[p] = s} = {p \in new : After[p] = s}
        BY <2>1, <2>6
      <4>2. scheduled'[u] = spec
        BY <2>3, <3>1
      <4>3. /\ {After[o] : o \in {p \in orders' : Before[p] = u}} = Befores(spec)
            /\ {Before[o] : o \in {p \in orders' : After[p] = u}} = Afters(spec)
        BY <2>1, <3>1, <4>1 DEF Registers
      <4>4. Befores(scheduled[u])' = Befores(spec) /\ Afters(scheduled[u])' = Afters(spec)
        BY <4>2 DEF Befores, Afters, Requests
      <4>5. ~SelfConflict(scheduled[u])'
        BY SMTT(30), <1>2, <4>2 DEF SelfConflict
      <4> QED
        BY <4>3, <4>4, <4>5 DEF SystemInv
    <3>2. CASE u # s
      <4>1. \A o \in new : Before[o] # u /\ After[o] # u
        BY <2>5, <3>2, OneSystemPerOrder
      <4>2. /\ {p \in orders' : Before[p] = u} = {p \in orders : Before[p] = u}
            /\ {p \in orders' : After[p] = u} = {p \in orders : After[p] = u}
        BY <2>1, <4>1
      <4>3. scheduled'[u] = scheduled[u] /\ IsScheduled(u)
        BY <2>3, <2>9, <3>2 DEF IsScheduled
      <4>4. SystemInv(u)
        BY <4>3 DEF WInv
      <4>5. /\ Befores(scheduled[u])' = Befores(scheduled[u])
            /\ Afters(scheduled[u])' = Afters(scheduled[u])
            /\ SelfConflict(scheduled[u])' = SelfConflict(scheduled[u])
        BY Zenon, <4>3
      <4> QED
        BY Zenon, <4>2, <4>4, <4>5 DEF SystemInv
    <3> QED
      BY <3>1, <3>2
  <2> QED
    BY <2>2, <2>7, <2>8, <2>9 DEF WInv
<1> QED
  BY <1>1, <1>2

(* Providing a global adds entries to the maps and nothing else.           *)
LEMMA ProvideInv ==
  ASSUME WInv, NEW g \in Global, ProvideGlobal(g) \/ ProvideGlobalUnsync(g), UNCHANGED planner
  PROVE  WInv'
<1>1. /\ phase' = phase /\ phase = "building" /\ orders' = orders
      /\ exclusions' = exclusions /\ scheduled' = scheduled
  BY DEF ProvideGlobal, ProvideGlobalUnsync
<1>2. /\ sync_globals' \in [Global -> {"None", "Missing", "Provided"}]
      /\ unsync_globals' \in [Global -> {"None", "Missing", "Provided"}]
      /\ \A h \in Global : sync_globals[h] # "None" => sync_globals'[h] # "None"
      /\ \A h \in Global : unsync_globals[h] # "None" => unsync_globals'[h] # "None"
  BY DEF WInv, BuildTypeOK, ProvideGlobal, ProvideGlobalUnsync
<1>3. BuildTypeOK'
  BY <1>1, <1>2 DEF WInv, BuildTypeOK
<1>4. GlobalsSeparated'
  <2>1. \A t, b : GlobalRequests(t, b) \subseteq Global
    BY DEF GlobalRequests
  <2> QED
    BY Zenon, <1>1, <1>2, <2>1 DEF WInv, GlobalsSeparated
<1>5. \A s \in System : IsScheduled(s)' => SystemInv(s)'
  BY <1>1 DEF WInv, IsScheduled, SystemInv
<1> QED
  BY <1>1, <1>3, <1>4, <1>5 DEF WInv

(* Builder::build gives the planner a topology it can run.                 *)
LEMMA BuildWorldInv ==
  ASSUME WInv, BuildWorld
  PROVE  WInv'
<1>1. /\ orders' = orders /\ scheduled' = scheduled /\ phase' \in {"built", "panicked"}
      /\ sync_globals' = sync_globals /\ unsync_globals' = unsync_globals
  BY DEF BuildWorld, Build
<1> DEFINE ex == [n \in Node |-> IF n \in System THEN {u \in System \ {n} : Excludes(n, u)} ELSE {}]
<1>2. ex \in Exclusions
  <2>1. ex \in [Node -> SUBSET System]
    OBVIOUS
  <2>2. \A s, u \in System : Excludes(s, u) => Excludes(u, s)
    BY DEF Excludes, Conflicts
  <2>3. \A n \in Node : \A m \in ex[n] : m # n /\ n \in ex[m]
    BY <2>2 DEF Node
  <2> QED
    BY <2>1, <2>3 DEF Exclusions
<1>3. exclusions' = ex \/ (phase' = "panicked" /\ exclusions' = exclusions)
  BY DEF BuildWorld, Build
<1>4. BuildTypeOK'
  BY <1>1, <1>2, <1>3 DEF WInv, BuildTypeOK, Exclusions
<1>5. GlobalsSeparated'
  BY Zenon, <1>1 DEF WInv, GlobalsSeparated
<1>6. \A s \in System : IsScheduled(s)' => SystemInv(s)'
  BY <1>1 DEF WInv, IsScheduled, SystemInv
<1>7. ASSUME phase' = "built"
      PROVE  BuiltInv' /\ Inv'
  <2>1. exclusions' = ex /\ ~Cyclic(orders) /\ \A s \in System : scheduled[s] # NoSpec
    BY <1>7 DEF BuildWorld, Build
  <2>2. orders \in AcyclicOrders
    BY <2>1 DEF Cyclic, AcyclicOrders, WInv, BuildTypeOK
  <2>3. BuiltInv'
    BY <1>1, <2>1, <2>2 DEF BuiltInv, IsScheduled, Excludes, Requests, Conflicts
  <2>4. IsTopology(orders', exclusions')
    BY <1>1, <1>2, <2>1, <2>2 DEF IsTopology
  <2>5. InitialPlanner'
    BY <1>1, <1>7 DEF BuildWorld, InitialPlanner
  <2>6. (IsTopology(orders, exclusions) /\ InitialPlanner)'
    BY <2>4, <2>5 DEF IsTopology
  <2> QED
    BY <2>3, <2>6, InitialPlannerInv, PTL
<1> QED
  BY <1>4, <1>5, <1>6, <1>7 DEF WInv

(* A cycle changes only the planner.                                       *)
LEMMA ExecuteInv ==
  ASSUME WInv, Execute
  PROVE  WInv'
<1>1. /\ phase' = phase /\ phase = "built" /\ scheduled' = scheduled
      /\ sync_globals' = sync_globals /\ unsync_globals' = unsync_globals
  BY SMTT(30) DEF Execute, builder
<1>2. orders' = orders /\ exclusions' = exclusions
  BY DEF Execute, Next, NextStealSend, NextStealUnsend, NextComplete, StealSend, StealUnsend,
         Steal, Complete, Reset, topology
<1>3. Inv'
  BY <1>1, InvNext DEF Execute, WInv
<1>4. BuildTypeOK' /\ GlobalsSeparated'
  BY Zenon, <1>1, <1>2 DEF WInv, BuildTypeOK, GlobalsSeparated
<1>5. \A s \in System : IsScheduled(s)' => SystemInv(s)'
  BY <1>1, <1>2 DEF WInv, IsScheduled, SystemInv
<1>6. BuiltInv'
  BY <1>1, <1>2 DEF WInv, BuiltInv, IsScheduled, Excludes
<1> QED
  BY <1>1, <1>3, <1>4, <1>5, <1>6 DEF WInv

-----------------------------------------------------------------------------

(* An empty builder satisfies it.                                          *)
THEOREM WInvInit == WorldInit => WInv
<1> SUFFICES ASSUME WorldInit PROVE WInv
  OBVIOUS
<1>1. \A s \in System : scheduled[s] = NoSpec
  BY DEF WorldInit, BuildInit
<1>2. BuildTypeOK
  BY <1>1 DEF WorldInit, BuildInit, BuildTypeOK
<1>3. GlobalsSeparated
  BY <1>1 DEF GlobalsSeparated
<1> QED
  BY <1>1, <1>2, <1>3 DEF WInv, IsScheduled, WorldInit, BuildInit

(* Every call on the builder and every step of a cycle keeps it.           *)
THEOREM WInvNext == WInv /\ [WorldNext]_world => WInv'
<1> SUFFICES ASSUME WInv, [WorldNext]_world PROVE WInv'
  OBVIOUS
<1>1. CASE Register
  BY <1>1, ScheduleSystemInv, ProvideInv DEF Register
<1>2. CASE BuildWorld
  BY <1>2, BuildWorldInv
<1>3. CASE Execute
  BY <1>3, ExecuteInv
<1>4. CASE UNCHANGED world
  <2>1. /\ orders' = orders /\ exclusions' = exclusions /\ scheduled' = scheduled
        /\ sync_globals' = sync_globals /\ unsync_globals' = unsync_globals /\ phase' = phase
        /\ UNCHANGED vars
    BY <1>4 DEF world, bvars, builder, planner, vars
  <2>2. Inv => Inv'
    BY SMTT(30), <2>1, InvNext
  <2>3. BuildTypeOK' /\ GlobalsSeparated'
    <3>1. BuildTypeOK'
      BY Zenon, <2>1 DEF WInv, BuildTypeOK
    <3>2. GlobalsSeparated'
      BY Zenon, <2>1 DEF WInv, GlobalsSeparated
    <3> QED
      BY <3>1, <3>2
  <2>4. \A s \in System : IsScheduled(s)' => SystemInv(s)'
    BY <2>1 DEF WInv, IsScheduled, SystemInv
  <2>5. BuiltInv => BuiltInv'
    BY <2>1 DEF BuiltInv, IsScheduled, Excludes
  <2> QED
    BY <2>1, <2>2, <2>3, <2>4, <2>5 DEF WInv
<1> QED
  BY <1>1, <1>2, <1>3, <1>4 DEF WorldNext

(* The builder's and the planner's invariants hold in every world.         *)
THEOREM WInvAlways == WorldSpec => []WInv
BY WInvInit, WInvNext, PTL DEF WorldSpec

(* A world that was built has a topology the planner can run, and the      *)
(* planner's invariants hold in all its cycles.                            *)
THEOREM WorldInvAlways == WorldSpec => [](BuiltIsTopology /\ WorldInv)
<1>1. WInv => BuiltIsTopology /\ WorldInv
  BY DEF WInv, BuiltIsTopology, WorldInv, Inv, TypeOK
<1> QED
  BY <1>1, WInvAlways, PTL

-----------------------------------------------------------------------------

(* Requests that share a cell conflict if one of them is mutable.          *)
LEMMA SharedCellConflicts ==
  ASSUME NEW r, NEW q, r.mutable \/ q.mutable, Cells(r) \cap Cells(q) # {}
  PROVE  r.resource = q.resource /\ Conflicts(r, q)
<1>1. PICK x \in Cells(r) : x \in Cells(q)
  OBVIOUS
<1>2. PICK d \in IF r.all THEN Discrim ELSE r.discrims : x = <<r.resource, d>>
  BY <1>1 DEF Cells
<1>3. PICK e \in IF q.all THEN Discrim ELSE q.discrims : x = <<q.resource, e>>
  BY <1>1 DEF Cells
<1>4. r.resource = q.resource /\ d = e
  BY <1>2, <1>3
<1> QED
  BY <1>4 DEF Conflicts

(* The systems of a built world passed use_resource.                       *)
LEMMA BuiltSpec ==
  ASSUME WInv, phase = "built", NEW s \in System
  PROVE  IsScheduled(s) /\ SystemInv(s) /\ ~SelfConflict(scheduled[s])
<1>1. IsScheduled(s)
  BY DEF WInv, BuiltInv
<1>2. SystemInv(s)
  BY <1>1 DEF WInv
<1> QED
  BY Zenon, <1>1, <1>2 DEF SystemInv

(* use_resource and build_exclusions together miss no aliasing.            *)
LEMMA WInvExclusionsCover == WInv => ExclusionsCover
<1> SUFFICES ASSUME WInv, phase = "built", NEW s \in System, NEW u \in System,
                    NEW i \in DOMAIN scheduled[s].requests,
                    NEW j \in DOMAIN scheduled[u].requests,
                    scheduled[s].requests[i].mutable \/ scheduled[u].requests[j].mutable,
                    Cells(scheduled[s].requests[i]) \cap Cells(scheduled[u].requests[j]) # {},
                    ~(s = u /\ i = j)
             PROVE  u \in exclusions[s]
  BY Zenon DEF ExclusionsCover
<1> DEFINE r == scheduled[s].requests[i]
           q == scheduled[u].requests[j]
<1>1. r.resource = q.resource /\ Conflicts(r, q)
  BY SharedCellConflicts
<1>2. CASE s # u
  <2>1. Excludes(s, u)
    BY <1>1 DEF Excludes, Requests
  <2> QED
    BY <1>2, <2>1 DEF WInv, BuiltInv, Node
<1>3. CASE s = u
  <2>1. ~SelfConflict(scheduled[s])
    BY BuiltSpec
  <2>2. i # j
    BY Zenon, <1>3
  <2> QED
    BY Zenon, <1>1, <1>3, <2>1, <2>2 DEF SelfConflict
<1> QED
  BY <1>2, <1>3

(* Conflicting requests end up in systems that exclude each other.         *)
THEOREM ExclusionsCoverAlways == WorldSpec => []ExclusionsCover
BY WInvExclusionsCover, WInvAlways, PTL

(* Running systems of which one has a mutable request exclude each other.  *)
LEMMA WInvNoAliasedAccess == WInv => NoAliasedAccess
<1> SUFFICES ASSUME WInv, phase = "built", NEW s \in System, NEW u \in System, s # u,
                    Started(s), Started(u),
                    NEW r \in Requests(scheduled[s]), NEW q \in Requests(scheduled[u]),
                    r.mutable, Cells(r) \cap Cells(q) # {}
             PROVE  FALSE
  BY DEF NoAliasedAccess
<1>1. PICK i \in DOMAIN scheduled[s].requests : r = scheduled[s].requests[i]
  BY DEF Requests
<1>2. PICK j \in DOMAIN scheduled[u].requests : q = scheduled[u].requests[j]
  BY DEF Requests
<1>3. u \in exclusions[s]
  BY SMTT(30), <1>1, <1>2, WInvExclusionsCover DEF ExclusionsCover
<1> QED
  BY <1>3 DEF WInv, Inv, ExclusionSafety, Started

(* Holder and creator are on two sides of the archetype's partition.       *)
LEMMA WInvHoldersBeforeCreators == WInv => HoldersBeforeCreators
<1> SUFFICES ASSUME WInv, phase = "built", NEW s \in System, NEW u \in System,
                    Assumes(scheduled[s]) \cap Creates(scheduled[u]) # {},
                    wakeup_state[u] \in {"Started", "Completed"}
             PROVE  wakeup_state[s] = "Completed"
  BY DEF HoldersBeforeCreators
<1>1. PICK x \in Assumes(scheduled[s]) : x \in Creates(scheduled[u])
  OBVIOUS
<1>2. CreationOf[x] \in Befores(scheduled[s]) /\ CreationOf[x] \in Afters(scheduled[u])
  BY <1>1 DEF Befores, Afters, Assumes, Creates
<1>3. SystemInv(s) /\ SystemInv(u)
  BY SMTT(30) DEF WInv, BuiltInv
<1>4. PICK o1 \in orders : Before[o1] = s /\ After[o1] = CreationOf[x]
  BY SMTT(30), <1>2, <1>3 DEF SystemInv
<1>5. PICK o2 \in orders : After[o2] = u /\ Before[o2] = CreationOf[x]
  BY <1>2, <1>3 DEF SystemInv
<1> QED
  BY SMTT(30), <1>4, <1>5, BarrierLemma DEF WInv

(* A running system with a mutable request is alone with its cells.        *)
THEOREM NoAliasedAccessAlways == WorldSpec => []NoAliasedAccess
BY WInvNoAliasedAccess, WInvAlways, PTL

(* Systems that take references for initialized run before the systems     *)
(* that create such entities.                                              *)
THEOREM HoldersBeforeCreatorsAlways == WorldSpec => []HoldersBeforeCreators
BY WInvHoldersBeforeCreators, WInvAlways, PTL

-----------------------------------------------------------------------------
(* Functions and their arguments: module Systems.                          *)


(* The k-th argument of a system that was scheduled is behind the request  *)
(* that the system was scheduled with.                                     *)
Covered(s, k) ==
  /\ k \in DOMAIN scheduled[s].requests
  /\ scheduled[s].requests[k] = RequestOf(run_args[s][k])
  /\ run_args[s][k].kind = "Global" => run_args[s][k].ty \in Global

ArgsCovered == \A s \in System : IsScheduled(s) => \A k \in Requested(run_args[s]) : Covered(s, k)

SystemsInv ==
  /\ WInv
  /\ DOMAIN run_args = System
  /\ evaluated \in [System -> Nat]
  /\ ArgsCovered
  /\ ArgumentsNeverFail

-----------------------------------------------------------------------------

(* An argument that locks a cell has a request, for the same cells.        *)
LEMMA LockedCellRequested ==
  ASSUME NEW args, NEW k \in DOMAIN args, NEW x \in CellsOf(args[k])
  PROVE  /\ k \in Requested(args)
         /\ x \in Cells(RequestOf(args[k]))
<1>1. args[k].kind \in {"Global", "Simple", "Isotope"}
  BY DEF CellsOf
<1>2. k \in Requested(args)
  BY Zenon, <1>1 DEF Requested
<1>3. x \in {<<ResourceOf(args[k]), d>> : d \in IF args[k].all THEN Discrim ELSE args[k].discrims}
  BY DEF CellsOf
<1>4. /\ RequestOf(args[k]).resource = ResourceOf(args[k])
      /\ RequestOf(args[k]).all = args[k].all
      /\ RequestOf(args[k]).discrims = args[k].discrims
  BY DEF RequestOf
<1> QED
  BY <1>2, <1>3, <1>4 DEF Cells

(* No running system is in the way of an argument.                         *)
LEMMA NeverLocked ==
  ASSUME SystemsInv, phase = "built", NEW s \in System, Started(s), HasNextArg(s)
  PROVE  ~Locked(NextArg(s))
<1> SUFFICES ASSUME NEW u \in System, NEW k \in DOMAIN run_args[u], Holds(u, k),
                    NextArg(s).mutable \/ run_args[u][k].mutable,
                    NEW x \in CellsOf(NextArg(s)), x \in CellsOf(run_args[u][k])
             PROVE  FALSE
  BY Zenon DEF Locked
<1> DEFINE i == evaluated[s] + 1
           r == RequestOf(run_args[s][i])
           q == RequestOf(run_args[u][k])
<1>1. i \in DOMAIN run_args[s] /\ NextArg(s) = run_args[s][i]
  BY DEF HasNextArg, NextArg
<1>2. i \in Requested(run_args[s]) /\ x \in Cells(r)
  BY <1>1, LockedCellRequested
<1>3. k \in Requested(run_args[u]) /\ x \in Cells(q)
  BY LockedCellRequested
<1>4. IsScheduled(s) /\ IsScheduled(u) /\ ~SelfConflict(scheduled[s])
  BY BuiltSpec DEF SystemsInv
<1>5. /\ i \in DOMAIN scheduled[s].requests /\ scheduled[s].requests[i] = r
      /\ k \in DOMAIN scheduled[u].requests /\ scheduled[u].requests[k] = q
  BY Zenon, <1>2, <1>3, <1>4 DEF SystemsInv, ArgsCovered, Covered
<1>6. r.mutable \/ q.mutable
  <2>1. r.mutable = run_args[s][i].mutable /\ q.mutable = run_args[u][k].mutable
    BY DEF RequestOf
  <2> QED
    BY <1>1, <2>1
<1>7. Cells(r) \cap Cells(q) # {}
  BY <1>2, <1>3
<1>8. CASE s # u
  <2>1. u \in exclusions[s]
    <3>1. ExclusionsCover
      BY WInvExclusionsCover DEF SystemsInv
    <3> HIDE DEF r, q
    <3>2. (s = u /\ i = k) \/ u \in exclusions[s]
      BY Zenon, <1>5, <1>6, <1>7, <3>1 DEF ExclusionsCover
    <3> QED
      BY <1>8, <3>2
  <2> QED
    BY <2>1 DEF SystemsInv, WInv, Inv, ExclusionSafety, Started, Holds
<1>9. CASE s = u
  <2>1. k # i
    BY <1>9 DEF Holds, SystemsInv
  <2>2. r.resource = q.resource /\ Conflicts(r, q)
    BY <1>6, <1>7, SharedCellConflicts
  <2> QED
    BY Zenon, <1>4, <1>5, <1>9, <2>1, <2>2 DEF SelfConflict
<1> QED
  BY <1>8, <1>9

(* The world has what an argument asks for.                                *)
LEMMA NeverMissing ==
  ASSUME SystemsInv, phase = "built", NEW s \in System, HasNextArg(s)
  PROVE  ~Missing(NextArg(s))
<1> DEFINE i == evaluated[s] + 1
           arg == run_args[s][i]
<1>1. i \in DOMAIN run_args[s] /\ NextArg(s) = arg
  BY DEF HasNextArg, NextArg
<1>2. IsScheduled(s)
  BY BuiltSpec DEF SystemsInv
<1>3. CASE arg.kind = "Global"
  <2>1. i \in Requested(run_args[s])
    BY Zenon, <1>1, <1>3 DEF Requested
  <2>2. /\ i \in DOMAIN scheduled[s].requests /\ scheduled[s].requests[i] = RequestOf(arg)
        /\ arg.ty \in Global
    BY Zenon, <1>2, <1>3, <2>1 DEF SystemsInv, ArgsCovered, Covered
  <2>3. RequestOf(arg).resource = arg.ty /\ RequestOf(arg).sync = ~arg.thread_local
    BY <1>3 DEF RequestOf, ResourceOf
  <2>4. RequestOf(arg) \in Requests(scheduled[s])
    BY Zenon, <2>2 DEF Requests
  <2>5. arg.ty \in GlobalRequests(scheduled[s], ~arg.thread_local)
    BY <2>2, <2>3, <2>4 DEF GlobalRequests
  <2>6. IF arg.thread_local THEN unsync_globals[arg.ty] # "None" ELSE sync_globals[arg.ty] # "None"
    <3>1. GlobalsSeparated
      BY DEF SystemsInv, WInv
    <3>2. CASE arg.thread_local
      <4>1. (~arg.thread_local) = FALSE
        BY <3>2
      <4> QED
        BY Zenon, <1>2, <2>5, <3>1, <3>2, <4>1 DEF GlobalsSeparated, IsScheduled
    <3>3. CASE ~arg.thread_local
      <4>1. (~arg.thread_local) = TRUE
        BY <3>3
      <4> QED
        BY Zenon, <1>2, <2>5, <3>1, <3>3, <4>1 DEF GlobalsSeparated, IsScheduled
    <3> QED
      BY <3>2, <3>3
  <2> QED
    BY <1>1, <1>3, <2>6 DEF Missing
<1>4. CASE arg.kind \in {"Simple", "Isotope"}
  <2>1. i \in Requested(run_args[s])
    BY Zenon, <1>1, <1>4 DEF Requested
  <2>2. i \in DOMAIN scheduled[s].requests /\ scheduled[s].requests[i] = RequestOf(arg)
    BY Zenon, <1>2, <2>1 DEF SystemsInv, ArgsCovered, Covered
  <2>3. RequestOf(arg).resource = ResourceOf(arg)
    BY DEF RequestOf
  <2>4. RequestOf(arg) \in Requests(scheduled[s])
    BY Zenon, <2>2 DEF Requests
  <2>5. ResourceOf(arg) \in {q.resource : q \in Requests(scheduled[s])}
    BY Zenon, <2>3, <2>4
  <2>6. ResourceOf(arg) \in Stored
    BY <2>5 DEF Stored
  <2> QED
    BY <1>1, <1>4, <2>6 DEF Missing
<1> QED
  BY <1>1, <1>3, <1>4 DEF Missing

-----------------------------------------------------------------------------

(* get_spec has the requests of the arguments that run() will get.         *)
LEMMA SpecCoversArgs ==
  ASSUME NEW f, Compiles(f), NEW k \in Requested(ArgsOf(f))
  PROVE  /\ k \in DOMAIN SpecFrom(f, ArgsOf(f)).requests
         /\ SpecFrom(f, ArgsOf(f)).requests[k] = RequestOf(ArgsOf(f)[k])
         /\ ArgsOf(f)[k].kind = "Global" => ArgsOf(f)[k].ty \in Global
<1> DEFINE args == ArgsOf(f)
<1>1. SpecFrom(f, args).requests = [i \in Requested(args) |-> RequestOf(args[i])]
  BY DEF SpecFrom
<1>2. k \in DOMAIN f.params
  BY DEF Requested, ArgsOf
<1>3. args[k].kind = "Global" => args[k].ty \in Global
  BY Zenon, <1>2 DEF Compiles
<1> QED
  BY <1>1, <1>3

(* Scheduling a function leaves the arguments of the others alone.         *)
LEMMA ScheduleFunctionInv ==
  ASSUME SystemsInv, NEW s \in System, NEW f \in FunctionOf[s], ScheduleFunction(s, f)
  PROVE  SystemsInv'
<1> DEFINE spec == SpecFrom(f, ArgsOf(f))
<1>1. /\ Compiles(f) /\ phase = "building" /\ scheduled[s] = NoSpec
      /\ run_args' = [run_args EXCEPT ![s] = ArgsOf(f)]
      /\ UNCHANGED planner /\ evaluated' = evaluated /\ run_panic' = run_panic
  BY Zenon DEF ScheduleFunction
<1>2. spec \in SpecOf[s]
  BY Zenon, <1>1, SystemsAssumption
<1>3. WInv' /\ (scheduled' = scheduled \/ scheduled' = [scheduled EXCEPT ![s] = spec])
  <2>1. CASE GetSpecPanics(ArgsOf(f))
    <3>1. /\ phase' = "panicked" /\ orders' = orders /\ exclusions' = exclusions
          /\ scheduled' = scheduled /\ sync_globals' = sync_globals
          /\ unsync_globals' = unsync_globals
      BY Zenon, <2>1 DEF ScheduleFunction
    <3>2. BuildTypeOK'
      BY Zenon, <3>1 DEF SystemsInv, WInv, BuildTypeOK
    <3>3. GlobalsSeparated'
      BY Zenon, <3>1 DEF SystemsInv, WInv, GlobalsSeparated
    <3>4. \A u \in System : IsScheduled(u)' => SystemInv(u)'
      BY <3>1 DEF SystemsInv, WInv, IsScheduled, SystemInv
    <3> QED
      BY <3>1, <3>2, <3>3, <3>4 DEF WInv
  <2>2. CASE ~GetSpecPanics(ArgsOf(f))
    <3>1. ScheduleSystem(s, spec)
      BY Zenon, <2>2 DEF ScheduleFunction
    <3>2. WInv'
      BY Zenon, <1>1, <1>2, <3>1, ScheduleSystemInv DEF SystemsInv
    <3>3. scheduled' = scheduled \/ scheduled' = [scheduled EXCEPT ![s] = spec]
      BY Zenon, <3>1 DEF ScheduleSystem
    <3> QED
      BY <3>2, <3>3
  <2> QED
    BY <2>1, <2>2
<1>4. DOMAIN run_args' = System /\ DOMAIN scheduled = System
  BY <1>1 DEF SystemsInv, WInv, BuildTypeOK
<1>5. ArgsCovered'
  <2> SUFFICES ASSUME NEW u \in System, IsScheduled(u)', NEW k \in Requested(run_args'[u])
               PROVE  Covered(u, k)'
    BY Zenon DEF ArgsCovered, Requested
  <2>1. CASE u = s
    <3>1. scheduled'[s] = spec /\ run_args'[s] = ArgsOf(f)
      BY <1>1, <1>3, <1>4, <2>1 DEF IsScheduled, SystemsInv
    <3> QED
      BY Zenon, <1>1, <2>1, <3>1, SpecCoversArgs DEF Covered
  <2>2. CASE u # s
    <3>1. scheduled'[u] = scheduled[u] /\ run_args'[u] = run_args[u]
      BY <1>1, <1>3, <1>4, <2>2 DEF SystemsInv
    <3>2. Covered(u, k)
      BY Zenon, <3>1 DEF SystemsInv, ArgsCovered, IsScheduled
    <3> QED
      BY Zenon, <3>1, <3>2 DEF Covered
  <2> QED
    BY <2>1, <2>2
<1> QED
  BY <1>1, <1>3, <1>4, <1>5 DEF SystemsInv, ArgumentsNeverFail

(* Steps that leave specs and arguments alone keep the arguments covered.  *)
LEMMA CoveredUnchanged ==
  ASSUME ArgsCovered, UNCHANGED <<scheduled, run_args>>
  PROVE  ArgsCovered'
BY Zenon DEF ArgsCovered, Covered, IsScheduled

(* An argument is there and its lock is free.                              *)
LEMMA GetArgInv ==
  ASSUME SystemsInv, NEW s \in System, GetArg(s)
  PROVE  SystemsInv'
<1>1. /\ phase = "built" /\ Started(s) /\ HasNextArg(s)
      /\ UNCHANGED world /\ run_args' = run_args
  BY Zenon DEF GetArg
<1>2. ~Missing(NextArg(s)) /\ ~Locked(NextArg(s))
  BY Zenon, <1>1, NeverMissing, NeverLocked
<1>3. /\ run_panic' \in {"unregistered", "borrowed", "none"}
      /\ evaluated' = [evaluated EXCEPT ![s] = @ + 1] \/ evaluated' = evaluated
  BY <1>2 DEF GetArg
<1>4. evaluated' \in [System -> Nat]
  BY <1>3 DEF SystemsInv
<1>5. WInv'
  BY Zenon, <1>1, WInvNext DEF SystemsInv
<1>6. scheduled' = scheduled
  BY Zenon, <1>1 DEF world, bvars, builder
<1>7. ArgsCovered'
  BY Zenon, <1>1, <1>6, CoveredUnchanged DEF SystemsInv
<1> QED
  BY <1>1, <1>3, <1>4, <1>5, <1>7 DEF SystemsInv, ArgumentsNeverFail

(* The planner's own steps, with the arguments dropped at the end of a run.*)
LEMMA CycleInv ==
  ASSUME SystemsInv, Advance \/ \E s \in System : Finish(s)
  PROVE  SystemsInv'
<1>1. Execute
  <2>1. CASE Advance
    BY Zenon, <2>1 DEF Advance, Execute, Next
  <2>2. ASSUME NEW s \in System, Finish(s) PROVE Execute
    BY Zenon, <2>2 DEF Finish, Execute, Next, NextComplete, Started
  <2> QED
    BY Zenon, <2>1, <2>2
<1>2. run_args' = run_args /\ run_panic' = run_panic /\ evaluated' \in [System -> Nat]
  <2>1. CASE Advance
    BY <2>1 DEF Advance, systems, SystemsInv
  <2>2. ASSUME NEW s \in System, Finish(s)
        PROVE  run_args' = run_args /\ run_panic' = run_panic /\ evaluated' \in [System -> Nat]
    <3>1. /\ run_args' = run_args /\ run_panic' = run_panic
          /\ evaluated' = [evaluated EXCEPT ![s] = 0]
      BY Zenon, <2>2 DEF Finish
    <3> QED
      BY <3>1 DEF SystemsInv
  <2> QED
    BY Zenon, <2>1, <2>2
<1>3. scheduled' = scheduled
  BY Zenon, <1>1 DEF Execute, builder
<1>4. WInv'
  BY Zenon, <1>1, ExecuteInv DEF SystemsInv
<1>5. ArgsCovered'
  BY Zenon, <1>2, <1>3, CoveredUnchanged DEF SystemsInv
<1> QED
  BY <1>2, <1>4, <1>5 DEF SystemsInv, ArgumentsNeverFail

-----------------------------------------------------------------------------

(* Before any function is scheduled nothing can be wrong.                  *)
THEOREM SystemsInvInit == SystemsInit => SystemsInv
<1> SUFFICES ASSUME SystemsInit PROVE SystemsInv
  OBVIOUS
<1>1. WInv
  BY Zenon, WInvInit DEF SystemsInit
<1>2. \A s \in System : ~IsScheduled(s)
  BY DEF SystemsInit, WorldInit, BuildInit, IsScheduled
<1> QED
  BY <1>1, <1>2 DEF SystemsInit, SystemsInv, ArgsCovered, ArgumentsNeverFail

(* Scheduling, building and running all keep it.                           *)
THEOREM SystemsInvNext == SystemsInv /\ [SystemsNext]_svars => SystemsInv'
<1> SUFFICES ASSUME SystemsInv, [SystemsNext]_svars PROVE SystemsInv'
  OBVIOUS
<1>1. ASSUME NEW s \in System, NEW f \in FunctionOf[s], ScheduleFunction(s, f) PROVE SystemsInv'
  BY Zenon, <1>1, ScheduleFunctionInv
<1>2. ASSUME NEW s \in System, GetArg(s) PROVE SystemsInv'
  BY Zenon, <1>2, GetArgInv
<1>3. CASE Advance \/ \E s \in System : Finish(s)
  BY Zenon, <1>3, CycleInv
<1>4. ASSUME [WorldNext]_world, scheduled' = scheduled, UNCHANGED systems PROVE SystemsInv'
  <2>1. run_args' = run_args /\ evaluated' = evaluated /\ run_panic' = run_panic
    BY Zenon, <1>4 DEF systems
  <2>2. WInv'
    BY Zenon, <1>4, WInvNext DEF SystemsInv
  <2>3. ArgsCovered'
    BY Zenon, <1>4, <2>1, CoveredUnchanged DEF SystemsInv
  <2> QED
    BY <2>1, <2>2, <2>3 DEF SystemsInv, ArgumentsNeverFail
<1>5. ASSUME NEW g \in Global, ProvideGlobal(g) \/ ProvideGlobalUnsync(g), UNCHANGED <<planner, systems>>
      PROVE  SystemsInv'
  <2>1. UNCHANGED planner /\ UNCHANGED systems
    BY Zenon, <1>5
  <2>2. WorldNext /\ scheduled' = scheduled
    BY Zenon, <1>5, <2>1 DEF WorldNext, Register, ProvideGlobal, ProvideGlobalUnsync
  <2> QED
    BY Zenon, <1>4, <2>1, <2>2
<1>6. CASE BuildWorld /\ UNCHANGED systems
  <2>1. WorldNext /\ scheduled' = scheduled
    BY Zenon, <1>6 DEF WorldNext, BuildWorld, Build
  <2> QED
    BY Zenon, <1>4, <1>6, <2>1
<1>7. CASE UNCHANGED svars
  <2>1. UNCHANGED world /\ UNCHANGED systems
    BY Zenon, <1>7 DEF svars
  <2>2. scheduled' = scheduled
    BY Zenon, <2>1 DEF world, bvars, builder
  <2> QED
    BY Zenon, <1>4, <2>1, <2>2
<1> QED
  BY Zenon, <1>1, <1>2, <1>3, <1>5, <1>6, <1>7 DEF SystemsNext

(* The invariant holds for all functions that compile.                     *)
THEOREM SystemsInvAlways == SystemsSpec => []SystemsInv
BY SystemsInvInit, SystemsInvNext, PTL DEF SystemsSpec

(* No argument of a running system fails for a lock that is taken, or for  *)
(* a component or global that was not registered: the requests of the      *)
(* macro cover what its run() will get.                                    *)
THEOREM ArgumentsNeverFailAlways == SystemsSpec => []ArgumentsNeverFail
<1>1. SystemsInv => ArgumentsNeverFail
  BY DEF SystemsInv
<1> QED
  BY <1>1, SystemsInvAlways, PTL

(* What the scheduler promises of specs holds of the functions they were   *)
(* made from.                                                              *)
THEOREM FunctionsNeverAlias == SystemsSpec => [](NoAliasedAccess /\ HoldersBeforeCreators)
<1>1. SystemsInv => NoAliasedAccess /\ HoldersBeforeCreators
  BY Zenon, WInvNoAliasedAccess, WInvHoldersBeforeCreators DEF SystemsInv
<1> QED
  BY <1>1, SystemsInvAlways, PTL

=============================================================================
