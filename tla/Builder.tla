------------------------------- MODULE Builder -------------------------------
(***************************************************************************)
(* How a world is put together: world::Builder registers the requests of   *)
(* each system (src/world/builder.rs) with scheduler::Builder, which       *)
(* records resource accesses and orders (src/scheduler/builder.rs) and     *)
(* turns them into a Topology (src/scheduler/topology.rs).                 *)
(*                                                                         *)
(* A system is the node its index makes it, so systems of a kind are       *)
(* scheduled in the order of their ids.  A partition value is the node     *)
(* insert_full finds or makes for it.  The storages an archetype is given  *)
(* are those of the components the scheduled systems request.              *)
(***************************************************************************)
EXTENDS Topology

CONSTANTS
  Global,          \* types of global states
  Component,       \* pairs of an archetype and a component, simple or isotope
  Discrim,         \* discriminants of isotope components
  Archetype,
  CreationOf,      \* CreationOf[a]: the node of EntityCreationPartition<a>
  DefaultGlobals,  \* populate_default_globals: thread-safe globals of dynec
  NoInitial,       \* globals whose Global::initial panics
  SpecOf,          \* SpecOf[s]: what the system s may ask for
  NoSpec

Resource == Global \cup Component

(* A global, simple or isotope request.  discrims = Discrim is the discrim *)
(* of None, as for all globals and simple components; sync tells           *)
(* GlobalInitial::Sync from Unsync.                                        *)
Request == [resource : Resource, sync : BOOLEAN, mutable : BOOLEAN,
            all : BOOLEAN, discrims : SUBSET Discrim, strong_refs : SUBSET Archetype]

(* system::Spec; state_refs are the archetypes visit_type finds in the     *)
(* system's own state.  A request is known by the place of the parameter   *)
(* it is for.                                                              *)
IsSystemSpec(spec) ==
  /\ spec.state_refs \cup spec.maybe_uninit \subseteq Archetype
  /\ \A i \in DOMAIN spec.requests : spec.requests[i] \in Request
  /\ spec.creates \cup spec.no_partition \subseteq Archetype
  /\ spec.before \cup spec.after \subseteq Partition

ASSUME BuilderAssumption ==
  /\ CreationOf \in [Archetype -> Partition]
  /\ DefaultGlobals \subseteq Global
  /\ Global \cap Component = {}
  /\ DOMAIN SpecOf = System
  /\ \A s \in System : NoSpec \notin SpecOf[s] /\ \A spec \in SpecOf[s] : IsSystemSpec(spec)
  /\ \A s \in System : \A spec \in SpecOf[s] : \A i \in DOMAIN spec.requests :
       spec.requests[i].all => spec.requests[i].discrims = Discrim

VARIABLES
  scheduled,       \* the spec each system was scheduled with, or NoSpec
  sync_globals,    \* "Provided", "Missing", or "None" for a type not in the map
  unsync_globals,
  phase            \* "building", "built", or "panicked"

builder == <<scheduled, sync_globals, unsync_globals, phase>>

BuildInit ==
  /\ orders = {}
  /\ exclusions = [n \in Node |-> {}]
  /\ scheduled = [s \in System |-> NoSpec]
  /\ sync_globals = [g \in Global |-> IF g \in DefaultGlobals THEN "Provided" ELSE "None"]
  /\ unsync_globals = [g \in Global |-> "None"]
  /\ phase = "building"

-----------------------------------------------------------------------------

(* Mutant: two writers of one discriminant do not conflict.                *)
MutConflicts(a, b) == (a.mutable # b.mutable) /\ (a.all \/ b.all \/ a.discrims \cap b.discrims # {})

(* check_conflicts_with.                                                   *)
Conflicts(a, b) == (a.mutable \/ b.mutable) /\ (a.all \/ b.all \/ a.discrims \cap b.discrims # {})

Requests(spec) == {spec.requests[i] : i \in DOMAIN spec.requests}

(* use_resource: a system may not conflict with itself.                    *)
SelfConflict(spec) ==
  \E i, j \in DOMAIN spec.requests :
    /\ i # j
    /\ spec.requests[i].resource = spec.requests[j].resource
    /\ Conflicts(spec.requests[i], spec.requests[j])

GlobalRequests(spec, sync) ==
  {r.resource : r \in {q \in Requests(spec) : q.resource \in Global /\ q.sync = sync}}

(* A type is a thread-safe or a thread-local global, and only systems on   *)
(* the main thread use the latter.                                         *)
GlobalPanics(s, spec) ==
  \/ s \in SendSystem /\ GlobalRequests(spec, FALSE) # {}
  \/ \E g \in GlobalRequests(spec, TRUE) :
       unsync_globals[g] # "None" \/ g \in GlobalRequests(spec, FALSE)
  \/ \E g \in GlobalRequests(spec, FALSE) : sync_globals[g] # "None"

(* Mutant: the strong references inside requested components are ignored. *)
MutBefores(spec) == {CreationOf[a] : a \in spec.state_refs \ spec.maybe_uninit} \cup spec.before

(* The partitions the system is put in front of and behind.                *)
Befores(spec) ==
  {CreationOf[a] : a \in (spec.state_refs \ spec.maybe_uninit)
                          \cup UNION {r.strong_refs : r \in Requests(spec)}}
    \cup spec.before
Afters(spec) == {CreationOf[a] : a \in spec.creates \ spec.no_partition} \cup spec.after

(* add_dependency is called with the system at one end.                    *)
OrdersOf(s) == {o \in Order : s \in {Before[o], After[o]}}

(* add_dependencies: at least one order per partition, more when several   *)
(* arguments of the system ask for the same one.                           *)
Registers(s, spec, new) ==
  /\ {After[o] : o \in {p \in new : Before[p] = s}} = Befores(spec)
  /\ {Before[o] : o \in {p \in new : After[p] = s}} = Afters(spec)

(* The map entries that a system's global requests leave behind.           *)
WithMissing(map, globals) ==
  [g \in Global |-> IF g \in globals /\ map[g] = "None" THEN "Missing" ELSE map[g]]

(* schedule and schedule_thread_unsafe: push the system, then              *)
(* register_resources.                                                     *)
ScheduleSystem(s, spec) ==
  /\ phase = "building" /\ scheduled[s] = NoSpec
  /\ \A u \in System :
       u < s /\ (u \in SendSystem <=> s \in SendSystem) => scheduled[u] # NoSpec
  /\ IF SelfConflict(spec) \/ GlobalPanics(s, spec)
     THEN /\ phase' = "panicked"
          /\ UNCHANGED <<orders, exclusions, scheduled, sync_globals, unsync_globals>>
     ELSE /\ \E new \in SUBSET OrdersOf(s) : Registers(s, spec, new) /\ orders' = orders \cup new
          /\ scheduled' = [scheduled EXCEPT ![s] = spec]
          /\ sync_globals' = WithMissing(sync_globals, GlobalRequests(spec, TRUE))
          /\ unsync_globals' = WithMissing(unsync_globals, GlobalRequests(spec, FALSE))
          /\ UNCHANGED <<exclusions, phase>>

(* global and global_thread_unsafe.                                        *)
ProvideGlobal(g) ==
  /\ phase = "building"
  /\ sync_globals' = [sync_globals EXCEPT ![g] = "Provided"]
  /\ UNCHANGED <<orders, exclusions, scheduled, unsync_globals, phase>>
ProvideGlobalUnsync(g) ==
  /\ phase = "building"
  /\ unsync_globals' = [unsync_globals EXCEPT ![g] = "Provided"]
  /\ UNCHANGED <<orders, exclusions, scheduled, sync_globals, phase>>

(* build_exclusions.                                                       *)
Excludes(s, u) ==
  \E r \in Requests(scheduled[s]), q \in Requests(scheduled[u]) :
    r.resource = q.resource /\ Conflicts(r, q)

(* scan_cycles panics; ScanCycles has the search.                          *)
Cyclic(os) == ~Acyclic(os)

(* build: the missing globals are initialised, then Topology::init looks   *)
(* for cycles and compares the accesses of every two systems.              *)
Build ==
  /\ phase = "building" /\ \A s \in System : scheduled[s] # NoSpec
  /\ IF \/ \E g \in NoInitial : "Missing" \in {sync_globals[g], unsync_globals[g]}
        \/ Cyclic(orders)
     THEN phase' = "panicked" /\ UNCHANGED exclusions
     ELSE /\ phase' = "built"
          /\ exclusions' = [n \in Node |->
               IF n \in System THEN {u \in System \ {n} : Excludes(n, u)} ELSE {}]
  /\ UNCHANGED <<orders, scheduled, sync_globals, unsync_globals>>

BuildNext ==
  \/ \E s \in System : \E spec \in SpecOf[s] : ScheduleSystem(s, spec)
  \/ \E g \in Global : ProvideGlobal(g) \/ ProvideGlobalUnsync(g)
  \/ Build

bvars == <<orders, exclusions, builder>>

BuildSpec == BuildInit /\ [][BuildNext]_bvars

-----------------------------------------------------------------------------

(* The maps and specs of the builder stay in their types, and the orders   *)
(* it holds are those of systems already scheduled.                        *)
BuildTypeOK ==
  /\ orders \subseteq Order
  /\ exclusions \in [Node -> SUBSET System]
  /\ DOMAIN scheduled = System
  /\ \A s \in System : scheduled[s] \in SpecOf[s] \cup {NoSpec}
  /\ sync_globals \in [Global -> {"None", "Missing", "Provided"}]
  /\ unsync_globals \in [Global -> {"None", "Missing", "Provided"}]
  /\ phase \in {"building", "built", "panicked"}
  /\ \A s \in System, o \in orders :
       s \in {Before[o], After[o]} => scheduled[s] # NoSpec

(* What Topology::init is given passes its checks: the orders of a built   *)
(* world have no cycle, and exclusion is mutual and irreflexive.  Planner  *)
(* starts from here.                                                       *)
BuiltIsTopology == phase = "built" => IsTopology(orders, exclusions)

(* The cells of memory a request reaches.                                  *)
Cells(r) == {<<r.resource, d>> : d \in IF r.all THEN Discrim ELSE r.discrims}

(* use_resource and build_exclusions miss no aliasing: two requests that   *)
(* share a cell, one of them mutable, belong to systems that exclude each  *)
(* other; no system holds two such requests.                               *)
ExclusionsCover ==
  phase = "built" =>
    \A s, u \in System :
      \A i \in DOMAIN scheduled[s].requests, j \in DOMAIN scheduled[u].requests :
        LET r == scheduled[s].requests[i]
            q == scheduled[u].requests[j]
        IN  (r.mutable \/ q.mutable) /\ Cells(r) \cap Cells(q) # {}
              => (s = u /\ i = j) \/ u \in exclusions[s]

(* Systems never take one global for thread-safe and thread-local, only    *)
(* main-thread systems have thread-local ones, and every global they ask   *)
(* for is in its map when it is built ("used as both thread-safe and       *)
(* thread-local", "Cannot schedule system ... as thread-safe").            *)
GlobalsSeparated ==
  \A s, u \in System : scheduled[s] # NoSpec /\ scheduled[u] # NoSpec =>
    /\ GlobalRequests(scheduled[s], TRUE) \cap GlobalRequests(scheduled[u], FALSE) = {}
    /\ s \in SendSystem => GlobalRequests(scheduled[s], FALSE) = {}
    /\ \A g \in GlobalRequests(scheduled[s], TRUE) : sync_globals[g] # "None"
    /\ \A g \in GlobalRequests(scheduled[s], FALSE) : unsync_globals[g] # "None"

=============================================================================
