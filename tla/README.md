# A TLA+ model of dynec

dynec is an entity-component-system library in Rust. A *world* holds entities of
several *archetypes*; *systems* run in cycles on a thread pool and read or write
*components* and *globals*; entities are created and deleted by operations that
systems queue while a cycle runs and that the world performs after it.

This directory models the parts of dynec whose correctness depends on orders of
events that tests hardly reach. Paths below are relative to the repository.

## The system

| part | code | state | operations |
|---|---|---|---|
| world builder | `src/world/builder.rs`, `src/scheduler/builder.rs` | systems, accesses, orders, global maps | `schedule`, `schedule_thread_unsafe`, `global`, `global_thread_unsafe`, `build` |
| topology | `src/scheduler/topology.rs` | dependents, exclusions, initial planner | `init` (`scan_cycles`, `build_initials`, `build_exclusions`) |
| planner | `src/scheduler/planner.rs` | state and blocker count of each node, two pools of runnable systems | `steal_send`, `steal_unsend`, `complete` |
| executor | `src/scheduler/executor.rs` | planner mutex, condition variable, panic flag, deadlock counter | `execute_full_cycle`, `main_worker`, `threaded_worker`, `wait_for_task` |
| entity allocator | `src/entity/ealloc/*` | gauge, recyclers per shard, queues, snapshots | `allocate` online and offline, `queue_deallocate`, `flush`, `shards` |
| entity life cycle | `src/world.rs`, `src/world/offline.rs`, `src/entity/*` | operation buffer, deletion flags, generations, reference counts | `create`, `delete`, `drain_cycle` |
| component storages | `src/storage/vec.rs`, `src/storage/tree.rs` | values per entity, presence bits, partitions | `set`, `get`, chunks, `split_out` |
| isotopes | `src/storage/isotope.rs`, `src/world/rw/isotope/*`, `src/comp/discrim.rs` | storages per discriminant, their locks, maps from discriminants to guards | full and partial accessors, `get_storage`, `get_storage_many` |
| iteration | `src/system/iter.rs`, `src/system/access/single.rs`, `src/entity/ealloc/snapshot.rs` | slices of the entity range, partitions that go with them | serial and parallel iterators |
| component initialisation | `src/world/typed.rs`, `src/comp/any.rs`, `src/storage/simple.rs` | storages in the order of their initialisers, components of entities | registration, `init_entity`, `clear_entry` |
| globals | `src/global.rs`, `src/world/global.rs` | two maps, a lock per thread-safe global | reads and writes |
| referrers | `src/entity/referrer*`, `codegen/src/entity_ref.rs` | types visited, archetypes found | `visit_type` |
| macros of systems and components | `codegen/src/system*`, `codegen/src/comp.rs`, `codegen/src/comps.rs` | none | `#[system]`, `#[comp]`, `comps!` |
| tracer, other macros, utilities | `src/tracer.rs`, `codegen/*`, `src/util.rs` | none | logging, code generation |

The macros turn functions and structs into systems and components: what a system
requests, and how it gets its arguments. A request searches its component for strong
references and registers a storage, with those that its initialiser reads. The builder
turns what systems ask for into a topology. Every cycle starts from a
copy of the topology's initial planner. The threads of the executor take the
planner's mutex, steal a system, release the mutex while the system runs, and take
it again to complete the system, which makes others runnable and wakes waiting
threads. A system iterates over a snapshot of the allocated ids taken when the
cycle started, holds accessors whose locks the scheduler promises to be free, takes
new ids from the shard of its thread, and queues creations and deletions. When all
threads have returned, the queued operations are run one after the other and the
allocators are flushed.

What is hard: threads racing for systems and wakeups; a condition variable with a
timeout; panics in the middle of a cycle; ids that several shards hand out and that
come back; deletions that wait for finalizers over many cycles; references to
entities that are gone; unsafe code that relies on partitions being apart; ranges
with holes split at any point; indices kept across insertions; recursive types and
initialisers that read each other; generated code whose requests and arguments must
agree.

## Modules

| module | models |
|---|---|
| `Topology` | nodes, orders, exclusions, and what `build_initials` computes from them |
| `ScanCycles` | `scan_cycles` and `scan_cycles_from`, one action per turn of the loops, the call stack as a sequence |
| `Schedule` | the contract of a cycle: a node runs once, behind its dependencies, never beside a node it excludes |
| `Cycles` | `ScanCycles` followed by the cycles of `Planner`, for every set of orders |
| `Planner` | `Planner`: `StealSend`, `StealUnsend`, `Complete`, `Reset`; implements `Schedule` |
| `Executor` | the threads around the planner; implements `Planner` |
| `Builder` | `world::Builder` and `scheduler::Builder` |
| `Scheduler` | `Builder` followed by the cycles of `Planner` |
| `Attr` | how the macros look up options in `#[dynec(...)]` and its like (`codegen/src/util.rs`) |
| `SystemMacro` | `#[system]`: the usage of each parameter, what is rejected, the `Spec` and the arguments of `run` |
| `Systems` | functions expanded by `SystemMacro`, scheduled by `Scheduler`, and getting their arguments when they run |
| `IdPool` | the contract of an allocator, trait `Ealloc` |
| `Distribute` | `distribute_sorted`, which balances the shards in a flush |
| `Ealloc` | `Recycling` and its shards; implements `IdPool` |
| `Entities` | `World`, the offline buffer, reference counts, generations, deletion flags, on top of `IdPool` |
| `Storage` | the contract of the traits in `src/storage.rs`: a map and disjoint loans of it |
| `VecStorage`, `TreeStorage` | the two storages |
| `Storages` | either of them; implements `Storage` |
| `Iteration` | `EntityIterator` and the iterators of `Single` over a snapshot |
| `DiscrimMap` | the full maps and partial lists of `src/comp/discrim.rs` |
| `Isotopes` | isotope storages and the four accessors, on top of `Ealloc` |
| `Referrer` | `visit_type` and its implementations, the call stack as a sequence |
| `Typed` | `typed::Builder`, `Typed`: registration of storages, initialisation of entities, initialisers |
| `CompMacro` | `#[comp]` and `comps!`: what they reject, declare and insert |
| `Components` | components declared by `CompMacro`, searched by `Referrer`, registered and initialised by `Typed` |
| `*Proofs` | theorems about the module of that name; `SystemsProofs` also has those about `Scheduler` |
| `MC*` | instances for TLC |

Names follow the code.

*Scheduler.* Systems and partitions are numbers, so that the `BTreeSet` and the
pools of the code (which pop their first element) have their order. An order is an
edge with an identity of its own, because the code counts duplicate edges.
`planner_panic` is set where `planner.rs` would panic, fail an `expect` or
underflow. In `Executor` a thread is at one of a few program points; the planner
mutex is held from `Lock` to the next release, and each action is what a thread
does between two points where others can run. `Timeouts`, `SystemPanics` and
`DebugAssertions` switch on the expiry of `wait_for`, panicking systems, and the
deadlock counter. In `Builder` a request is a resource, an access and a set of
discriminants; what a system may ask for is a parameter, `SpecOf`.

*Systems.* A parameter is the last name of its type with its type arguments and
attributes. `ArgsOf` is the `ArgType` each is given, `Compiles` that neither the macro
nor rustc refuses the function, `SpecFrom` the generated `get_spec`. `GetArg` is one
line of the generated `run`: it looks up a storage, global or shard and tries its
lock, which the system keeps until it returns. The discriminants of a parameter are a
set; lists that repeat one are in `Isotopes`.

*Components.* A call of `visit_type` or `add_simple_storage_if_missing` is a frame of
a stack. A stored component is the set of the entities its value comes from, so a
value left behind, or computed from one, shows. `init_entity` fills one storage per
step, and `DepFault` gives each way in which a dependency cannot be had.

*Allocator.* `Ealloc` keeps the fields of `Recycling`, the ids in the hands of
callers (`allocated`) and the phase of the world. An id handed out a second time
would not show in a set, so `HandOut` also records the ids that had a holder already
(`doubled`), and no step of `IdPool` adds one. `AllocateOnline` is a shard's
`allocate`: an id from its recycler, the one closest to the hint, or the next of
the atomic gauge, which wraps and then panics. `Flushing` is `flush`: the shards
are ranked by size, `Take` is what `distribute_sorted` gives each, and the queue is
cut into slices in that order.

*Life cycle.* In `Entities` an incarnation is an id and how often it has been
allocated. Storages, counters and operations hold incarnations, which the code
cannot see, so that a value left from an earlier holder of an id shows. Strong and
weak references are sets. A panic ends the execution and is remembered with its
reason. `Usage` says what a program does besides creating and deleting entities;
`EntityRc` is the feature `debug-entity-rc`.

*Storages.* The bit vector and the array of `VecStorage` are sequences and grow as
in the code; a slot that was moved out is `Uninit`. Partitions are offsets and
lengths, or bounds of the tree.

*Iteration.* A state is a list of slices, and `Split` is rayon splitting any of
them; an iterator is what it yields from each slice, with the panics on the way. A zip
is the sequence of its accessors (`members`), each to read or to write, required or
wrapped in `Try`, on a vector or a tree; a split passes to each of those that write.
`has` is which entities have which component, `found` with which they were yielded.
`RawMax` is the greatest number of the type of ids, in which `approx_midpoint` adds.

*Isotopes.* Accessors take their locks in `ReadFull`, `WriteFull`, `ReadPartial`
and `WritePartial`, and again when `get_storage` meets a new discriminant; a lock
that another accessor has is a fault. Systems start as the scheduler allows, by
`Conflicts`. A list of discriminants may have one repeated; a partial accessor that
writes then fails for its own lock (`OwnTwice`), which is a fault of its own kind.

## Runs

| run | question | result |
|---|---|---|
| `planner` | for every topology of five nodes: is the verdict of the depth-first search right, does it end, and where it passes, are the planner's counters and pools exact, can a cycle stall, and is `Schedule` (order, exclusion, completion) implemented? | holds |
| `executor_cycle` | with three threads in a debug build and no timeout, is every wakeup delivered, does every cycle end, and do the threads drive the planner as `Planner` says? | holds |
| `executor_panic` | when systems panic and waits expire, do running systems stay apart, is a returned cycle complete, and does everyone leave after a panic? | holds |
| `executor_deadlock` | with timeouts, does the deadlock counter fire only on a deadlock? | **violated** |
| `scheduler` | from functions with `#[system]` to running systems: do they never alias memory, do creators come behind holders of references, and does no argument find its lock taken or its storage missing? | holds |
| `ealloc` | is an id ever lost or in two places, are flushes balanced, and is `IdPool` implemented, which hands no id to two holders? | holds |
| `entities` | are references valid or the deletion refused, are finalizers respected, do storages, counters, flags and allocator agree between cycles, are ids given back once, and do deletions complete? | holds |
| `storages` | do both storages keep the contract of `Storage`, partitions apart, reads initialised even after a split that failed, chunks maximal? | holds |
| `iterate` | is every entity visited once, with exactly its components, in its own slice, without a panic, alone and in zips? | holds |
| `isotopes` | does no try-lock of an accessor meet the lock of another, and are lazily made storages filled for the first holders of ids? | holds |
| `discrim_map` | do the maps find what was inserted, answer in the order of the keys and panic on misuse only? | holds |
| `components` | from `#[comp]` to entities: does the search find exactly the strong references, are storages behind those their initialisers read, do creations fail only for want of what the caller owes, is every simple component made from its own entity, and do both recursions end? | holds |

The violation is a race. `wait_for_task` waits again after a timeout without asking
the planner for work. A thread whose second expires just before `complete` calls
`notify_all` is not notified, then waits again with work in the pool. If no other
thread takes that work, a debug build panics with "Deadlock detected" and a release
build waits for ever.

Bounds.
* `planner`: three systems (two thread-safe, one on the main thread) and two
  partitions, with any subset of ten orders, give every relation the planner
  distinguishes: both pools, chains across two barriers, duplicate orders, cycles of
  two and four nodes, exclusions inside and across pools. The executor runs have
  three threads: two waiters and a completer.
* `scheduler` gives each of three systems the kinds of function that the code tells
  apart: parameters that conflict with another system's or with each other, share,
  have some or all discriminants, thread-safe and thread-local globals, local state
  with references, creators with and without their partition, and functions that the
  macro, rustc or `get_spec` refuses.
* `components` mixes three kinds of program, since the parts that differ do not
  interact: any initialisers of three simple components with up to two parameters,
  cycles included; an isotope component of two discriminants declared in every way,
  with two ids that have two entities each; and every nesting of a struct and a
  container in a component, recursive or not. `MaxCalls` and `MaxDepth` exceed the
  number of types and components, so that only a recursion without end meets them.
* `ealloc` has three shards and four ids: shards of three different sizes, a flush
  that raises two of three shards, remainders, and a gauge that wraps.
* `entities` has two ids with two incarnations each, two threads and two operations
  per thread and cycle: an entity deleted by one thread while another creates on the
  recycled id, deletions that overtake the creation, and reruns over several cycles.
* `storages` has ids up to three, so bits and array can differ in length by more
  than one and partitions be split twice. Two values tell a lost write.
* `iterate` has snapshots of up to 32 ids, since slices are split only while the
  right half has eight or more: no split, one and three. With up to two holes it covers
  the serial iterators, `par_iter_mut` and `par_iter_chunks_mut`, without holes all of
  them (see below why). Zips have up to three accessors, so that one is in front of
  and one behind another, with reads and writes, trees and vectors mixed. An optional
  component is that of the ids below any one, but for any one (`HasOptional`): the
  array ends anywhere and has a gap anywhere.
* `isotopes` has two systems with any pair of requests, two discriminants, three
  ids; the discriminants and systems are symmetric. `discrim_map` has three
  discriminants in every initial order and arrays of up to three keys.

`CHECK_DEADLOCK FALSE` is set where the program stops: after a panic, an exhausted
id type, the end of the search, the last split, and where the bounds on
incarnations or calls end a behaviour.

Fairness. Each thread of `Executor` is weakly fair: a thread that can go on does, the
operating system starves none. Taking the mutex is strongly fair, since parking_lot
hands over a contended mutex eventually. Systems terminate. In `Entities` the program
keeps calling `World::execute`, cycles end, and the drain, which is a loop in one
thread, goes on; nothing is assumed of systems setting or unsetting finalizers.
The search for cycles, the search of a type and the registration of storages are
recursions of one thread, which goes on (`CyclesSpec`, `ComponentsSpec`).

## Proofs

All theorems hold for every value of the constants: any number of systems,
partitions, orders, requests, threads, shards and ids.

* `PlannerProofs`. The invariant `PlannerInv` says what a blocker count counts (the
  orders from nodes that are not completed plus the started systems that exclude
  the node), that the pools hold exactly the pending systems, and that
  `remaining_systems` is the number of systems not completed. It is inductive
  together with the type invariant and `ExclusionSafety`. From it follow the absence
  of panics, the barriers, `NoStall` (an acyclic graph has a minimal node among
  those not completed) and the refinement of `Schedule`.
* `ExecutorProofs`. `EInv` relates threads to the planner: who holds the mutex, who
  runs which system, how many threads are counted as active. Every step of a thread
  is a step of the planner or a stutter, so the planner's theorems carry over.
  `WakeupAlways` needs `~Timeouts`, and the violated run shows that it must. The
  theorems include a world without workers, where the main thread polls both pools.
* `SystemsProofs`. `WInv` relates specs, orders and exclusions of the systems
  registered so far, and includes the planner's invariant once the world is built;
  the theorems about `Scheduler` follow from it. `SystemsInv` adds to `WInv` that each argument which may lock
  something has, at its place, the request that the macro made of it. A lock that is
  taken would be one of a running system that excludes this one, or of the system's
  own arguments, whose conflicts `get_spec` rejected; a storage is there because the
  request registered it, a global because `GlobalsSeparated` says in which map.
* `ReferrerProofs`. `ReferrerInv` is the argument of a graph search: what was entered
  lies in every closed set around the root (`Sound`), and what it contains was
  entered or is pending in a running call (`Complete`). When no call runs, the
  entered types are exactly those reachable.
* `ComponentsProofs`. `TypedInv` says that every dependency of a running call has its
  storage, or is still to come in the call, or is what the next call is for; so a
  storage is inserted behind its dependencies. While an entity is initialised, the
  storages up to `index` have the component unless the caller left it out
  (`FilledInv`), so the initialiser of a simple component finds what it reads, made
  from the same entity.
  `MacroCreationsComplete` shows that what `#[comp]` refuses of isotope components is
  what `fill_init_isotope` cannot do.
* `ScanCyclesProofs`. `SInv` says that the stack is a path, that all dependents of an
  exited node have exited, and that no cycle passes through an exited node; the
  stack from the node found again is the cycle that the panic reports.
* `EallocProofs`. `AInv` adds to `IdsInOnePlace` the types and that a world that is
  not marked for a flush has an empty queue, so that no id waits in the queue while
  threads allocate. A gauge that has not wrapped points to an id nobody has; a reuse
  moves an id from one recycler to one caller; a flush moves each queued id to one
  shard, whatever the sizes. So an id that is handed out has no holder, nothing is
  added to `doubled`, and every step is one of `IdPool` or a stutter, up to the panic
  "integer overflow" of an allocation that finds the ids exhausted.
* `IsotopesProofs`. `LockInv` says that running systems do not conflict and have
  locked nothing but what they requested, so a storage that an accessor makes or
  meets in the middle of a cycle is locked by nobody in its way. `FillInv` says that
  initialised and queued entities have ids the gauge has passed, that ids missing
  from a snapshot belonged to a deleted entity, and that in a cycle the snapshot
  covers the initialised entities that are the first to have their ids; so a storage
  made from a snapshot at any time has them. Both need `AInv` of the allocator.

Assumptions are `NodeAssumption`, `OrderAssumption`, `BuilderAssumption`,
`ThreadAssumption`, `EallocAssumption`, `SystemsAssumption`, `ReferrerAssumption`,
`TypedAssumption` and `ComponentsAssumption`: identifiers are distinct numbers, an
order links a system and a partition, a full access covers every discriminant, there
are shards and ids, functions marked `thread_local` are the main thread's systems,
references have no fields, the deletion flag is declared as in the code, and
components are types.

Only model-checked: liveness (`CycleCompletes`, `PanicPropagates`, `ScanTerminates`,
`SearchEnds`, `RegistrationEnds`, `DeletionCompletes`), which is out of the prover's
reach; `DistributesEvenly`, which
needs induction over the shards; and, so far, all of `Entities`, `Storages`,
`Iteration` and `DiscrimMap`.

## Where the code departs from what it says

Modelling met executions in which the code does not do what its documentation, or
one of its own assertions, says. The properties are in the modules, and TLC shows
each execution when the property is checked of the module's specification, with the
constants of its run changed as given.

| property | where | what happens | what is said |
|---|---|---|---|
| `NoDeadlockDetected` (run `executor_deadlock`) | `src/scheduler/executor.rs:404` | the race described above | `executor.rs:398` "wait for condvar to be notified, or poll for panic interrupts every second" |
| `SnapshotCovers` of `Ealloc` | `src/entity/ealloc/recycling.rs:222` | a shard that serves a recycled id does not queue the reuse, so later snapshots leave the entity out | `recycling.rs:32` "The queue of allocated IDs during online, to be synced to recyclable after join."; `src/system/iter.rs:31` "the iterator describe the state after the previous tick completes" |
| `SnapshotCovers` of `Ealloc` | `src/world.rs:127` | `World::create` on a recycled id does not mark the allocator, and the next cycle's snapshot leaves the entity out | `src/system/iter.rs:31`, as above |
| `SnapshotOnlyAllocated` of `Ealloc` | `src/entity/ealloc/recycling.rs:123` | an id that is reused and given back before one flush is added to `recyclable` and then removed, and snapshots show an entity that is not there | `src/entity/ealloc/snapshot.rs:13` "A snapshot of the allocated entities during offline." |
| `AssertionsHold` of `Entities`, `Usage = {"again"}` | `src/world/offline.rs:165` | two systems queue the deletion of one entity, and the second one panics | `src/entity/rctrack.rs:40` asserts no "double free of entity last strong reference" |
| `AssertionsHold` of `Entities`, `Usage = {"early"}` | `src/world/offline.rs:95` | shards are drained one after the other, and a deletion that comes before the creation of its entity panics | `src/entity/rctrack.rs:39` expects no "call to rctrack::Store::remove() with nonexistent ID" |
| `DeletesTheOneAsked` of `Entities`, `Usage = {"again", "weak"}` | `src/entity.rs:223` | deleting through a weak reference to an entity that is gone deletes the present holder of the id | `src/entity.rs:210` "stores the generation of an entity in order to disambiguate new entities that uses the recycled memory" |
| `GenerationsTellApart` of `Entities`, `Usage = {"weak", "newborn"}` | `src/world.rs:251` | the generation grows when the creation is drained, so a weak reference made in the cycle of the creation equals one to the previous holder | `src/entity.rs:181` "since this strong reference is still valid, the current state of the generation store is the actual generation." |
| `IsotopesDropped` of `Entities`, `Usage = {"isotope"}` | `src/world.rs:310` | deletion clears simple storages only; the next holder of the id reads the isotope component | `README.md:79` "(because components are dropped after deletion and cannot be read anymore)" |
| `SplitsFit` of `VecStorage` | `src/storage/vec.rs:290` | unsetting past the end grows the bits and not the array, and a split between the two ends panics | `src/storage.rs:97` asks only that "`entity` must be `> 0` and `< partition_length`" |
| `VisitsEachOnce` of `Iteration`, mode `par_iter`, one member, gauge 17, one hole | `src/entity/ealloc/snapshot.rs:69` | the first range of a slice ends at the first hole of the whole snapshot: entities are left out or visited twice | `src/system/access/single.rs:83` "Iterates over chunks of entities in parallel." |
| `NeverPanics` of `Iteration`, mode `par_entities_with` or `par_entities_with_chunked`, gauge 4, one hole | `src/system/iter.rs:131` | holes are asked for their components | `src/system/iter.rs:120` "Iterates over all entities in parallel, yielding the components requested." |
| `NeverPanics` of `Iteration`, mode `par_chunks_with`, gauge 1 | `src/system/iter.rs:149` | with no entity, the empty chunk lies past the end of the storage | `src/system/access/single.rs:447` "so panic is practically impossible." |
| `NeverPanics` of `Iteration`, mode `par_entities_with`, a tree to write, gauge 17 | `src/system/iter.rs:179` | `take_serial` splits a tree partition at its own upper bound, which its assertion refuses | `src/storage.rs:97`, as above |
| `NeverPanics` of `Iteration`, mode `entities_with`, `Try` of a vector to write, gauge 4, one hole | `src/storage/vec.rs:290` | the deletion of an entity has unset an optional component past the end of the array; `take_serial` splits between the two ends | `src/system/iter.rs:229` lists "Any of the above wrapped with [`Try`] for [optional](comp::Presence::Optional) components." |
| `SameAsOneByOne` of `DiscrimMap`, kind `sorted` | `src/comp/discrim.rs:615` | indices are kept while new discriminants are inserted in front of them: a split panics or answers with another isotope's storage | `src/system/access/isotope.rs:44` "Equivalent to calling [`Self::get_storage`] for each key." |
| `SameAsOneByOne` of `DiscrimMap`, kind `bounded`, `Discrim = {1, 2, 3}` | `src/comp/discrim.rs:796` | a position in the array is converted to a discriminant, which may be refused | `src/system/access/isotope.rs:44`, as above |
| `RepeatsAllowed` of `DiscrimMap` | `src/comp/discrim.rs:201` | a repeated key panics, in full and in partial accessors that read | `src/system/access/isotope.rs:46` "Duplicate keys are allowed because the return type is immutable." |
| `LockedByAnother` of `Isotopes` | `src/world/rw/isotope/write/partial.rs:48` | a partial accessor that writes, with a discriminant repeated in its list, fails for its own lock | `src/world/rw/isotope/write.rs:23` "is currently used by another system. Maybe scheduler bug?" |
| `IsotopesNeverInstantiated` of `Typed`, in `Components` | `src/storage/isotope.rs:131` | the creation of an entity runs the initialiser for every discriminant that has a storage | `src/comp.rs:46` "Isotope components are never instantiated on entity creation." |
| `NeverPanics` of `Iteration`, `RawMax = 40`, mode `par_iter_mut`, gauge 33 | `src/entity/raw.rs:86` | `approx_midpoint` adds two ids in the type of ids, and the sum overflows: in a snapshot with more than half of the ids of the type, the last slices cannot be asked for their middle | `src/entity/raw.rs:87` expects "get() >= 1, get() + get() >= 2, half >= 1" |
| `MustIsInfallible` of `Isotopes` | `src/storage/isotope.rs:143` | a new storage is filled from the snapshot, which leaves out entities on recycled ids | `src/system/access/isotope.rs:131` "This method is infallible for correctly implemented `comp::Must`" |

For this reason `iterate` does not run the parallel iterators over holes or to write
trees, nor optional vectors to write next to deleted entities,
`AnswersTheCall` excepts new keys in front of greater ones and repeated keys of calls
for shared references, `LocksNeverFail` is about the locks of other accessors,
`InitialisedFromItself` about simple components, `FirstHoldersFilled` is
about ids not used before, and `entities` runs without a second deletion of one
entity. Everything else those runs check holds with the code as it is.

`CreationFailsOnlyIfIncomplete` excepts isotope components that are not `Supported`,
and `RegistrationEnds` programs that are not `DepsAcyclic`. Without the exceptions
TLC shows:

* The components that an isotope initialiser reads are not registered with it
  (`src/world/typed.rs:78`), so a creation may end at `typed.rs:132` "dep storage does
  not exist, toposort bug"; nor are they looked at for repetitions, so it may end at
  `typed.rs:137` "dep indices checked to be unique during toposort".
* An isotope initialiser with dependencies panics when a creation brings a new
  discriminant, which is offline; `src/storage/isotope.rs:48` says "dynamically
  instantiated during online".
* A required isotope component without initialiser, which only code that does not use
  `#[comp]` can declare, is counted and not compared: a discriminant given twice
  stands in for a missing one (`src/storage/isotope.rs:157`).
* Initialisers that read each other in a circle make
  `add_simple_storage_if_missing` call itself without end (`src/world/typed.rs:70`).

`ArgumentsNeverFail` is about locks and storages. Two other panics of `GetArg` do
happen: two creators of one archetype in one system, which `src/entity/ealloc.rs:253`
forbids at run time, and a creator or iterator of an archetype none of whose
components any system requests (`ealloc.rs:235`).

## Not modelled

* The values of globals and local states: which map serves a global, and whether its
  lock is free, is in `Builder` and `Systems`.
* The offline accessor of isotopes (`src/world/rw/isotope/offline.rs`): it hands out a
  value of a storage that the world owns alone and changes nothing that `Isotopes`
  keeps.
* `visit_mut` of referrers, which looks for the place of a dangling reference in order
  to word a panic; `Entities` has the verdict.
* Names, crate paths, generics and storage types in the generated code; macros that
  print one implementation without a choice (`archetype`, `global`, `discrim`,
  `tracer`, `entity_ref` but for its `visit_type`).
* Tracer, test utilities and type ids have no state of the program.
* Overflow in `approx_midpoint` in builds without overflow checks, where the sum wraps
  and the slice is split at a point in front of it. `Iteration` has the panic of builds
  with them. Either needs two ids of a slice that add up past the type: more than 32767
  entities with `NonZeroU16`, if the slices get short (43690 if there are two), and
  more than 2^31 with `NonZeroU32`. The run `iterate` stays far below.
* Overflow of generations, which wrap when an id has been used 2^32 times.

## Plan

1. `Entities` on `Ealloc` instead of `IdPool`, so that snapshots and life cycle meet,
   with the initialisation of `Typed`; and a cycle in which systems of `Systems`
   create and delete.
2. Proofs for `VecStorage` and `TreeStorage` (`ReadsInitialised`, `PartitionsApart`,
   then `ImplementsStorage`), where the invariants do not need induction over data;
   `NoDangling` and `KeepsPool` of `Entities`.
3. `Systems` with the locks of `Isotopes`, which are taken one by one as storages are
   made.
