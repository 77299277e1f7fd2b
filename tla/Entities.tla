------------------------------ MODULE Entities ------------------------------
(***************************************************************************)
(* The life of the entities of one archetype: creation and deletion in the *)
(* world, the operations that systems queue in the shards of the offline   *)
(* buffer, the drain after the join, finalizers, counted references and    *)
(* generations (src/world.rs, src/world/offline.rs, src/entity/).  Ids     *)
(* come from an allocator that keeps IdPool.                               *)
(*                                                                         *)
(* The code knows an entity by its id.  Here an incarnation <<id, n>> is   *)
(* the n-th entity with that id, and values and references say whose they  *)
(* are; no guard of the code looks at n.                                   *)
(***************************************************************************)
EXTENDS IdPool, SequencesExt

CONSTANTS
  NumShards,   \* threads of a cycle
  MaxBirths,     \* bound: incarnations of an id
  MaxOps,      \* bound: operations a thread queues in a cycle
  EntityRc,    \* whether references are counted (debug-entity-rc)
  Usage        \* what else the program does, see below

(* "again": asks to delete an entity it has asked to delete before;        *)
(* "early": asks for it in another thread than the one creating the entity *)
(* in the same cycle; "weak": makes weak references, "newborn": also to an *)
(* entity that is still to be initialised; "isotope": gives an isotope     *)
(* component to some entities.                                             *)
ASSUME EntitiesAssumption ==
  /\ NumShards \in Nat \ {0} /\ MaxBirths \in Nat \ {0} /\ MaxOps \in Nat \ {0}
  /\ EntityRc \in BOOLEAN
  /\ Usage \subseteq {"again", "early", "weak", "newborn", "isotope"}

Shard == 1..NumShards
Incarnation == Id \X (1..MaxBirths)
None == <<0, 0>>

VARIABLES
  births,         \* incarnations of each id so far
  generation,   \* generation::Store
  rctrack,      \* rctrack::Store, the incarnation whose counter it holds
  flag,         \* ids with a deletion::Flag
  finalizer,    \* a finalizer component: the incarnation it was set for
  data,         \* a required component
  isotope,      \* an optional isotope component
  strong,       \* incarnations the program has strong references to
  weak,         \* weak references
  asked,        \* incarnations the program asked to delete
  items,        \* the shards of the offline buffer
  rerun_queue,
  draining,     \* what the drain after the join has still to run
  phase,        \* "offline", "online" or "drain"
  panicked      \* "no", or the reason

comps == <<flag, finalizer, data, isotope>>
refs == <<strong, weak, asked>>
buffer == <<items, rerun_queue, draining>>
vars == <<pool, births, generation, rctrack, comps, refs, buffer, phase, panicked>>

Init ==
  /\ PoolInit
  /\ births = [id \in Id |-> 0] /\ generation = [id \in Id |-> 0]
  /\ rctrack = [id \in Id |-> None]
  /\ flag = {}
  /\ finalizer = [id \in Id |-> None]
  /\ data = [id \in Id |-> None] /\ isotope = [id \in Id |-> None]
  /\ strong = {} /\ weak = {} /\ asked = {}
  /\ items = [s \in Shard |-> << >>]
  /\ rerun_queue = << >> /\ draining = << >>
  /\ phase = "offline"
  /\ panicked = "no"

Latest(id) == <<id, births[id]>>

-----------------------------------------------------------------------------

(* Allocates an id and the first strong reference.                         *)
NewAllocated(id) ==
  /\ births[id] < MaxBirths
  /\ PoolAllocate(id)
  /\ births' = [births EXCEPT ![id] = @ + 1]
  /\ strong' = strong \cup {<<id, births[id] + 1>>}

(* What the creation arguments hold besides the required component.        *)
CompMap == SUBSET ({"finalizer"} \cup (Usage \cap {"isotope"}))

(* Mutant: a recycled id keeps its generation.                             *)
MutNextGeneration(id) == generation' = [generation EXCEPT ![id] = IF @ = 0 THEN 1 ELSE @]

(* generation::Store::next.                                                *)
NextGeneration(id) == generation' = [generation EXCEPT ![id] = @ + 1]

(* rctrack::Store::set: "Previous entity was not freed correctly".         *)
TrackRc(e) ==
  /\ rctrack' = IF EntityRc THEN [rctrack EXCEPT ![e[1]] = e] ELSE rctrack
  /\ panicked' = IF EntityRc /\ rctrack[e[1]] # None THEN "rctrack" ELSE panicked

(* Components that are given or have an initialiser are set, the others    *)
(* stay as they are.                                                       *)
FillInitSimple(e, comp_map) ==
  /\ data' = [data EXCEPT ![e[1]] = e]
  /\ finalizer' = IF "finalizer" \in comp_map THEN [finalizer EXCEPT ![e[1]] = e] ELSE finalizer
  /\ UNCHANGED flag

FillInitIsotope(e, comp_map) ==
  isotope' = IF "isotope" \in comp_map THEN [isotope EXCEPT ![e[1]] = e] ELSE isotope

InitEntity(e, comp_map) ==
  /\ NextGeneration(e[1])
  /\ TrackRc(e)
  /\ FillInitSimple(e, comp_map)
  /\ FillInitIsotope(e, comp_map)

(* An operation still to be drained that holds a strong reference.         *)
Pending(e) ==
  \E op \in Range(draining) \cup UNION {Range(items[s]) : s \in Shard} :
    op.kind = "create" /\ op.entity = e

(* Mutant: the counter is not looked at.                                   *)
MutRemoveRcUnchecked(id, held) ==
  /\ rctrack' = [rctrack EXCEPT ![id] = None]
  /\ panicked' = IF EntityRc /\ rctrack[id] = None THEN "rctrack" ELSE panicked

(* The counter is removed ("double free of entity last strong reference")  *)
(* and must have been the last reference, given those of the program.      *)
RemoveRc(id, held) ==
  /\ rctrack' = [rctrack EXCEPT ![id] = None]
  /\ panicked' = IF ~EntityRc THEN panicked
                 ELSE IF rctrack[id] = None THEN "rctrack"
                 ELSE IF rctrack[id] \in held \/ Pending(rctrack[id]) THEN "dangling"
                 ELSE panicked

(* clear_entry in every simple storage.                                    *)
ClearEntry(id) ==
  /\ flag' = flag \ {id}
  /\ finalizer' = [finalizer EXCEPT ![id] = None]
  /\ data' = [data EXCEPT ![id] = None]

(* try_real_delete_entity without a finalizer.                             *)
RealDelete(id, held) ==
  /\ ClearEntry(id)
  /\ RemoveRc(id, held)
  /\ IF panicked' = "no"
     THEN /\ allocated' = allocated \ {id} /\ returned' = Append(returned, id)
          /\ UNCHANGED doubled
     ELSE UNCHANGED pool

(* has_finalizer.                                                          *)
Terminating(id) == finalizer[id] # None

(* Mutant: the id of an entity with a finalizer is given back as well.     *)
MutFlagDelete(id, held) ==
  IF Terminating(id)
  THEN /\ flag' = flag \cup {id}
       /\ allocated' = allocated \ {id} /\ returned' = Append(returned, id)
       /\ UNCHANGED <<finalizer, data, rctrack, panicked, doubled>>
  ELSE RealDelete(id, held)

(* flag_delete_entity.                                                     *)
FlagDelete(id, held) ==
  IF Terminating(id)
  THEN /\ flag' = flag \cup {id}
       /\ UNCHANGED <<finalizer, data, rctrack, panicked, pool>>
  ELSE RealDelete(id, held)

-----------------------------------------------------------------------------

(* World::create.                                                          *)
Create(id, comp_map) ==
  /\ phase = "offline" /\ panicked = "no"
  /\ NewAllocated(id)
  /\ InitEntity(<<id, births[id] + 1>>, comp_map)
  /\ UNCHANGED <<weak, asked, buffer, phase>>

(* References an entity can be named by: a strong or a weak one, or, in a  *)
(* system, one got from an iteration.                                      *)
Reachable(e) ==
  \/ e \in strong
  \/ \E w \in weak : w.entity = e
  \/ phase = "online" /\ data[e[1]] = e

(* Asking consumes a reference, which may have been the last strong one.   *)
Ask(e) ==
  /\ Reachable(e)
  /\ e \in asked => "again" \in Usage
  /\ asked' = asked \cup {e}
  /\ strong' \in {strong, strong \ {e}}
  /\ UNCHANGED weak

(* World::delete.                                                          *)
Delete(e) ==
  /\ phase = "offline" /\ panicked = "no"
  /\ Ask(e)
  /\ FlagDelete(e[1], strong')
  /\ rerun_queue' = IF Terminating(e[1])
                    THEN Append(rerun_queue, [kind |-> "delete", entity |-> e])
                    ELSE rerun_queue
  /\ UNCHANGED <<births, generation, isotope, items, draining, phase>>

(* World::execute: flush_if_marked (only World::delete queues ids between  *)
(* cycles, and it marks), then the systems run.                            *)
Execute ==
  /\ phase = "offline" /\ panicked = "no"
  /\ phase' = "online"
  /\ PoolFlush
  /\ UNCHANGED <<births, generation, rctrack, comps, refs, buffer, panicked>>

(* EntityCreator::create.                                                  *)
QueueCreate(s, id, comp_map) ==
  /\ phase = "online" /\ panicked = "no"
  /\ Len(items[s]) < MaxOps
  /\ NewAllocated(id)
  /\ items' = [items EXCEPT ![s] = Append(@, [kind |-> "create", comp_map |-> comp_map,
                                              entity |-> <<id, births[id] + 1>>])]
  /\ UNCHANGED <<generation, rctrack, comps, weak, asked, rerun_queue, draining, phase, panicked>>

(* EntityDeleter::queue.                                                   *)
QueueDelete(s, e) ==
  /\ phase = "online" /\ panicked = "no"
  /\ Len(items[s]) < MaxOps
  /\ Pending(e) => \/ "early" \in Usage
                   \/ \E i \in DOMAIN items[s] : items[s][i].entity = e
  /\ Ask(e)
  /\ items' = [items EXCEPT ![s] = Append(@, [kind |-> "delete", entity |-> e])]
  /\ UNCHANGED <<pool, births, generation, rctrack, comps, rerun_queue, draining, phase, panicked>>

(* A system sets or unsets the finalizer of an entity, or drops references.*)
SetFinalizer(e, value) ==
  /\ phase = "online" /\ panicked = "no"
  /\ e \in strong \/ data[e[1]] = e
  /\ value \in {None, e}
  /\ finalizer' = [finalizer EXCEPT ![e[1]] = value]
  /\ UNCHANGED <<pool, births, generation, rctrack, flag, data, isotope, refs, buffer, phase,
                 panicked>>

DropStrong(e) ==
  /\ phase # "drain" /\ panicked = "no"
  /\ e \in strong
  /\ strong' = strong \ {e}
  /\ UNCHANGED <<pool, births, generation, rctrack, comps, weak, asked, buffer, phase, panicked>>

(* MaybeStoreMap::to_strong, of an entity that is there.                   *)
ToStrong(e) ==
  /\ phase = "offline" /\ panicked = "no"
  /\ data[e[1]] = e
  /\ strong' = strong \cup {IF EntityRc THEN rctrack[e[1]] ELSE e}
  /\ UNCHANGED <<pool, births, generation, rctrack, comps, weak, asked, buffer, phase, panicked>>

(* Entity::weak; there is no generation store before the first entity of   *)
(* the archetype is initialised.                                           *)
MakeWeak(e) ==
  /\ "weak" \in Usage
  /\ phase # "drain" /\ panicked = "no"
  /\ e \in strong
  /\ Pending(e) => "newborn" \in Usage
  /\ IF \A id \in Id : generation[id] = 0
     THEN panicked' = "weak" /\ UNCHANGED weak
     ELSE /\ weak' = weak \cup {[entity |-> e, generation |-> generation[e[1]]]}
          /\ UNCHANGED panicked
  /\ UNCHANGED <<pool, births, generation, rctrack, comps, strong, asked, buffer, phase>>

(* The threads have returned; drain_cycle chains the queue of operations   *)
(* to run again and the shards.                                            *)
Join ==
  /\ phase = "online" /\ panicked = "no"
  /\ phase' = "drain"
  /\ draining' = rerun_queue \o FlattenSeq(items)
  /\ rerun_queue' = << >>
  /\ items' = [s \in Shard |-> << >>]
  /\ UNCHANGED <<pool, births, generation, rctrack, comps, refs, panicked>>

(* CreateEntity::run.                                                      *)
DrainCreate ==
  /\ phase = "drain" /\ panicked = "no"
  /\ draining # << >> /\ Head(draining).kind = "create"
  /\ InitEntity(Head(draining).entity, Head(draining).comp_map)
  /\ draining' = Tail(draining)
  /\ UNCHANGED <<pool, births, refs, items, rerun_queue, phase>>

(* Mutant: an operation is not queued again.                               *)
MutDrainDelete ==
  /\ phase = "drain" /\ panicked = "no"
  /\ draining # << >> /\ Head(draining).kind = "delete"
  /\ FlagDelete(Head(draining).entity[1], strong)
  /\ draining' = Tail(draining)
  /\ UNCHANGED <<births, generation, isotope, refs, items, rerun_queue, phase>>

(* DeleteEntity::run.                                                      *)
DrainDelete ==
  /\ phase = "drain" /\ panicked = "no"
  /\ draining # << >> /\ Head(draining).kind = "delete"
  /\ FlagDelete(Head(draining).entity[1], strong)
  /\ rerun_queue' = IF Terminating(Head(draining).entity[1])
                    THEN Append(rerun_queue, Head(draining))
                    ELSE rerun_queue
  /\ draining' = Tail(draining)
  /\ UNCHANGED <<births, generation, isotope, refs, items, phase>>

(* The flush at the end of the cycle.                                      *)
EndCycle ==
  /\ phase = "drain" /\ panicked = "no"
  /\ draining = << >>
  /\ phase' = "offline"
  /\ PoolFlush
  /\ UNCHANGED <<births, generation, rctrack, comps, refs, buffer, panicked>>

Next ==
  \/ \E id \in Id, comp_map \in CompMap :
       \/ Create(id, comp_map)
       \/ \E s \in Shard : QueueCreate(s, id, comp_map)
  \/ \E e \in Incarnation :
       \/ Delete(e) \/ DropStrong(e) \/ ToStrong(e) \/ MakeWeak(e)
       \/ \E s \in Shard : QueueDelete(s, e)
       \/ \E value \in {None, e} : SetFinalizer(e, value)
  \/ Execute \/ Join \/ DrainCreate \/ DrainDelete \/ EndCycle

(* The program goes on executing cycles and every cycle ends (Executor).   *)
Fairness ==
  /\ WF_vars(Execute) /\ WF_vars(Join) /\ WF_vars(EndCycle)
  /\ WF_vars(DrainCreate) /\ WF_vars(DrainDelete)

Spec == Init /\ [][Next]_vars /\ Fairness

-----------------------------------------------------------------------------

Op == [kind : {"create"}, comp_map : CompMap, entity : Incarnation]
        \cup [kind : {"delete"}, entity : Incarnation]

EntitiesTypeOK ==
  /\ allocated \subseteq Id /\ Range(returned) \subseteq Id /\ flag \subseteq Id
  /\ births \in [Id -> 0..MaxBirths] /\ generation \in [Id -> 0..MaxBirths]
  /\ \A values \in {rctrack, finalizer, data, isotope} :
       values \in [Id -> Incarnation \cup {None}]
  /\ strong \subseteq Incarnation /\ asked \subseteq Incarnation
  /\ weak \subseteq [entity : Incarnation, generation : 0..MaxBirths]
  /\ \A s \in Shard : Range(items[s]) \subseteq Op /\ Len(items[s]) <= MaxOps
  /\ Range(rerun_queue) \subseteq [kind : {"delete"}, entity : Incarnation]
  /\ Range(draining) \subseteq Op
  /\ phase \in {"offline", "online", "drain"}
  /\ panicked \in {"no", "rctrack", "dangling", "weak"}

(* The world gives back only ids it has, and each once: the precondition   *)
(* of queue_deallocate under which the allocator keeps ids apart.          *)
KeepsPool == PoolSpec

(* "any entity reference points to a live one": a strong reference is to   *)
(* the present holder of the id, whatever is created, deleted and recycled *)
(* in between.  The generation of a weak one is that of its entity, or the *)
(* one before if it was made before the drain.                             *)
NoDangling ==
  panicked = "no" =>
    /\ EntityRc => \A e \in strong : e = Latest(e[1]) /\ e[1] \in allocated
    /\ \A w \in weak : w.entity[2] - w.generation \in {0, 1}

(* "Entities are not removed until all finalizer components have been      *)
(* removed": a finalizer is that of the entity that has the id, and its    *)
(* other components are there once it is initialised.                      *)
FinalizerHolds ==
  panicked = "no" =>
    \A id \in Id : finalizer[id] # None =>
      /\ finalizer[id] = Latest(id) /\ id \in allocated
      /\ ~Pending(Latest(id)) => data[id] = Latest(id)

(* Between cycles the storages, the counters and the allocator agree on    *)
(* which entities there are, and the flagged ones are those whose deletion *)
(* will be tried again, each once: "The flag exists as a component of an   *)
(* entity if and only if the entity was marked for deletion".              *)
WorldAgrees ==
  phase = "offline" /\ panicked = "no" =>
    /\ \A id \in Id :
         /\ data[id] = IF id \in allocated THEN Latest(id) ELSE None
         /\ EntityRc => rctrack[id] = data[id]
         /\ generation[id] = births[id]
    /\ flag = {op.entity[1] : op \in Range(rerun_queue)}
    /\ \A op \in Range(rerun_queue) : op.entity = Latest(op.entity[1])
    /\ IsInjective(rerun_queue)

(* "the entity would instead be scheduled to asynchronously delete when    *)
(* all finalizer components have been unset": a flagged entity does not    *)
(* stay without finalizer for ever.                                        *)
DeletionCompletes ==
  \A id \in Id : []<>(~(id \in flag /\ finalizer[id] = None) \/ panicked # "no")

-----------------------------------------------------------------------------
(* What the documentation or an assertion says and the code does not       *)
(* always keep; README.md tells in which executions.                       *)

(* The assertions of rctrack and the lookup in Entity::weak never fail.    *)
AssertionsHold == panicked \notin {"rctrack", "weak"}

(* "in order to disambiguate new entities that uses the recycled memory":  *)
(* weak references to different entities are different.                    *)
GenerationsTellApart ==
  \A v, w \in weak :
    v.entity[1] = w.entity[1] /\ v.generation = w.generation => v.entity = w.entity

(* A deletion takes away the entity that was asked for.                    *)
DeletesTheOneAsked ==
  panicked = "no" => \A id \in Id : births[id] > 0 /\ id \notin allocated => Latest(id) \in asked

(* "components are dropped after deletion and cannot be read anymore": an  *)
(* isotope component read from an initialised entity was set for it.       *)
IsotopesDropped ==
  panicked = "no" =>
    \A id \in Id : data[id] # None /\ isotope[id] # None => isotope[id] = data[id]

=============================================================================
