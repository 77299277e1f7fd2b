------------------------------ MODULE Isotopes ------------------------------
(***************************************************************************)
(* The storages of one isotope component (src/storage/isotope.rs) and the  *)
(* four kinds of access that systems have to them (src/world/rw/isotope):  *)
(* to all discriminants or to some, reading or writing.  Storages are made *)
(* when a discriminant is first met, by a system in the middle of a cycle  *)
(* or by a new entity, and are then filled for the entities that the       *)
(* allocator's snapshot shows.  The allocator is Ealloc; entities are      *)
(* created through any of its shards.                                      *)
(*                                                                         *)
(* The mutex of the map is held within an action, but for an accessor      *)
(* writing all discriminants, which keeps it while its system runs.        *)
(***************************************************************************)
EXTENDS Ealloc, TLC

CONSTANTS
  System,
  Discrim,
  Strategies       \* of INIT_STRATEGY and PRESENCE, see strategy

ASSUME IsotopesAssumption == Strategies \subseteq {"auto", "optional", "required"}

Symmetry == Permutations(System) \cup Permutations(Discrim)

(* Some discriminants are a discrim::Set; an array or a Vec of them may    *)
(* have one repeated.                                                      *)
Request == {r \in [mutable : BOOLEAN, all : BOOLEAN, discrims : SUBSET Discrim, repeated : BOOLEAN] :
              IF r.all THEN r.discrims = Discrim /\ ~r.repeated ELSE r.discrims # {}}

VARIABLES
  request,     \* what each system accesses
  strategy,    \* an "auto" initialiser, or none with "optional" or "required" presence
  storages,    \* MapInner: of every discriminant met, the ids that have a value
  running,     \* systems between the making and the drop of their accessor
  ran,         \* systems done in this cycle
  held,        \* the discriminants whose storage each accessor has locked
  newborn,     \* ids whose initialisation is queued in the offline buffer
  ready,       \* initialised entities
  recycled,    \* history: ids of entities that were deleted
  fault        \* "no", or the panic of an accessor

access == <<running, ran, held>>
ivars == <<evars, request, strategy, storages, access, newborn, ready, recycled, fault>>

IsotopesInit ==
  /\ EallocInit
  /\ request \in [System -> Request]
  /\ strategy \in Strategies
  /\ storages = << >>
  /\ running = {} /\ ran = {}
  /\ held = [s \in System |-> {}]
  /\ newborn = << >> /\ ready = {} /\ recycled = {}
  /\ fault = "no"

-----------------------------------------------------------------------------

(* MapInner::get_or_create of some discriminants, for the entities ids.    *)
GetOrCreate(map, ds, ids) ==
  [d \in DOMAIN map \cup ds |->
     IF d \in DOMAIN map THEN map[d] ELSE IF strategy = "auto" THEN ids ELSE {}]

(* Ealloc::snapshot between cycles, after an allocation.                   *)
OfflineIds(gauge) == {i \in Id : gauge = 0 \/ i < gauge} \ recyclable

(* Mutant: only the discriminants given at creation are looked at.         *)
MutFillInitIsotope(id, given, gauge) ==
  LET map == GetOrCreate(storages, given, OfflineIds(gauge))
  IN  /\ storages' = [d \in DOMAIN map |-> IF d \in given THEN map[d] \cup {id} ELSE map[d]]
      /\ UNCHANGED fault

(* fill_init_isotope: sets the given values, then initialises the others   *)
(* or insists that there are none.                                         *)
FillInitIsotope(id, given, gauge) ==
  LET map == GetOrCreate(storages, given, OfflineIds(gauge))
  IN  /\ storages' = [d \in DOMAIN map |->
                        IF d \in given \/ strategy = "auto" THEN map[d] \cup {id} ELSE map[d]]
      /\ fault' = IF strategy = "required" /\ given # DOMAIN map THEN "required" ELSE fault

(* World::create.                                                          *)
Create(given) ==
  /\ fault = "no"
  /\ \E shard \in Shard : AllocateOffline(shard, 0)
  /\ IF panicked'
     THEN UNCHANGED <<storages, fault, ready>>
     ELSE \E id \in allocated' \ allocated :
            /\ FillInitIsotope(id, given, global_gauge')
            /\ ready' = ready \cup {id}
  /\ UNCHANGED <<request, strategy, access, newborn, recycled>>

(* A deletion, in the world or by the offline buffer, of an entity without *)
(* finalizer: the simple storages are cleared, these are not.              *)
Delete(id) ==
  /\ fault = "no" /\ id \in ready
  /\ QueueDeallocate(id)
  /\ ready' = ready \ {id} /\ recycled' = recycled \cup {id}
  /\ UNCHANGED <<request, strategy, storages, access, newborn, fault>>

(* EntityCreator::create in a system.                                      *)
QueueCreate ==
  /\ fault = "no"
  /\ \E shard \in Shard : AllocateOnline(shard, 0)
  /\ newborn' = IF panicked' THEN newborn
                ELSE Append(newborn, CHOOSE id \in allocated' : id \notin allocated)
  /\ UNCHANGED <<request, strategy, storages, access, ready, recycled, fault>>

(* CreateEntity::run, in the drain after the join.                         *)
DrainCreate(given) ==
  /\ phase = "joined" /\ fault = "no" /\ newborn # << >>
  /\ FillInitIsotope(Head(newborn), given, global_gauge)
  /\ ready' = ready \cup {Head(newborn)}
  /\ newborn' = Tail(newborn)
  /\ UNCHANGED <<evars, request, strategy, access, recycled>>

-----------------------------------------------------------------------------

(* Mutant: an access to all discriminants conflicts with none of them.     *)
MutConflicts(a, b) == (a.mutable \/ b.mutable) /\ (a.all <=> b.all) /\ a.discrims \cap b.discrims # {}

(* The scheduler keeps these requests apart.                               *)
Conflicts(a, b) == (a.mutable \/ b.mutable) /\ (a.all \/ b.all \/ a.discrims \cap b.discrims # {})

(* The guard that an accessor writing all discriminants keeps.             *)
MapLocked == \E s \in running : request[s].mutable /\ request[s].all

(* own_storage: try_read_arc or try_write_arc of one of the storages fails *)
(* for the guard of another accessor.                                      *)
LockFails(s, ds) ==
  \E u \in running \ {s} : held[u] \cap ds # {} /\ (request[s].mutable \/ request[u].mutable)

Own(s, ds) ==
  IF LockFails(s, ds)
  THEN fault' = "lock" /\ UNCHANGED held
  ELSE held' = [held EXCEPT ![s] = @ \cup ds] /\ UNCHANGED fault

Starts(s) ==
  /\ phase = "online" /\ ~panicked /\ fault = "no"
  /\ s \notin running \cup ran
  /\ \A u \in running : ~Conflicts(request[s], request[u])
  /\ running' = running \cup {s}
  /\ UNCHANGED <<evars, request, strategy, ran, newborn, ready, recycled>>

(* read_full_isotope_storage locks the storages that are there.            *)
ReadFull(s) ==
  /\ ~request[s].mutable /\ request[s].all
  /\ Starts(s)
  /\ ~MapLocked
  /\ Own(s, DOMAIN storages)
  /\ UNCHANGED storages

(* write_full_isotope_storage, too, and does not wait for the mutex.       *)
WriteFull(s) ==
  /\ request[s].mutable /\ request[s].all
  /\ Starts(s)
  /\ IF MapLocked THEN fault' = "lock" /\ UNCHANGED held ELSE Own(s, DOMAIN storages)
  /\ UNCHANGED storages

(* read_partial_isotope_storage makes the storages requested; one that is  *)
(* requested twice is locked twice.                                        *)
ReadPartial(s) ==
  /\ ~request[s].mutable /\ ~request[s].all
  /\ Starts(s)
  /\ ~MapLocked
  /\ storages' = GetOrCreate(storages, request[s].discrims, SnapshotIds)
  /\ Own(s, request[s].discrims)

(* The second try_write_arc of a storage fails for the accessor's own      *)
(* guard; storages were made for some of the discriminants by then.        *)
OwnTwice(s) ==
  /\ \E ds \in SUBSET request[s].discrims \ {{}} :
       storages' = GetOrCreate(storages, ds, SnapshotIds)
  /\ fault' = "repeated" /\ UNCHANGED held

(* write_partial_isotope_storage.                                          *)
WritePartial(s) ==
  /\ request[s].mutable /\ ~request[s].all
  /\ Starts(s)
  /\ ~MapLocked
  /\ IF request[s].repeated
     THEN OwnTwice(s)
     ELSE /\ storages' = GetOrCreate(storages, request[s].discrims, SnapshotIds)
          /\ Own(s, request[s].discrims)

(* A system meets a discriminant that its accessor of all isotopes does    *)
(* not have: the inserter of get_by_or_insert.                             *)
Meets(s, d) ==
  /\ s \in running /\ fault = "no"
  /\ request[s].all /\ d \notin held[s]
  /\ storages' = GetOrCreate(storages, {d}, SnapshotIds)
  /\ Own(s, {d})
  /\ UNCHANGED <<evars, request, strategy, running, ran, newborn, ready, recycled>>

(* A reader locks the map for it ...                                       *)
GetStorage(s, d) == ~request[s].mutable /\ ~MapLocked /\ Meets(s, d)

(* ... and a writer has it locked.                                         *)
GetStorageMut(s, d) == request[s].mutable /\ Meets(s, d)

(* The system returns.                                                     *)
DropAccessor(s) ==
  /\ s \in running /\ fault = "no"
  /\ running' = running \ {s} /\ ran' = ran \cup {s}
  /\ held' = [held EXCEPT ![s] = {}]
  /\ UNCHANGED <<evars, request, strategy, storages, newborn, ready, recycled, fault>>

(* The steps of a cycle: every system runs before the join, and the buffer *)
(* is drained before the flush.                                            *)
Cycle ==
  /\ fault = "no"
  /\ \/ FlushIfMarked \/ Shards
     \/ Join /\ ran = System
     \/ Flush /\ newborn = << >>
  /\ ran' = IF phase = "online" THEN {} ELSE ran
  /\ UNCHANGED <<request, strategy, storages, running, held, newborn, ready, recycled,
                 fault>>

IsotopesNext ==
  \/ \E given \in SUBSET Discrim : Create(given) \/ DrainCreate(given)
  \/ \E id \in Id : Delete(id)
  \/ QueueCreate
  \/ \E s \in System :
       \/ ReadFull(s) \/ WriteFull(s) \/ ReadPartial(s) \/ WritePartial(s) \/ DropAccessor(s)
       \/ \E d \in Discrim : GetStorage(s, d) \/ GetStorageMut(s, d)
  \/ Cycle

IsotopesSpec == IsotopesInit /\ [][IsotopesNext]_ivars

-----------------------------------------------------------------------------

(* Type: every locked storage is one of the map's.                         *)
IsotopesTypeOK ==
  /\ DOMAIN storages \subseteq Discrim
  /\ \A d \in DOMAIN storages : storages[d] \subseteq Id
  /\ running \subseteq System /\ ran \subseteq System
  /\ \A s \in System : held[s] \subseteq DOMAIN storages /\ (s \notin running => held[s] = {})
  /\ ready \cup recycled \cup Range(newborn) \subseteq Id
  /\ fault \in {"no", "lock", "repeated", "required"}

(* "Maybe scheduler bug?", "Scheduler error?": while the scheduler keeps   *)
(* conflicting requests apart, no lock that an accessor tries is taken by  *)
(* another, whoever meets which new discriminant first in the middle of    *)
(* the cycle.                                                              *)
LocksNeverFail == fault # "lock"

(* With an initialiser, every storage has a value for every initialised    *)
(* entity whose id was not used before, in whatever order storages and     *)
(* entities were made, online or offline, before or after each other.      *)
FirstHoldersFilled ==
  strategy = "auto" /\ fault = "no" =>
    \A d \in DOMAIN storages : ready \ recycled \subseteq storages[d]

-----------------------------------------------------------------------------
(* What the documentation or an assertion says and the code does not       *)
(* always keep; README.md tells in which executions.                       *)

(* "The component ... is currently used by another system": an accessor    *)
(* does not fail for a lock of its own.                                    *)
LockedByAnother == fault # "repeated"

(* "This method is infallible for correctly implemented `comp::Must`,      *)
(* which returns the auto-initialized value for missing components."       *)
MustIsInfallible ==
  strategy = "auto" /\ fault = "no" => \A d \in DOMAIN storages : ready \subseteq storages[d]

=============================================================================
