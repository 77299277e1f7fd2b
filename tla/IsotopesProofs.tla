--------------------------- MODULE IsotopesProofs ---------------------------
(***************************************************************************)
(* Accessors of isotope components never find a lock taken, and storages   *)
(* made late have the components of the entities that came before them,    *)
(* for any number of systems, discriminants, shards and ids.               *)
(***************************************************************************)
EXTENDS Isotopes, EallocProofs

(* Systems that run at once do not conflict, and each has locked nothing   *)
(* but what it requested.                                                  *)
LockInv ==
  /\ request \in [System -> Request]
  /\ running \subseteq System
  /\ held \in [System -> SUBSET Discrim]
  /\ \A s \in System : held[s] \subseteq request[s].discrims
  /\ \A s, u \in running : s # u => ~Conflicts(request[s], request[u])
  /\ DOMAIN storages \subseteq Discrim
  /\ LocksNeverFail

(* With an initialiser, every storage has the entities in ids.             *)
FilledFor(ids) == strategy = "auto" => \A d \in DOMAIN storages : ids \subseteq storages[d]

(* Entities have ids that the gauge has passed, what snapshots leave out   *)
(* was deleted before, and every storage has the initialised entities that *)
(* are the first to have their ids.                                        *)
FillInv ==
  /\ newborn \in Seq(Id)
  /\ ~panicked => ready \cup Range(newborn) \subseteq Issued
  /\ phase = "joined" => ~panicked
  /\ recyclable \cup Range(dealloc_queue) \subseteq recycled
  /\ phase = "online" => ready \ recycled \subseteq SnapshotIds
  /\ FilledFor(ready \ recycled)

(* Systems run between the start and the join of a cycle.                  *)
RunInv == running \cap ran = {} /\ (running # {} => phase = "online")

IsotopesInv == AInv /\ LockInv /\ RunInv /\ FillInv

-----------------------------------------------------------------------------
(* Locks.                                                                  *)

(* A request names discriminants, all of them if it is for all.            *)
LEMMA RequestTypes ==
  ASSUME LockInv, NEW s \in System
  PROVE  /\ request[s].discrims \subseteq Discrim
         /\ request[s].all => request[s].discrims = Discrim
<1>1. request[s] \in Request
  BY DEF LockInv
<1> QED
  BY <1>1 DEF Request

(* A system may own what it requested while others run that do not         *)
(* conflict with it.                                                       *)
LEMMA NoLockFails ==
  ASSUME LockInv, NEW s \in System, NEW ds, ds \subseteq request[s].discrims,
         \A u \in running \ {s} : ~Conflicts(request[s], request[u])
  PROVE  ~LockFails(s, ds)
<1> SUFFICES ASSUME NEW u \in running \ {s}, held[u] \cap ds # {},
                    request[s].mutable \/ request[u].mutable
             PROVE  FALSE
  BY Zenon DEF LockFails
<1>1. u \in System /\ held[u] \subseteq request[u].discrims
  BY DEF LockInv
<1>2. request[s].discrims \cap request[u].discrims # {}
  BY <1>1
<1> QED
  BY Zenon, <1>2 DEF Conflicts

(* A system that conflicts with none that run may join them.               *)
LEMMA StartsApart ==
  ASSUME LockInv, NEW s \in System, \A u \in running \ {s} : ~Conflicts(request[s], request[u]),
         running' = running \cup {s}, request' = request
  PROVE  \A t, u \in running' : t # u => ~Conflicts(request'[t], request'[u])
<1> SUFFICES ASSUME NEW t \in running', NEW u \in running', t # u
             PROVE  ~Conflicts(request'[t], request'[u])
  OBVIOUS
<1>1. CASE t = s
  BY <1>1
<1>2. CASE u = s
  <2>1. ~Conflicts(request[s], request[t])
    BY <1>2
  <2> QED
    BY <1>2, <2>1 DEF Conflicts
<1>3. CASE t # s /\ u # s
  BY <1>3 DEF LockInv
<1> QED
  BY <1>1, <1>2, <1>3

(* Owning storages keeps the locks apart.                                  *)
LEMMA OwnInv ==
  ASSUME LockInv, NEW s \in System, NEW ds, ds \subseteq request[s].discrims,
         \A u \in running \ {s} : ~Conflicts(request[s], request[u]),
         running' = running \cup {s}, request' = request, DOMAIN storages' \subseteq Discrim,
         Own(s, ds)
  PROVE  LockInv'
<1>1. held' = [held EXCEPT ![s] = @ \cup ds] /\ fault' = fault
  BY Zenon, NoLockFails DEF Own
<1>2. /\ held \in [System -> SUBSET Discrim]
      /\ \A u \in System : held[u] \subseteq request[u].discrims
      /\ ds \subseteq Discrim
  BY RequestTypes DEF LockInv
<1>3. /\ held' \in [System -> SUBSET Discrim]
      /\ \A u \in System : held'[u] \subseteq request'[u].discrims
  BY <1>1, <1>2
<1>4. \A t, u \in running' : t # u => ~Conflicts(request'[t], request'[u])
  BY Zenon, StartsApart
<1>5. request' \in [System -> Request] /\ running' \subseteq System
  BY DEF LockInv
<1>6. LocksNeverFail'
  BY <1>1 DEF LockInv, LocksNeverFail
<1> QED
  BY Zenon, <1>3, <1>4, <1>5, <1>6 DEF LockInv

(* New storages are of discriminants.                                      *)
LEMMA GetOrCreateDomain ==
  ASSUME LockInv, NEW ds, ds \subseteq Discrim, NEW ids
  PROVE  DOMAIN GetOrCreate(storages, ds, ids) \subseteq Discrim
BY DEF LockInv, GetOrCreate

(* The accessors of all discriminants lock the storages that are there.    *)
LEMMA FullInv ==
  ASSUME LockInv, NEW s \in System, ReadFull(s) \/ WriteFull(s)
  PROVE  LockInv'
<1>1. /\ running' = running \cup {s} /\ request' = request /\ storages' = storages
      /\ request[s].all /\ \A u \in running : ~Conflicts(request[s], request[u])
  BY Zenon DEF ReadFull, WriteFull, Starts
<1>2. DOMAIN storages \subseteq request[s].discrims /\ DOMAIN storages' \subseteq Discrim
  BY <1>1, RequestTypes DEF LockInv
<1>3. Own(s, DOMAIN storages)
  <2>1. CASE WriteFull(s)
    <3>1. ~MapLocked
      BY Zenon, <1>1, <2>1 DEF MapLocked, Conflicts, WriteFull
    <3> QED
      BY Zenon, <2>1, <3>1 DEF WriteFull
  <2> QED
    BY Zenon, <2>1 DEF ReadFull
<1>4. \A u \in running \ {s} : ~Conflicts(request[s], request[u])
  BY <1>1
<1> QED
  BY Zenon, <1>1, <1>2, <1>3, <1>4, OwnInv

(* The others make the storages they requested.                            *)
LEMMA PartialInv ==
  ASSUME LockInv, NEW s \in System, ReadPartial(s) \/ WritePartial(s)
  PROVE  LockInv'
<1>1. /\ running' = running \cup {s} /\ request' = request
      /\ \A u \in running : ~Conflicts(request[s], request[u])
      /\ \/ /\ storages' = GetOrCreate(storages, request[s].discrims, SnapshotIds)
            /\ Own(s, request[s].discrims)
         \/ OwnTwice(s)
  BY Zenon DEF ReadPartial, WritePartial, Starts
<1>2. DOMAIN storages' \subseteq Discrim
  <2>1. request[s].discrims \subseteq Discrim
    BY Zenon, RequestTypes
  <2>2. \E ds \in SUBSET Discrim : storages' = GetOrCreate(storages, ds, SnapshotIds)
    BY Zenon, <1>1, <2>1 DEF OwnTwice
  <2> QED
    BY Zenon, <2>2, GetOrCreateDomain
<1>3. \A u \in running \ {s} : ~Conflicts(request[s], request[u])
  BY <1>1
<1>4. request[s].discrims \subseteq request[s].discrims
  OBVIOUS
<1>5. CASE Own(s, request[s].discrims)
  BY Zenon, <1>1, <1>2, <1>3, <1>4, <1>5, OwnInv
<1>6. CASE OwnTwice(s)
  <2>1. held' = held /\ fault' # "lock"
    BY Zenon, <1>6 DEF OwnTwice
  <2>2. running' \subseteq System
    BY <1>1 DEF LockInv
  <2>3. ASSUME NEW t \in running', NEW u \in running', t # u
        PROVE  ~Conflicts(request'[t], request'[u])
    BY Zenon, <1>1, <1>3, <2>3, StartsApart
  <2> QED
    BY Zenon, <1>1, <1>2, <2>1, <2>2, <2>3 DEF LockInv, LocksNeverFail
<1> QED
  BY Zenon, <1>1, <1>5, <1>6

(* So does an accessor that meets a new discriminant.                      *)
LEMMA MeetsInv ==
  ASSUME LockInv, NEW s \in System, NEW d \in Discrim, Meets(s, d)
  PROVE  LockInv'
<1>1. /\ s \in running /\ running' = running /\ request' = request /\ request[s].all
      /\ storages' = GetOrCreate(storages, {d}, SnapshotIds) /\ Own(s, {d})
  BY Zenon DEF Meets
<1>2. {d} \subseteq request[s].discrims /\ {d} \subseteq Discrim
  BY <1>1, RequestTypes
<1>3. DOMAIN storages' \subseteq Discrim
  BY Zenon, <1>1, <1>2, GetOrCreateDomain
<1>4. /\ \A u \in running \ {s} : ~Conflicts(request[s], request[u])
      /\ running' = running \cup {s}
  BY <1>1 DEF LockInv
<1> QED
  BY Zenon, <1>1, <1>2, <1>3, <1>4, OwnInv

(* Nothing is locked outside of accessors.                                 *)
LEMMA NoAccessInv ==
  ASSUME LockInv, request' = request, running' \subseteq running,
         \A s \in System : held'[s] \subseteq held[s], held' \in [System -> SUBSET Discrim],
         DOMAIN storages' \subseteq Discrim, fault' # "lock"
  PROVE  LockInv'
<1>1. \A s \in System : held'[s] \subseteq request'[s].discrims
  BY DEF LockInv
<1>2. \A s, u \in running' : s # u => ~Conflicts(request'[s], request'[u])
  BY DEF LockInv
<1> QED
  BY <1>1, <1>2 DEF LockInv, LocksNeverFail

-----------------------------------------------------------------------------
(* Storages that are made late.                                            *)

(* An allocation that does not panic gives out a new id, which the gauge   *)
(* has passed.                                                             *)
LEMMA AllocateGrows ==
  ASSUME AInv, AInv', NEW shard \in Shard, AllocateOnline(shard, 0) \/ AllocateOffline(shard, 0),
         ~panicked'
  PROVE  /\ ~panicked /\ Issued \subseteq Issued'
         /\ allocated' \subseteq Issued' /\ allocated' \subseteq Id
         /\ \E id \in allocated' : id \notin allocated
<1>1. allocated' \subseteq Issued' /\ allocated' \subseteq Id
  BY DEF AInv, IdsInOnePlace, EallocTypeOK
<1>2. Reuse(shard, 0) \/ FetchAdd
  BY Zenon DEF AllocateOnline, AllocateOffline
<1>3. CASE Reuse(shard, 0)
  <2>1. PICK id \in recycler[shard] : allocated' = allocated \cup {id} /\ global_gauge' = global_gauge
                                      /\ panicked' = panicked
    BY Zenon, <1>3 DEF Reuse, HandOut
  <2>2. id \notin allocated
    BY <2>1 DEF AInv, IdsInOnePlace
  <2>3. Issued' = Issued
    BY Zenon, <2>1 DEF Issued
  <2> QED
    BY <1>1, <2>1, <2>2, <2>3
<1>4. CASE FetchAdd
  <2>1. /\ ~panicked /\ global_gauge # 0 /\ allocated' = allocated \cup {global_gauge}
        /\ global_gauge' = IF global_gauge = MaxId THEN 0 ELSE global_gauge + 1
    BY Zenon, <1>4 DEF FetchAdd, HandOut
  <2>2. global_gauge \notin allocated
    BY Zenon, <2>1, GaugeIsFresh
  <2>3. Issued \subseteq Issued'
    BY <2>1, EallocAssumption DEF AInv, EallocTypeOK, Issued, Id
  <2> QED
    BY <1>1, <2>1, <2>2, <2>3
<1> QED
  BY Zenon, <1>2, <1>3, <1>4

(* A storage that is made for the entities of a set has them.              *)
LEMMA GetOrCreateFills ==
  ASSUME NEW ids, NEW ds, NEW snap, ids \subseteq snap, FilledFor(ids), strategy = "auto",
         NEW d \in DOMAIN GetOrCreate(storages, ds, snap)
  PROVE  ids \subseteq GetOrCreate(storages, ds, snap)[d]
BY DEF GetOrCreate, FilledFor

(* Between cycles, a snapshot has every initialised entity that is the     *)
(* first to have its id.                                                   *)
LEMMA OfflineCovers ==
  ASSUME AInv, FillInv, NEW gauge, NEW old, old \subseteq Id,
         gauge # 0 => \A id \in old : id < gauge
  PROVE  old \ recycled \subseteq OfflineIds(gauge)
BY DEF FillInv, OfflineIds

(* fill_init_isotope gives the new entity a component in every storage and *)
(* keeps those of the others.                                              *)
LEMMA FillInitFills ==
  ASSUME AInv, FillInv, NEW id \in Id, NEW given, NEW gauge,
         gauge # 0 => \A e \in ready : e < gauge, ready \subseteq Id,
         FillInitIsotope(id, given, gauge), ready' = ready \cup {id}, UNCHANGED <<strategy, recycled>>
  PROVE  FilledFor(ready \ recycled)'
<1> DEFINE map == GetOrCreate(storages, given, OfflineIds(gauge))
<1> SUFFICES ASSUME strategy = "auto", NEW d \in DOMAIN map
             PROVE  ready' \ recycled' \subseteq storages'[d]
  BY Zenon DEF FilledFor, FillInitIsotope
<1>1. storages'[d] = map[d] \cup {id}
  BY Zenon DEF FillInitIsotope
<1>2. ready \ recycled \subseteq OfflineIds(gauge)
  BY Zenon, OfflineCovers
<1>3. FilledFor(ready \ recycled)
  BY Zenon DEF FillInv
<1>4. ready \ recycled \subseteq map[d]
  BY Zenon, <1>2, <1>3, GetOrCreateFills
<1> QED
  BY <1>1, <1>4

(* The ids that the gauge has passed.                                      *)
LEMMA IssuedUpTo ==
  ASSUME NEW gauge \in 0..MaxId, NEW ids, ids = IF gauge = 0 THEN Id ELSE 1..(gauge - 1)
  PROVE  ids \subseteq Id /\ (gauge # 0 => \A id \in ids : id < gauge)
BY EallocAssumption DEF Id

(* They are below it, unless it has wrapped.                               *)
LEMMA IssuedBelow ==
  ASSUME AInv
  PROVE  Issued \subseteq Id /\ (global_gauge # 0 => \A id \in Issued : id < global_gauge)
BY IssuedUpTo DEF AInv, EallocTypeOK, Issued

(* World::create fills every storage for the new entity.                   *)
LEMMA CreateFill ==
  ASSUME AInv, AInv', FillInv, NEW given, Create(given)
  PROVE  FillInv'
<1>1. /\ \E shard \in Shard : AllocateOffline(shard, 0)
      /\ phase = "offline" /\ phase' = "offline" /\ strategy' = strategy
      /\ newborn' = newborn /\ recycled' = recycled
      /\ recyclable' = recyclable /\ dealloc_queue' = dealloc_queue
  BY Zenon DEF Create, AllocateOffline
<1>2. CASE panicked'
  <2>1. ready' = ready /\ storages' = storages
    BY Zenon, <1>2 DEF Create
  <2> QED
    BY <1>1, <1>2, <2>1 DEF FillInv, FilledFor
<1>3. CASE ~panicked'
  <2>1. PICK id \in allocated' \ allocated :
          FillInitIsotope(id, given, global_gauge') /\ ready' = ready \cup {id}
    BY Zenon, <1>3 DEF Create
  <2>2. /\ ~panicked /\ Issued \subseteq Issued'
        /\ allocated' \subseteq Issued' /\ allocated' \subseteq Id
    BY Zenon, <1>1, <1>3, AllocateGrows
  <2>3. ready \cup Range(newborn) \subseteq Issued'
    BY <2>2 DEF FillInv
  <2>4. Issued' \subseteq Id /\ (global_gauge' # 0 => \A e \in Issued' : e < global_gauge')
    <3>1. global_gauge' \in 0..MaxId
      BY Zenon DEF AInv, EallocTypeOK
    <3>2. Issued' = IF global_gauge' = 0 THEN Id ELSE 1..(global_gauge' - 1)
      BY Zenon DEF Issued
    <3> QED
      BY <3>1, <3>2, IssuedUpTo
  <2>5. FilledFor(ready \ recycled)'
    <3>1. id \in Id
      BY Zenon, <2>1, <2>2
    <3>2. ready \subseteq Issued'
      BY Zenon, <2>3
    <3>3. ready \subseteq Id /\ (global_gauge' # 0 => \A e \in ready : e < global_gauge')
      BY Zenon, <2>4, <3>2
    <3> QED
      BY Zenon, <1>1, <2>1, <3>1, <3>3, FillInitFills
  <2>6. ready' \cup Range(newborn') \subseteq Issued'
    BY <1>1, <2>1, <2>2, <2>3
  <2> QED
    BY <1>1, <1>3, <2>5, <2>6 DEF FillInv
<1> QED
  BY Zenon, <1>2, <1>3

(* So does the drain, for an entity made in the cycle before it.           *)
LEMMA DrainCreateFill ==
  ASSUME AInv, FillInv, NEW given, DrainCreate(given)
  PROVE  FillInv'
<1>1. /\ phase = "joined" /\ newborn # << >> /\ UNCHANGED evars
      /\ FillInitIsotope(Head(newborn), given, global_gauge) /\ ready' = ready \cup {Head(newborn)}
      /\ newborn' = Tail(newborn) /\ strategy' = strategy /\ recycled' = recycled
  BY Zenon DEF DrainCreate
<1>2. ~panicked /\ newborn \in Seq(Id) /\ ready \cup Range(newborn) \subseteq Issued
  BY <1>1 DEF FillInv
<1>3. Head(newborn) \in Range(newborn) /\ Range(newborn') \subseteq Range(newborn) /\ newborn' \in Seq(Id)
  BY <1>1, <1>2 DEF Range
<1>4. Issued' = Issued /\ phase' = phase /\ panicked' = panicked /\ recyclable' = recyclable
      /\ dealloc_queue' = dealloc_queue
  BY <1>1 DEF evars, Issued
<1>5. FilledFor(ready \ recycled)'
  <2>1. /\ ready \subseteq Id /\ Head(newborn) \in Id
        /\ global_gauge # 0 => \A e \in ready : e < global_gauge
    BY <1>2, <1>3, IssuedBelow
  <2> QED
    BY Zenon, <1>1, <2>1, FillInitFills
<1>6. ready' \cup Range(newborn') \subseteq Issued'
  BY <1>1, <1>2, <1>3, <1>4
<1> QED
  BY <1>1, <1>2, <1>3, <1>4, <1>5, <1>6 DEF FillInv

(* A deleted id is in the history before it can be left out of a snapshot. *)
LEMMA DeleteFill ==
  ASSUME AInv, FillInv, NEW id \in Id, Delete(id)
  PROVE  FillInv'
<1>1. /\ phase \in {"offline", "joined"} /\ phase' = phase /\ panicked' = panicked
      /\ dealloc_queue' = Append(dealloc_queue, id) /\ recyclable' = recyclable
      /\ global_gauge' = global_gauge /\ ready' = ready \ {id} /\ recycled' = recycled \cup {id}
      /\ strategy' = strategy /\ storages' = storages /\ newborn' = newborn
  BY Zenon DEF Delete, QueueDeallocate
<1>2. Range(dealloc_queue') = Range(dealloc_queue) \cup {id} /\ Issued' = Issued
  BY <1>1, RangeAppend DEF AInv, EallocTypeOK, Issued
<1>3. FilledFor(ready \ recycled)'
  BY <1>1 DEF FillInv, FilledFor
<1> QED
  BY <1>1, <1>2, <1>3 DEF FillInv

(* An entity created by a system is not initialised before the drain.      *)
LEMMA QueueCreateFill ==
  ASSUME AInv, AInv', FillInv, QueueCreate
  PROVE  FillInv'
<1>1. /\ \E shard \in Shard : AllocateOnline(shard, 0)
      /\ phase = "online" /\ phase' = "online" /\ strategy' = strategy
      /\ storages' = storages /\ ready' = ready /\ recycled' = recycled /\ snapshot' = snapshot
      /\ recyclable' = recyclable /\ dealloc_queue' = dealloc_queue
      /\ newborn' = IF panicked' THEN newborn
                    ELSE Append(newborn, CHOOSE id \in allocated' : id \notin allocated)
  BY Zenon DEF QueueCreate, AllocateOnline
<1>2. SnapshotIds' = SnapshotIds /\ FilledFor(ready \ recycled)'
  BY <1>1 DEF FillInv, FilledFor, SnapshotIds
<1>3. CASE panicked'
  BY <1>1, <1>2, <1>3 DEF FillInv
<1>4. CASE ~panicked'
  <2> DEFINE id == CHOOSE e \in allocated' : e \notin allocated
  <2>1. /\ ~panicked /\ Issued \subseteq Issued'
        /\ allocated' \subseteq Issued' /\ allocated' \subseteq Id
        /\ \E e \in allocated' : e \notin allocated
    BY Zenon, <1>1, <1>4, AllocateGrows
  <2>2. id \in allocated'
    BY Zenon, <2>1
  <2>3. newborn' = Append(newborn, id)
    BY Zenon, <1>1, <1>4
  <2> HIDE DEF id
  <2>4. newborn' \in Seq(Id) /\ Range(newborn') = Range(newborn) \cup {id}
    BY <2>1, <2>2, <2>3, RangeAppend DEF FillInv
  <2>5. ready' \cup Range(newborn') \subseteq Issued'
    BY <1>1, <2>1, <2>2, <2>4 DEF FillInv
  <2> QED
    BY <1>1, <1>2, <2>4, <2>5 DEF FillInv
<1> QED
  BY Zenon, <1>3, <1>4

(* Accessors make storages from the snapshot of their cycle, or none.      *)
LEMMA AccessFill ==
  ASSUME FillInv, UNCHANGED <<evars, strategy, newborn, ready, recycled>>,
         \/ storages' = storages
         \/ phase = "online" /\ \E ds \in SUBSET Discrim : storages' = GetOrCreate(storages, ds, SnapshotIds)
  PROVE  FillInv'
<1>1. /\ panicked' = panicked /\ phase' = phase /\ recyclable' = recyclable
      /\ dealloc_queue' = dealloc_queue /\ Issued' = Issued /\ SnapshotIds' = SnapshotIds
  BY Zenon DEF evars, Issued, SnapshotIds
<1>2. FilledFor(ready \ recycled)'
  <2>1. CASE storages' = storages
    BY <2>1 DEF FillInv, FilledFor
  <2>2. CASE phase = "online" /\ \E ds \in SUBSET Discrim : storages' = GetOrCreate(storages, ds, SnapshotIds)
    <3>1. PICK ds \in SUBSET Discrim : storages' = GetOrCreate(storages, ds, SnapshotIds)
      BY Zenon, <2>2
    <3>2. ready \ recycled \subseteq SnapshotIds /\ FilledFor(ready \ recycled)
      BY Zenon, <2>2 DEF FillInv
    <3>3. ASSUME strategy = "auto", NEW d \in DOMAIN storages'
          PROVE  ready \ recycled \subseteq storages'[d]
      BY Zenon, <3>1, <3>2, <3>3, GetOrCreateFills
    <3> QED
      BY <3>3 DEF FilledFor
  <2> QED
    BY Zenon, <2>1, <2>2
<1> QED
  BY Zenon, <1>1, <1>2 DEF FillInv

(* A flush makes holes of ids that were deleted, and a new snapshot has    *)
(* what the allocator knows.                                               *)
LEMMA CycleFill ==
  ASSUME AInv, FillInv, Cycle
  PROVE  FillInv'
<1>1. /\ strategy' = strategy /\ storages' = storages /\ newborn' = newborn /\ ready' = ready
      /\ recycled' = recycled /\ (FlushIfMarked \/ Shards \/ Join \/ Flush)
  BY Zenon DEF Cycle
<1>2. FilledFor(ready \ recycled)'
  BY Zenon, <1>1 DEF FillInv, FilledFor
<1>3. CASE FlushIfMarked \/ Flush
  <2>1. /\ global_gauge' = global_gauge /\ panicked' = panicked /\ ~panicked
        /\ phase' \in {"starting", "offline"}
        /\ Flushing \/ (recyclable' = recyclable /\ dealloc_queue' = dealloc_queue)
    BY <1>3 DEF FlushIfMarked, Flush
  <2>2. Issued' = Issued
    BY Zenon, <2>1 DEF Issued
  <2>3. recyclable' \cup Range(dealloc_queue') \subseteq recyclable \cup Range(dealloc_queue)
    <3>1. CASE Flushing
      <4>1. recyclable' \subseteq recyclable \cup Range(dealloc_queue) /\ dealloc_queue' = << >>
        BY Zenon, <3>1 DEF Flushing
      <4>2. Range(dealloc_queue') = {}
        BY <4>1 DEF Range
      <4> QED
        BY <4>1, <4>2
    <3> QED
      BY <2>1, <3>1
  <2> QED
    BY <1>1, <1>2, <2>1, <2>2, <2>3 DEF FillInv
<1>4. CASE Shards
  <2>1. /\ ~panicked /\ phase = "starting" /\ global_gauge' = global_gauge
        /\ recyclable' = recyclable /\ dealloc_queue' = dealloc_queue
        /\ \/ panicked' = TRUE /\ phase' = phase
           \/ /\ global_gauge # 0 /\ phase' = "online" /\ panicked' = panicked
              /\ snapshot' = [gauge |-> global_gauge, recyclable |-> recyclable]
    BY Zenon, <1>4 DEF Shards
  <2>2. CASE panicked' = TRUE /\ phase' = phase
    BY <1>1, <1>2, <2>1, <2>2 DEF FillInv
  <2>3. CASE /\ global_gauge # 0 /\ phase' = "online" /\ panicked' = panicked
             /\ snapshot' = [gauge |-> global_gauge, recyclable |-> recyclable]
    <3>1. ready \subseteq Issued /\ Issued' = Issued
      BY <2>1 DEF FillInv, Issued
    <3>2. SnapshotIds' = {i \in Id : i < global_gauge} \ recyclable
      BY <2>3 DEF SnapshotIds
    <3>3. ready' \ recycled' \subseteq SnapshotIds'
      BY <1>1, <2>3, <3>1, <3>2, IssuedBelow DEF FillInv
    <3> QED
      BY <1>1, <1>2, <2>1, <2>3, <3>1, <3>3 DEF FillInv
  <2> QED
    BY Zenon, <2>1, <2>2, <2>3
<1>5. CASE Join
  <2>1. /\ ~panicked /\ panicked' = panicked /\ phase' = "joined" /\ global_gauge' = global_gauge
        /\ recyclable' = recyclable /\ dealloc_queue' = dealloc_queue
    BY Zenon, <1>5 DEF Join
  <2>2. Issued' = Issued
    BY Zenon, <2>1 DEF Issued
  <2> QED
    BY <1>1, <1>2, <2>1, <2>2 DEF FillInv
<1> QED
  BY Zenon, <1>1, <1>3, <1>4, <1>5

-----------------------------------------------------------------------------
(* The invariant.                                                          *)

(* No storages, no systems, no entities.                                   *)
THEOREM IsotopesInvInit == IsotopesInit => IsotopesInv
<1> SUFFICES ASSUME IsotopesInit PROVE IsotopesInv
  OBVIOUS
<1>1. AInv
  BY Zenon, AInvInit DEF IsotopesInit
<1>2. /\ request \in [System -> Request] /\ storages = << >> /\ running = {} /\ ran = {}
      /\ held = [s \in System |-> {}] /\ newborn = << >> /\ ready = {} /\ fault = "no"
      /\ recyclable = {} /\ dealloc_queue = << >> /\ phase = "offline"
  BY Zenon DEF IsotopesInit, EallocInit
<1>3. LockInv
  BY <1>2 DEF LockInv, LocksNeverFail
<1>4. FillInv
  BY <1>2 DEF FillInv, FilledFor, Range
<1> QED
  BY <1>1, <1>2, <1>3, <1>4 DEF IsotopesInv, RunInv

(* What systems lock, entities and the steps of the cycle leave alone.     *)
LEMMA OutsideLocks ==
  ASSUME LockInv, UNCHANGED <<request, running, held>>, fault' # "lock",
         DOMAIN storages' \subseteq Discrim
  PROVE  LockInv'
<1>1. /\ request' = request /\ running' \subseteq running /\ held' \in [System -> SUBSET Discrim]
      /\ \A s \in System : held'[s] \subseteq held[s]
  BY DEF LockInv
<1> QED
  BY Zenon, <1>1, NoAccessInv

(* Initialising an entity locks nothing.                                   *)
LEMMA FillInitLocks ==
  ASSUME LockInv, NEW id, NEW given \in SUBSET Discrim, NEW gauge,
         FillInitIsotope(id, given, gauge), UNCHANGED <<request, running, held>>
  PROVE  LockInv'
<1>1. DOMAIN storages' = DOMAIN GetOrCreate(storages, given, OfflineIds(gauge))
  BY DEF FillInitIsotope
<1>2. DOMAIN storages' \subseteq Discrim
  BY <1>1, GetOrCreateDomain
<1>3. fault' # "lock"
  BY DEF FillInitIsotope, LockInv, LocksNeverFail
<1> QED
  BY Zenon, <1>2, <1>3, OutsideLocks

(* Entities are created and deleted.                                       *)
LEMMA EntitiesInv ==
  ASSUME IsotopesInv,
         \/ \E given \in SUBSET Discrim : Create(given) \/ DrainCreate(given)
         \/ \E id \in Id : Delete(id)
         \/ QueueCreate
  PROVE  IsotopesInv'
<1>0. AInv /\ LockInv /\ RunInv /\ FillInv
  BY Zenon DEF IsotopesInv
<1>a. 0 \in 0..MaxId
  BY EallocAssumption
<1>1. ASSUME NEW given \in SUBSET Discrim, Create(given)
      PROVE  IsotopesInv'
  <2>1. /\ \E shard \in Shard : AllocateOffline(shard, 0)
        /\ UNCHANGED <<request, running, held, ran>> /\ phase' = phase
    BY Zenon, <1>1 DEF Create, access, AllocateOffline
  <2>2. AInv'
    BY Zenon, <1>0, <1>a, <2>1, AInvNext DEF EallocNext
  <2>3. LockInv'
    <3>1. CASE panicked'
      <4>1. storages' = storages /\ fault' = fault
        BY Zenon, <1>1, <3>1 DEF Create
      <4> QED
        BY <1>0, <2>1, <4>1, OutsideLocks DEF LockInv, LocksNeverFail
    <3>2. CASE ~panicked'
      BY Zenon, <1>0, <1>1, <2>1, <3>2, FillInitLocks DEF Create
    <3> QED
      BY Zenon, <3>1, <3>2
  <2>4. RunInv'
    BY <1>0, <2>1 DEF RunInv
  <2> QED
    BY Zenon, <1>0, <1>1, <2>2, <2>3, <2>4, CreateFill DEF IsotopesInv
<1>2. ASSUME NEW given \in SUBSET Discrim, DrainCreate(given)
      PROVE  IsotopesInv'
  <2>1. /\ UNCHANGED evars /\ UNCHANGED <<request, running, held, ran>>
        /\ FillInitIsotope(Head(newborn), given, global_gauge)
    BY Zenon, <1>2 DEF DrainCreate, access
  <2>2. AInv'
    BY Zenon, <1>0, <2>1, AInvNext
  <2>3. LockInv'
    BY Zenon, <1>0, <2>1, FillInitLocks
  <2>4. RunInv'
    BY <1>0, <2>1 DEF RunInv, evars
  <2> QED
    BY Zenon, <1>0, <1>2, <2>2, <2>3, <2>4, DrainCreateFill DEF IsotopesInv
<1>3. ASSUME NEW id \in Id, Delete(id)
      PROVE  IsotopesInv'
  <2>1. /\ QueueDeallocate(id) /\ UNCHANGED <<request, running, held, ran>> /\ phase' = phase
        /\ storages' = storages /\ fault' = fault
    BY Zenon, <1>3 DEF Delete, access, QueueDeallocate
  <2>2. AInv'
    BY Zenon, <1>0, <2>1, AInvNext DEF EallocNext
  <2>3. LockInv'
    BY <1>0, <2>1, OutsideLocks DEF LockInv, LocksNeverFail
  <2>4. RunInv'
    BY <1>0, <2>1 DEF RunInv
  <2> QED
    BY Zenon, <1>0, <1>3, <2>2, <2>3, <2>4, DeleteFill DEF IsotopesInv
<1>4. ASSUME QueueCreate
      PROVE  IsotopesInv'
  <2>1. /\ \E shard \in Shard : AllocateOnline(shard, 0)
        /\ UNCHANGED <<request, running, held, ran>> /\ phase' = phase
        /\ storages' = storages /\ fault' = fault
    BY Zenon, <1>4 DEF QueueCreate, access, AllocateOnline
  <2>2. AInv'
    BY Zenon, <1>0, <1>a, <2>1, AInvNext DEF EallocNext
  <2>3. LockInv'
    BY <1>0, <2>1, OutsideLocks DEF LockInv, LocksNeverFail
  <2>4. RunInv'
    BY <1>0, <2>1 DEF RunInv
  <2> QED
    BY Zenon, <1>0, <1>4, <2>2, <2>3, <2>4, QueueCreateFill DEF IsotopesInv
<1> QED
  BY Zenon, <1>1, <1>2, <1>3, <1>4

(* Systems get, use and drop their accessors.                              *)
LEMMA AccessorsInv ==
  ASSUME IsotopesInv, NEW s \in System,
         \/ ReadFull(s) \/ WriteFull(s) \/ ReadPartial(s) \/ WritePartial(s) \/ DropAccessor(s)
         \/ \E d \in Discrim : GetStorage(s, d) \/ GetStorageMut(s, d)
  PROVE  IsotopesInv'
<1>0. AInv /\ LockInv /\ RunInv /\ FillInv
  BY Zenon DEF IsotopesInv
<1>1. CASE ReadFull(s) \/ WriteFull(s) \/ ReadPartial(s) \/ WritePartial(s)
  <2>1. /\ phase = "online" /\ s \notin running \cup ran /\ running' = running \cup {s} /\ ran' = ran
        /\ UNCHANGED evars /\ UNCHANGED <<evars, strategy, newborn, ready, recycled>>
    BY Zenon, <1>1 DEF ReadFull, WriteFull, ReadPartial, WritePartial, Starts
  <2>2. \/ storages' = storages
        \/ phase = "online" /\ \E ds \in SUBSET Discrim : storages' = GetOrCreate(storages, ds, SnapshotIds)
    <3>1. request[s].discrims \in SUBSET Discrim
      BY <1>0, RequestTypes
    <3> QED
      BY Zenon, <1>1, <2>1, <3>1 DEF ReadFull, WriteFull, ReadPartial, WritePartial, OwnTwice
  <2>3. LockInv'
    BY Zenon, <1>0, <1>1, FullInv, PartialInv
  <2>4. AInv' /\ FillInv'
    BY Zenon, <1>0, <2>1, <2>2, AInvNext, AccessFill
  <2>5. RunInv'
    <3>1. phase' = phase
      BY Zenon, <2>1 DEF evars
    <3> QED
      BY <1>0, <2>1, <3>1 DEF RunInv
  <2> QED
    BY Zenon, <2>3, <2>4, <2>5 DEF IsotopesInv
<1>2. ASSUME NEW d \in Discrim, Meets(s, d)
      PROVE  IsotopesInv'
  <2>1. /\ s \in running /\ running' = running /\ ran' = ran
        /\ UNCHANGED evars /\ UNCHANGED <<evars, strategy, newborn, ready, recycled>>
        /\ storages' = GetOrCreate(storages, {d}, SnapshotIds)
    BY Zenon, <1>2 DEF Meets
  <2>2. phase = "online" /\ \E ds \in SUBSET Discrim : storages' = GetOrCreate(storages, ds, SnapshotIds)
    BY <1>0, <2>1 DEF RunInv
  <2>3. LockInv'
    BY Zenon, <1>0, <1>2, MeetsInv
  <2>4. AInv' /\ FillInv'
    BY Zenon, <1>0, <2>1, <2>2, AInvNext, AccessFill
  <2>5. RunInv'
    BY Zenon, <1>0, <2>1 DEF RunInv, evars
  <2> QED
    BY Zenon, <2>3, <2>4, <2>5 DEF IsotopesInv
<1>3. CASE DropAccessor(s)
  <2>1. /\ s \in running /\ running' = running \ {s} /\ ran' = ran \cup {s}
        /\ UNCHANGED evars /\ UNCHANGED <<evars, strategy, newborn, ready, recycled>>
        /\ storages' = storages /\ request' = request /\ fault' = fault
        /\ held' = [held EXCEPT ![s] = {}]
    BY Zenon, <1>3 DEF DropAccessor
  <2>2. /\ running' \subseteq running /\ held' \in [System -> SUBSET Discrim]
        /\ \A u \in System : held'[u] \subseteq held[u]
        /\ DOMAIN storages' \subseteq Discrim /\ fault' # "lock"
    BY <1>0, <2>1 DEF LockInv, LocksNeverFail
  <2>3. LockInv'
    BY Zenon, <1>0, <2>1, <2>2, NoAccessInv
  <2>4. AInv' /\ FillInv'
    BY Zenon, <1>0, <2>1, AInvNext, AccessFill
  <2>5. RunInv'
    <3>1. phase' = phase
      BY Zenon, <2>1 DEF evars
    <3> QED
      BY <1>0, <2>1, <3>1 DEF RunInv
  <2> QED
    BY Zenon, <2>3, <2>4, <2>5 DEF IsotopesInv
<1> QED
  BY Zenon, <1>1, <1>2, <1>3 DEF GetStorage, GetStorageMut

(* Every step keeps the invariant.                                         *)
THEOREM IsotopesInvNext == IsotopesInv /\ [IsotopesNext]_ivars => IsotopesInv'
<1> SUFFICES ASSUME IsotopesInv, [IsotopesNext]_ivars PROVE IsotopesInv'
  OBVIOUS
<1>0. AInv /\ LockInv /\ RunInv /\ FillInv
  BY Zenon DEF IsotopesInv
<1>1. CASE Cycle
  <2>1. /\ UNCHANGED <<request, running, held>> /\ storages' = storages /\ fault' = fault
        /\ FlushIfMarked \/ Shards \/ Join \/ Flush
        /\ Join => ran = System
        /\ ran' = IF phase = "online" THEN {} ELSE ran
    BY Zenon, <1>1 DEF Cycle, FlushIfMarked, Shards, Join, Flush
  <2>2. AInv'
    BY Zenon, <1>0, <2>1, AInvNext DEF EallocNext
  <2>3. LockInv'
    BY <1>0, <2>1, OutsideLocks DEF LockInv, LocksNeverFail
  <2>4. RunInv'
    <3>1. running = {}
      <4>1. CASE Join
        BY <1>0, <2>1, <4>1 DEF RunInv, LockInv
      <4>2. CASE FlushIfMarked \/ Shards \/ Flush
        BY <1>0, <4>2 DEF RunInv, FlushIfMarked, Shards, Flush
      <4> QED
        BY Zenon, <2>1, <4>1, <4>2
    <3> QED
      BY <2>1, <3>1 DEF RunInv
  <2> QED
    BY Zenon, <1>0, <1>1, <2>2, <2>3, <2>4, CycleFill DEF IsotopesInv
<1>2. CASE UNCHANGED ivars
  <2>1. /\ UNCHANGED evars /\ UNCHANGED <<evars, strategy, newborn, ready, recycled>>
        /\ UNCHANGED <<request, running, held, ran>> /\ storages' = storages /\ fault' = fault
    BY Zenon, <1>2 DEF ivars, access
  <2>2. AInv' /\ FillInv'
    BY Zenon, <1>0, <2>1, AInvNext, AccessFill
  <2>3. LockInv'
    BY <1>0, <2>1, OutsideLocks DEF LockInv, LocksNeverFail
  <2>4. RunInv'
    BY Zenon, <1>0, <2>1 DEF RunInv, evars
  <2> QED
    BY Zenon, <2>2, <2>3, <2>4 DEF IsotopesInv
<1> QED
  BY Zenon, <1>1, <1>2, EntitiesInv, AccessorsInv DEF IsotopesNext

(* "Maybe scheduler bug?": systems that the scheduler lets run at once     *)
(* find the lock of every storage they ask for free, also of one that      *)
(* another of them has just made.                                          *)
THEOREM LocksNeverFailAlways == IsotopesSpec => []LocksNeverFail
<1>1. IsotopesInv => LocksNeverFail
  BY Zenon DEF IsotopesInv, LockInv
<1> QED
  BY <1>1, IsotopesInvInit, IsotopesInvNext, PTL DEF IsotopesSpec

(* A storage made by get_or_create in the middle of a cycle, or by a       *)
(* creation, has a component for every initialised entity whose id was not *)
(* used before.                                                            *)
THEOREM FirstHoldersFilledAlways == IsotopesSpec => []FirstHoldersFilled
<1>1. IsotopesInv => FirstHoldersFilled
  BY Zenon DEF IsotopesInv, FillInv, FilledFor, FirstHoldersFilled
<1> QED
  BY <1>1, IsotopesInvInit, IsotopesInvNext, PTL DEF IsotopesSpec

=============================================================================
