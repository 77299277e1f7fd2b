---------------------------- MODULE EallocProofs ----------------------------
(***************************************************************************)
(* Ids are unique: the allocator of Ealloc keeps every id in one place and *)
(* the promises of IdPool, for any number of shards and any id type.       *)
(***************************************************************************)
EXTENDS Ealloc, TLAPS

(* With a queue that is empty whenever nothing is marked, what the runs    *)
(* check is inductive.                                                     *)
AInv ==
  /\ EallocTypeOK
  /\ IdsInOnePlace
  /\ FlushedWhenOnline
  /\ phase = "offline" /\ ~flush_mark => dealloc_queue = << >>

(* A gauge that has not wrapped points to an id nobody has.                *)
LEMMA GaugeIsFresh ==
  ASSUME AInv, ~panicked, global_gauge # 0
  PROVE  /\ global_gauge \in Id
         /\ global_gauge \notin allocated
         /\ global_gauge \notin Range(dealloc_queue)
         /\ \A s \in Shard : global_gauge \notin recycler[s]
<1>1. global_gauge \in Id /\ global_gauge \notin Issued
  BY EallocAssumption DEF AInv, EallocTypeOK, Issued, Id
<1> QED
  BY <1>1 DEF AInv, IdsInOnePlace

(* Ids of an extended queue.                                               *)
LEMMA RangeAppend ==
  ASSUME NEW q \in Seq(Id), NEW id \in Id
  PROVE  Range(Append(q, id)) = Range(q) \cup {id}
<1>1. DOMAIN Append(q, id) = DOMAIN q \cup {Len(q) + 1} /\ Len(q) \in Nat /\ DOMAIN q = 1..Len(q)
  OBVIOUS
<1>2. \A i \in DOMAIN q : Append(q, id)[i] = q[i]
  OBVIOUS
<1>3. Append(q, id)[Len(q) + 1] = id
  OBVIOUS
<1> QED
  BY <1>1, <1>2, <1>3 DEF Range

(* Reusing an id moves it from the shard's recycler to the caller.         *)
LEMMA ReuseInv ==
  ASSUME AInv, NEW s \in Shard, NEW near, Reuse(s, near),
         UNCHANGED <<flush_mark, recyclable, dealloc_queue, phase>>,
         reuse_queue' \in [Shard -> SUBSET Id]
  PROVE  AInv'
<1>1. PICK id \in recycler[s] :
        /\ recycler' = [recycler EXCEPT ![s] = @ \ {id}]
        /\ allocated' = allocated \cup {id} /\ doubled' = doubled \cup ({id} \cap allocated)
        /\ global_gauge' = global_gauge /\ panicked' = panicked
  BY Zenon DEF Reuse, HandOut
<1>2. id \in Id /\ recycler \in [Shard -> SUBSET Id] /\ Issued' = Issued
  BY <1>1 DEF AInv, EallocTypeOK, Issued
<1>3. /\ recycler' \in [Shard -> SUBSET Id]
      /\ recycler'[s] = recycler[s] \ {id}
      /\ \A u \in Shard : u # s => recycler'[u] = recycler[u]
  BY <1>1, <1>2
<1>4. EallocTypeOK'
  BY <1>1, <1>2, <1>3 DEF AInv, EallocTypeOK
<1>5. ASSUME ~panicked
      PROVE  /\ Issued' = allocated' \cup Range(dealloc_queue) \cup UNION {recycler'[u] : u \in Shard}
             /\ allocated' \cap Range(dealloc_queue) = {}
             /\ \A u \in Shard : recycler'[u] \cap (allocated' \cup Range(dealloc_queue)) = {}
             /\ \A u, v \in Shard : u # v => recycler'[u] \cap recycler'[v] = {}
  <2>1. /\ Issued = allocated \cup Range(dealloc_queue) \cup UNION {recycler[u] : u \in Shard}
        /\ allocated \cap Range(dealloc_queue) = {}
        /\ \A u \in Shard : recycler[u] \cap (allocated \cup Range(dealloc_queue)) = {}
        /\ \A u, v \in Shard : u # v => recycler[u] \cap recycler[v] = {}
    BY <1>5 DEF AInv, IdsInOnePlace
  <2>2. (UNION {recycler'[u] : u \in Shard}) \cup {id} = UNION {recycler[u] : u \in Shard}
    BY <1>1, <1>3
  <2> QED
    BY <1>1, <1>2, <1>3, <2>1, <2>2
<1>6. IdsInOnePlace'
  BY <1>1, <1>5 DEF AInv, IdsInOnePlace, Range
<1> QED
  BY <1>1, <1>4, <1>6 DEF AInv, FlushedWhenOnline

(* fetch_add moves the next id to the caller.                              *)
LEMMA FetchAddInv ==
  ASSUME AInv, FetchAdd,
         UNCHANGED <<flush_mark, recyclable, dealloc_queue, phase, reuse_queue>>
  PROVE  AInv'
<1>a. /\ global_gauge' \in 0..MaxId /\ allocated' \subseteq Id /\ doubled' \subseteq Id
      /\ panicked' \in BOOLEAN /\ recycler' = recycler
  <2>1. global_gauge \in 0..MaxId /\ MaxId \in Nat /\ allocated \subseteq Id /\ doubled \subseteq Id
    BY EallocAssumption DEF AInv, EallocTypeOK
  <2>2. global_gauge' = IF global_gauge = MaxId THEN 0 ELSE global_gauge + 1
    BY DEF FetchAdd
  <2>3. global_gauge' \in 0..MaxId
    BY <2>1, <2>2
  <2>4. global_gauge # 0 => global_gauge \in Id
    BY <2>1 DEF Id
  <2>5. allocated' \subseteq Id /\ doubled' \subseteq Id
    BY <2>1, <2>4 DEF FetchAdd, HandOut
  <2>6. panicked' \in BOOLEAN /\ recycler' = recycler
    BY Zenon DEF FetchAdd, AInv, EallocTypeOK
  <2> QED
    BY <2>3, <2>5, <2>6
<1>1. CASE panicked'
  BY <1>1, <1>a DEF AInv, EallocTypeOK, IdsInOnePlace, FlushedWhenOnline
<1>2. CASE ~panicked'
  <2>1. /\ ~panicked /\ panicked' = FALSE /\ global_gauge # 0 /\ recycler' = recycler
        /\ allocated' = allocated \cup {global_gauge}
        /\ global_gauge' = IF global_gauge = MaxId THEN 0 ELSE global_gauge + 1
    BY <1>2 DEF FetchAdd, HandOut, AInv, EallocTypeOK
  <2>2. /\ global_gauge \in Id /\ global_gauge \notin allocated
        /\ global_gauge \notin Range(dealloc_queue)
        /\ \A s \in Shard : global_gauge \notin recycler[s]
    BY <2>1, GaugeIsFresh
  <2>3. Issued' = Issued \cup {global_gauge}
    BY <2>1, <2>2, EallocAssumption DEF AInv, EallocTypeOK, Issued, Id
  <2>4. EallocTypeOK'
    BY <1>a, <2>1, <2>3 DEF AInv, EallocTypeOK
  <2>5. IdsInOnePlace'
    BY <2>1, <2>2, <2>3 DEF AInv, IdsInOnePlace, Range
  <2> QED
    BY <2>4, <2>5 DEF AInv, FlushedWhenOnline
<1> QED
  BY <1>1, <1>2

(* A flush moves every queued id to the recycler of one shard.             *)
LEMMA FlushingInv ==
  ASSUME AInv, Flushing, UNCHANGED <<global_gauge, panicked, allocated, doubled>>,
         phase' \in {"offline", "starting"}
  PROVE  AInv'
<1>1. PICK to \in [DOMAIN dealloc_queue -> Shard] :
        recycler' = [s \in Shard |->
          recycler[s] \cup {dealloc_queue[i] : i \in {j \in DOMAIN to : to[j] = s}}]
  BY DEF Flushing
<1>2. /\ flush_mark' = FALSE /\ dealloc_queue' = << >> /\ reuse_queue' = [s \in Shard |-> {}]
      /\ recyclable' \subseteq recyclable \cup Range(dealloc_queue)
  BY DEF Flushing
<1>3. /\ DOMAIN dealloc_queue' = {} /\ Range(dealloc_queue') = {} /\ dealloc_queue' \in Seq(Id)
      /\ Issued' = Issued
  BY <1>2 DEF Range, Issued
<1>4. /\ dealloc_queue \in Seq(Id) /\ recycler \in [Shard -> SUBSET Id]
      /\ \A i \in DOMAIN dealloc_queue : dealloc_queue[i] \in Id
  BY DEF AInv, EallocTypeOK
<1>5. \A s \in Shard, id \in Id :
        id \in recycler'[s] <=>
          id \in recycler[s] \/ \E i \in DOMAIN dealloc_queue : to[i] = s /\ id = dealloc_queue[i]
  BY <1>1
<1>6. recycler' \in [Shard -> SUBSET Id]
  BY <1>1, <1>4
<1>7. ASSUME ~panicked
      PROVE  /\ recyclable' \subseteq Issued'
             /\ Issued' = allocated' \cup UNION {recycler'[s] : s \in Shard}
             /\ \A s \in Shard : recycler'[s] \cap allocated' = {}
             /\ \A s, u \in Shard : s # u => recycler'[s] \cap recycler'[u] = {}
  <2>1. /\ Issued = allocated \cup Range(dealloc_queue) \cup UNION {recycler[s] : s \in Shard}
        /\ \A i, j \in DOMAIN dealloc_queue : dealloc_queue[i] = dealloc_queue[j] => i = j
        /\ allocated \cap Range(dealloc_queue) = {}
        /\ \A s \in Shard : recycler[s] \cap (allocated \cup Range(dealloc_queue)) = {}
        /\ \A s, u \in Shard : s # u => recycler[s] \cap recycler[u] = {}
        /\ recyclable \subseteq Issued
    BY <1>7 DEF AInv, IdsInOnePlace, EallocTypeOK
  <2>2. UNION {recycler'[s] : s \in Shard}
          = Range(dealloc_queue) \cup UNION {recycler[s] : s \in Shard}
    BY <1>1 DEF Range
  <2>3. \A s \in Shard : recycler'[s] \cap allocated' = {}
    BY <1>5, <1>6, <2>1 DEF Range
  <2>4. \A s, u \in Shard : s # u => recycler'[s] \cap recycler'[u] = {}
    <3> SUFFICES ASSUME NEW s \in Shard, NEW u \in Shard, s # u,
                        NEW id \in recycler'[s], id \in recycler'[u]
                 PROVE  FALSE
      OBVIOUS
    <3>1. id \in Id
      BY <1>6
    <3>2. id \in recycler[s] \/ \E i \in DOMAIN dealloc_queue : to[i] = s /\ id = dealloc_queue[i]
      BY <1>5, <3>1
    <3>3. id \in recycler[u] \/ \E i \in DOMAIN dealloc_queue : to[i] = u /\ id = dealloc_queue[i]
      BY <1>5, <3>1
    <3> QED
      BY <2>1, <3>2, <3>3 DEF Range
  <2> QED
    BY <1>2, <1>3, <2>1, <2>2, <2>3, <2>4
<1>8. EallocTypeOK'
  BY Zenon, <1>2, <1>3, <1>6, <1>7 DEF AInv, EallocTypeOK
<1>9. IdsInOnePlace'
  BY <1>2, <1>3, <1>7 DEF IdsInOnePlace
<1> QED
  BY <1>2, <1>8, <1>9 DEF AInv, FlushedWhenOnline

-----------------------------------------------------------------------------

(* A new allocator has given out nothing.                                  *)
THEOREM AInvInit == EallocInit => AInv
<1> SUFFICES ASSUME EallocInit PROVE AInv
  OBVIOUS
<1>1. Issued = {} /\ Range(dealloc_queue) = {} /\ dealloc_queue \in Seq(Id) /\ DOMAIN dealloc_queue = {}
  BY DEF EallocInit, Issued, Range
<1>a. 1 \in 0..MaxId
  BY EallocAssumption
<1>2. EallocTypeOK
  BY Zenon, <1>1, <1>a DEF EallocInit, EallocTypeOK
<1>3. \A s \in Shard : recycler[s] = {}
  BY DEF EallocInit
<1>4. UNION {recycler[s] : s \in Shard} = {}
  BY <1>3
<1>5. IdsInOnePlace
  BY <1>1, <1>3, <1>4 DEF EallocInit, IdsInOnePlace
<1> QED
  BY <1>2, <1>5 DEF EallocInit, AInv, FlushedWhenOnline

(* Every operation keeps every id in one place.                            *)
THEOREM AInvNext == AInv /\ [EallocNext]_evars => AInv'
<1> SUFFICES ASSUME AInv, [EallocNext]_evars PROVE AInv'
  OBVIOUS
<1>1. ASSUME NEW s \in Shard, NEW near \in 0..MaxId, AllocateOnline(s, near)
      PROVE  AInv'
  <2>1. CASE recycler[s] # {}
    BY <1>1, <2>1, ReuseInv DEF AllocateOnline, AInv, EallocTypeOK
  <2>2. CASE recycler[s] = {}
    BY <1>1, <2>2, FetchAddInv DEF AllocateOnline
  <2> QED
    BY <2>1, <2>2
<1>2. ASSUME NEW s \in Shard, NEW near \in 0..MaxId, AllocateOffline(s, near)
      PROVE  AInv'
  <2>1. CASE recycler[s] # {}
    <3>1. /\ Reuse(s, near)
          /\ reuse_queue' = [reuse_queue EXCEPT ![s] = @ \cup (allocated' \ allocated)]
          /\ UNCHANGED <<flush_mark, recyclable, dealloc_queue, phase>>
      BY <1>2, <2>1 DEF AllocateOffline
    <3>2. allocated' \ allocated \subseteq Id
      BY <3>1 DEF Reuse, HandOut, AInv, EallocTypeOK
    <3>3. reuse_queue' \in [Shard -> SUBSET Id]
      BY <3>1, <3>2 DEF AInv, EallocTypeOK
    <3> QED
      BY <3>1, <3>3, ReuseInv
  <2>2. CASE recycler[s] = {}
    BY <1>2, <2>2, FetchAddInv DEF AllocateOffline
  <2> QED
    BY <2>1, <2>2
<1>3. ASSUME NEW id \in Id, QueueDeallocate(id)
      PROVE  AInv'
  <2>1. /\ ~panicked /\ id \in allocated /\ dealloc_queue' = Append(dealloc_queue, id)
        /\ allocated' = allocated \ {id} /\ phase' = phase /\ phase \in {"offline", "joined"}
        /\ flush_mark' = (flush_mark \/ phase = "offline")
        /\ global_gauge' = global_gauge /\ recyclable' = recyclable /\ recycler' = recycler
        /\ reuse_queue' = reuse_queue /\ panicked' = panicked /\ doubled' = doubled
    BY <1>3 DEF QueueDeallocate
  <2>2. dealloc_queue \in Seq(Id) /\ dealloc_queue' \in Seq(Id)
    BY <2>1 DEF AInv, EallocTypeOK
  <2>3. Range(dealloc_queue') = Range(dealloc_queue) \cup {id} /\ Issued' = Issued
    BY <2>1, <2>2, RangeAppend DEF Issued
  <2>4. \A i, j \in DOMAIN dealloc_queue' : dealloc_queue'[i] = dealloc_queue'[j] => i = j
    <3>1. DOMAIN dealloc_queue' = DOMAIN dealloc_queue \cup {Len(dealloc_queue) + 1}
      BY <2>1, <2>2
    <3>2. \A i \in DOMAIN dealloc_queue : dealloc_queue'[i] = dealloc_queue[i]
      BY <2>1, <2>2
    <3>3. dealloc_queue'[Len(dealloc_queue) + 1] = id
      BY <2>1, <2>2
    <3>4. /\ \A i \in DOMAIN dealloc_queue : dealloc_queue[i] # id
          /\ \A i, j \in DOMAIN dealloc_queue : dealloc_queue[i] = dealloc_queue[j] => i = j
      BY <2>1 DEF AInv, IdsInOnePlace, Range
    <3> QED
      BY <3>1, <3>2, <3>3, <3>4
  <2>5. EallocTypeOK'
    BY <2>1, <2>2, <2>3 DEF AInv, EallocTypeOK
  <2>6. /\ Issued = allocated \cup Range(dealloc_queue) \cup UNION {recycler[s] : s \in Shard}
        /\ allocated \cap Range(dealloc_queue) = {}
        /\ \A s \in Shard : recycler[s] \cap (allocated \cup Range(dealloc_queue)) = {}
        /\ \A s, u \in Shard : s # u => recycler[s] \cap recycler[u] = {}
    BY <2>1 DEF AInv, IdsInOnePlace
  <2>7. IdsInOnePlace'
    BY <2>1, <2>3, <2>4, <2>6 DEF IdsInOnePlace
  <2> QED
    BY Zenon, <2>1, <2>5, <2>7 DEF AInv, EallocTypeOK, FlushedWhenOnline
<1>4. CASE FlushIfMarked
  <2>1. CASE flush_mark
    BY <1>4, <2>1, FlushingInv DEF FlushIfMarked
  <2>2. CASE ~flush_mark
    <3>1. /\ phase = "offline" /\ phase' = "starting" /\ dealloc_queue = << >>
          /\ UNCHANGED <<flush_mark, recyclable, recycler, reuse_queue, dealloc_queue>>
          /\ UNCHANGED <<global_gauge, snapshot, panicked, allocated, doubled>>
      BY <1>4, <2>2 DEF FlushIfMarked, AInv
    <3> QED
      BY <3>1 DEF AInv, EallocTypeOK, IdsInOnePlace, FlushedWhenOnline, Range, Issued
  <2> QED
    BY <2>1, <2>2
<1>5. CASE Shards
  <2>1. /\ phase = "starting" /\ phase' \in {"starting", "online"} /\ panicked' \in BOOLEAN
        /\ panicked' \/ panicked' = panicked
        /\ UNCHANGED <<flush_mark, global_gauge, recyclable, recycler, reuse_queue,
                       dealloc_queue, allocated, doubled>>
    BY Zenon, <1>5 DEF Shards, AInv, EallocTypeOK
  <2>2. EallocTypeOK'
    BY <2>1 DEF AInv, EallocTypeOK, Issued
  <2>3. IdsInOnePlace'
    BY <2>1 DEF AInv, IdsInOnePlace, Range, Issued
  <2> QED
    BY <2>1, <2>2, <2>3 DEF AInv, FlushedWhenOnline
<1>6. CASE Join
  BY <1>6 DEF Join, AInv, EallocTypeOK, IdsInOnePlace, FlushedWhenOnline, Range, Issued
<1>7. CASE Flush
  BY <1>7, FlushingInv DEF Flush
<1>8. CASE UNCHANGED evars
  BY <1>8 DEF evars, AInv, EallocTypeOK, IdsInOnePlace, FlushedWhenOnline, Range, Issued
<1> QED
  BY <1>1, <1>2, <1>3, <1>4, <1>5, <1>6, <1>7, <1>8 DEF EallocNext

(* A step on the ids in the callers' hands is one the trait allows: the id *)
(* a shard reuses and the one the gauge gives have no holder, so that none *)
(* is recorded as handed out twice.                                        *)
THEOREM AInvSimulates == AInv /\ [EallocNext]_evars => [Pool!PoolNext \/ panicked]_(Pool!pool)
<1> SUFFICES ASSUME AInv, [EallocNext]_evars, ~panicked
             PROVE  Pool!PoolNext \/ UNCHANGED <<allocated, doubled, dealloc_queue>>
  BY DEF Pool!pool
<1>a. ASSUME NEW id \in Id, HandOut(id), dealloc_queue' = dealloc_queue,
             id \notin allocated, id \notin Range(dealloc_queue)
      PROVE  Pool!PoolNext
  <2>1. doubled' = doubled /\ allocated' = allocated \cup {id}
    BY <1>a DEF HandOut
  <2> QED
    BY <1>a, <2>1 DEF Pool!PoolNext, Pool!PoolAllocate, Pool!Id, Id, Range
<1>b. ASSUME NEW s \in Shard, NEW near \in 0..MaxId, Reuse(s, near), dealloc_queue' = dealloc_queue
      PROVE  Pool!PoolNext
  <2>1. PICK id \in recycler[s] : HandOut(id)
    BY Zenon, <1>b DEF Reuse
  <2>2. id \in Id
    BY <2>1 DEF AInv, EallocTypeOK
  <2>3. id \notin allocated /\ id \notin Range(dealloc_queue)
    BY <2>1 DEF AInv, IdsInOnePlace
  <2> QED
    BY Zenon, <1>a, <1>b, <2>1, <2>2, <2>3
<1>c. ASSUME FetchAdd, dealloc_queue' = dealloc_queue
      PROVE  Pool!PoolNext \/ UNCHANGED <<allocated, doubled, dealloc_queue>>
  <2>1. CASE global_gauge = 0
    BY Zenon, <1>c, <2>1 DEF FetchAdd
  <2>2. CASE global_gauge # 0
    <3>1. HandOut(global_gauge)
      BY Zenon, <1>c, <2>2 DEF FetchAdd
    <3> QED
      BY Zenon, <1>a, <1>c, <2>2, <3>1, GaugeIsFresh
  <2> QED
    BY Zenon, <2>1, <2>2
<1>d. ASSUME Flushing, allocated' = allocated, doubled' = doubled
      PROVE  Pool!PoolNext
  BY Zenon, <1>d DEF Flushing, Pool!PoolNext, Pool!PoolFlush
<1>1. ASSUME NEW s \in Shard, NEW near \in 0..MaxId, AllocateOnline(s, near)
      PROVE  Pool!PoolNext \/ UNCHANGED <<allocated, doubled, dealloc_queue>>
  BY Zenon, <1>1, <1>b, <1>c DEF AllocateOnline
<1>2. ASSUME NEW s \in Shard, NEW near \in 0..MaxId, AllocateOffline(s, near)
      PROVE  Pool!PoolNext \/ UNCHANGED <<allocated, doubled, dealloc_queue>>
  BY Zenon, <1>2, <1>b, <1>c DEF AllocateOffline
<1>3. ASSUME NEW id \in Id, QueueDeallocate(id)
      PROVE  Pool!PoolNext
  BY <1>3 DEF QueueDeallocate, Pool!PoolNext, Pool!PoolDeallocate, Pool!Id, Id
<1>4. CASE FlushIfMarked
  BY Zenon, <1>4, <1>d DEF FlushIfMarked
<1>5. CASE Shards
  BY Zenon, <1>5 DEF Shards
<1>6. CASE Join
  BY Zenon, <1>6 DEF Join
<1>7. CASE Flush
  BY Zenon, <1>7, <1>d DEF Flush
<1>8. CASE UNCHANGED evars
  BY Zenon, <1>8 DEF evars
<1> QED
  BY Zenon, <1>1, <1>2, <1>3, <1>4, <1>5, <1>6, <1>7, <1>8 DEF EallocNext

(* The sharded allocator implements the contract of the Ealloc trait: of   *)
(* the ids that threads and the world get, none has another holder.        *)
THEOREM ImplementsPoolAlways == EallocSpec => ImplementsPool
<1>1. EallocInit => Pool!PoolInit
  BY DEF EallocInit, Pool!PoolInit
<1> QED
  BY <1>1, AInvSimulates, AInvInit, AInvNext, PTL DEF EallocSpec, ImplementsPool

(* No id is lost and none can be handed out twice.                         *)
THEOREM IdsInOnePlaceAlways == EallocSpec => [](IdsInOnePlace /\ FlushedWhenOnline)
<1>1. AInv => IdsInOnePlace /\ FlushedWhenOnline
  BY DEF AInv
<1> QED
  BY <1>1, AInvInit, AInvNext, PTL DEF EallocSpec

=============================================================================
