------------------------------- MODULE Ealloc -------------------------------
(***************************************************************************)
(* The allocator of one archetype's entity ids: Recycling with BTreeSet    *)
(* recyclers (src/entity/ealloc/recycling.rs).  Between cycles the world   *)
(* allocates and deallocates; during a cycle every worker thread owns one  *)
(* shard and the threads share the gauge; after the join the queued        *)
(* deletions run and the allocator is flushed.                             *)
(***************************************************************************)
EXTENDS Distribute, Functions, TLC

CONSTANTS
  MaxId,           \* the largest value of the raw id type
  NumShards        \* worker threads and the main thread

ASSUME EallocAssumption == MaxId \in Nat \ {0} /\ NumShards \in Nat \ {0}

Id == 1..MaxId
Shard == 1..NumShards

VARIABLES
  flush_mark,
  global_gauge,    \* the next id, or 0 when the integer has wrapped
  recyclable,      \* what snapshots take for holes
  recycler,        \* the ids each shard may reuse
  reuse_queue,     \* ids reused since the last flush, to be taken out of recyclable
  dealloc_queue,
  snapshot,        \* the snapshot the threads of a cycle work with
  phase,           \* "offline", "starting", "online", or "joined"
  panicked,
  allocated,       \* ids in the hands of the callers
  doubled          \* history: ids that were handed out while a caller had them

evars == <<flush_mark, global_gauge, recyclable, recycler, reuse_queue, dealloc_queue,
           snapshot, phase, panicked, allocated, doubled>>

NoSnapshot == [gauge |-> 1, recyclable |-> {}]

EallocInit ==
  /\ flush_mark = FALSE
  /\ global_gauge = 1
  /\ recyclable = {}
  /\ recycler = [s \in Shard |-> {}]
  /\ reuse_queue = [s \in Shard |-> {}]
  /\ dealloc_queue = << >>
  /\ snapshot = NoSnapshot
  /\ phase = "offline"
  /\ panicked = FALSE
  /\ allocated = {}
  /\ doubled = {}

-----------------------------------------------------------------------------

Distance(i, j) == IF i < j THEN j - i ELSE i - j

(* Recycler::poll of a BTreeSet: the first id without a hint (near = 0),   *)
(* otherwise the nearest one, the smaller of two equally near.             *)
Polls(ids, near, id) ==
  /\ id \in ids
  /\ \A j \in ids : IF near = 0 \/ Distance(j, near) = Distance(id, near)
                    THEN id <= j
                    ELSE Distance(id, near) < Distance(j, near)

(* A caller gets the id, whether or not another one has it.                *)
HandOut(id) ==
  /\ allocated' = allocated \cup {id}
  /\ doubled' = doubled \cup ({id} \cap allocated)

(* Mutant: the id stays in the recycler.                                   *)
MutReuse(s, near) ==
  \E id \in recycler[s] :
    /\ Polls(recycler[s], near, id)
    /\ HandOut(id)
    /\ UNCHANGED <<recycler, global_gauge, panicked>>

Reuse(s, near) ==
  \E id \in recycler[s] :
    /\ Polls(recycler[s], near, id)
    /\ recycler' = [recycler EXCEPT ![s] = @ \ {id}]
    /\ HandOut(id)
    /\ UNCHANGED <<global_gauge, panicked>>

(* fetch_add wraps, and the id made from a wrapped gauge is refused with   *)
(* "integer overflow", one call late.                                      *)
FetchAdd ==
  /\ global_gauge' = IF global_gauge = MaxId THEN 0 ELSE global_gauge + 1
  /\ IF global_gauge = 0
     THEN panicked' = TRUE /\ UNCHANGED <<allocated, doubled>>
     ELSE HandOut(global_gauge) /\ UNCHANGED panicked
  /\ UNCHANGED recycler

(* Shard::allocate, the method of the trait that a worker thread calls.    *)
(* Other threads go on when one has panicked.                              *)
AllocateOnline(s, near) ==
  /\ phase = "online"
  /\ IF recycler[s] # {} THEN Reuse(s, near) ELSE FetchAdd
  /\ UNCHANGED <<flush_mark, recyclable, reuse_queue, dealloc_queue, snapshot, phase>>

(* Ealloc::allocate goes through the shard's inherent method, which also   *)
(* queues a reused id.                                                     *)
AllocateOffline(s, near) ==
  /\ phase = "offline" /\ ~panicked
  /\ IF recycler[s] # {}
     THEN /\ Reuse(s, near)
          /\ reuse_queue' = [reuse_queue EXCEPT ![s] = @ \cup (allocated' \ allocated)]
     ELSE FetchAdd /\ UNCHANGED reuse_queue
  /\ UNCHANGED <<flush_mark, recyclable, dealloc_queue, snapshot, phase>>

(* World::delete between cycles, which first calls mark_need_flush, and    *)
(* the deletions run after the join.                                       *)
QueueDeallocate(id) ==
  /\ phase \in {"offline", "joined"} /\ ~panicked
  /\ id \in allocated
  /\ dealloc_queue' = Append(dealloc_queue, id)
  /\ allocated' = allocated \ {id}
  /\ flush_mark' = (flush_mark \/ phase = "offline")
  /\ UNCHANGED <<global_gauge, recyclable, recycler, reuse_queue, snapshot, phase, panicked,
                 doubled>>

-----------------------------------------------------------------------------

(* The position of each shard when they are sorted by their sizes.         *)
Rank ==
  LET size == [s \in Shard |-> Cardinality(recycler[s])]
  IN  [s \in Shard |->
         Cardinality({u \in Shard : size[u] < size[s] \/ (size[u] = size[s] /\ u <= s)})]

(* How many of the queued ids each shard is given.                         *)
Take ==
  LET rank    == Rank
      sizes   == SortSeq([s \in Shard |-> Cardinality(recycler[s])], <)
      targets == DistributeSorted(sizes, Len(dealloc_queue))
  IN  [s \in Shard |-> targets[rank[s]] - sizes[rank[s]]]

(* The queue is cut into one slice per shard, in the order of their ranks; *)
(* to[i] is the shard that gets the i-th id.                               *)
IsSlicing(to, take, rank) ==
  /\ \A s \in Shard : Cardinality({i \in DOMAIN to : to[i] = s}) = take[s]
  /\ \A i, j \in DOMAIN to : i <= j => rank[to[i]] <= rank[to[j]]

(* Mutant: the queue is not cleared.                                       *)
MutFlushing ==
  /\ flush_mark' = FALSE
  /\ recyclable' = (recyclable \cup Range(dealloc_queue)) \ UNION Range(reuse_queue)
  /\ reuse_queue' = [s \in Shard |-> {}]
  /\ LET take == Take
         rank == Rank
     IN \E to \in [DOMAIN dealloc_queue -> Shard] :
          /\ IsSlicing(to, take, rank)
          /\ recycler' = [s \in Shard |->
               recycler[s] \cup {dealloc_queue[i] : i \in {j \in DOMAIN to : to[j] = s}}]
  /\ UNCHANGED dealloc_queue

(* Ealloc::flush.                                                          *)
Flushing ==
  /\ flush_mark' = FALSE
  /\ recyclable' = (recyclable \cup Range(dealloc_queue)) \ UNION Range(reuse_queue)
  /\ reuse_queue' = [s \in Shard |-> {}]
  /\ LET take == Take
         rank == Rank
     IN \E to \in [DOMAIN dealloc_queue -> Shard] :
          /\ IsSlicing(to, take, rank)
          /\ recycler' = [s \in Shard |->
               recycler[s] \cup {dealloc_queue[i] : i \in {j \in DOMAIN to : to[j] = s}}]
  /\ dealloc_queue' = << >>

(* World::execute begins with flush_if_marked.                             *)
FlushIfMarked ==
  /\ phase = "offline" /\ ~panicked
  /\ phase' = "starting"
  /\ IF flush_mark
     THEN Flushing
     ELSE UNCHANGED <<flush_mark, recyclable, recycler, reuse_queue, dealloc_queue>>
  /\ UNCHANGED <<global_gauge, snapshot, panicked, allocated, doubled>>

(* Map::shards hands out the shards with a snapshot.  The load of a gauge  *)
(* that has wrapped panics with "invalid state".                           *)
Shards ==
  /\ phase = "starting" /\ ~panicked
  /\ IF global_gauge = 0
     THEN panicked' = TRUE /\ UNCHANGED <<snapshot, phase>>
     ELSE /\ snapshot' = [gauge |-> global_gauge, recyclable |-> recyclable]
          /\ phase' = "online"
          /\ UNCHANGED panicked
  /\ UNCHANGED <<flush_mark, global_gauge, recyclable, recycler, reuse_queue, dealloc_queue,
                 allocated, doubled>>

(* The threads have returned and drop(ealloc_shards).                      *)
Join ==
  /\ phase = "online" /\ ~panicked
  /\ phase' = "joined"
  /\ snapshot' = NoSnapshot
  /\ UNCHANGED <<flush_mark, global_gauge, recyclable, recycler, reuse_queue, dealloc_queue,
                 panicked, allocated, doubled>>

(* The flush at the end of the cycle.                                      *)
Flush ==
  /\ phase = "joined" /\ ~panicked
  /\ phase' = "offline"
  /\ Flushing
  /\ UNCHANGED <<global_gauge, snapshot, panicked, allocated, doubled>>

EallocNext ==
  \/ \E s \in Shard, near \in 0..MaxId : AllocateOnline(s, near) \/ AllocateOffline(s, near)
  \/ \E id \in Id : QueueDeallocate(id)
  \/ FlushIfMarked \/ Shards \/ Join \/ Flush

EallocSpec == EallocInit /\ [][EallocNext]_evars

-----------------------------------------------------------------------------

(* The ids the gauge has passed; all of them once it has wrapped.          *)
Issued == IF global_gauge = 0 THEN Id ELSE 1..(global_gauge - 1)

(* The fields stay in their types, and what snapshots take for holes lies  *)
(* below the gauge, so that iter_gaps yields no reversed range.            *)
EallocTypeOK ==
  /\ flush_mark \in BOOLEAN
  /\ global_gauge \in 0..MaxId
  /\ recycler \in [Shard -> SUBSET Id]
  /\ reuse_queue \in [Shard -> SUBSET Id]
  /\ dealloc_queue \in Seq(Id)
  /\ phase \in {"offline", "starting", "online", "joined"}
  /\ panicked \in BOOLEAN
  /\ allocated \subseteq Id /\ doubled \subseteq Id
  /\ ~panicked => recyclable \subseteq Issued

(* Every id the gauge has passed is in exactly one place: with a caller,   *)
(* once in the queue, or in the recycler of one shard.  None is lost and   *)
(* none can be handed out twice, however threads, deletions and flushes    *)
(* are interleaved.                                                        *)
IdsInOnePlace ==
  ~panicked =>
    /\ Issued = allocated \cup Range(dealloc_queue) \cup UNION {recycler[s] : s \in Shard}
    /\ \A i, j \in DOMAIN dealloc_queue : dealloc_queue[i] = dealloc_queue[j] => i = j
    /\ allocated \cap Range(dealloc_queue) = {}
    /\ \A s \in Shard : recycler[s] \cap (allocated \cup Range(dealloc_queue)) = {}
    /\ \A s, u \in Shard : s # u => recycler[s] \cap recycler[u] = {}

(* mark_need_flush and the flush after the join leave nothing queued when  *)
(* the threads of a cycle start.                                           *)
FlushedWhenOnline == phase \in {"starting", "online"} => dealloc_queue = << >>

(* "take >= 0 assuming correctness of distribute_sorted", and "try to      *)
(* distribute `ids` to all shards evenly": whatever the shards hold and    *)
(* the queue has grown to, a flush deals out every id of the queue, and a  *)
(* shard that is given ids ends up at most one above any other.            *)
DistributesEvenly ==
  LET take == Take
      size == [s \in Shard |-> Cardinality(recycler[s]) + take[s]]
  IN /\ \A s \in Shard : take[s] >= 0
     /\ FoldFunction(+, 0, take) = Len(dealloc_queue)
     /\ \A s, u \in Shard : take[s] > 0 => size[s] <= size[u] + 1

(* The allocator keeps the promises of the trait: no thread is handed an   *)
(* id that another caller has or that is queued, by reuse or by the gauge, *)
(* until "integer overflow" has told that the id type is exhausted.        *)
Pool == INSTANCE IdPool WITH returned <- dealloc_queue
ImplementsPool == Pool!PoolInit /\ [][Pool!PoolNext \/ panicked]_(Pool!pool)

(* What the threads of a cycle iterate over: iter_gaps.                    *)
SnapshotIds == {i \in Id : i < snapshot.gauge} \ snapshot.recyclable

-----------------------------------------------------------------------------
(* What the documentation or an assertion says and the code does not       *)
(* always keep; README.md tells in which executions.                       *)

(* "the iterator describe the state after the previous tick completes":    *)
(* when a cycle starts, every allocated entity is in the snapshot ...      *)
SnapshotCovers == [][phase' = "online" /\ phase # "online" => allocated \subseteq SnapshotIds']_evars

(* ... and the snapshot has no others.                                     *)
SnapshotOnlyAllocated ==
  [][phase' = "online" /\ phase # "online" => SnapshotIds' \subseteq allocated]_evars

=============================================================================
