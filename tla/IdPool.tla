------------------------------- MODULE IdPool -------------------------------
(***************************************************************************)
(* What an entity allocator promises its callers, the trait Ealloc         *)
(* (src/entity/ealloc.rs): an id is handed out to one holder at a time,    *)
(* and one that is given back is not handed out before the next flush.  An *)
(* id handed out a second time would leave the set of allocated ids as it  *)
(* is, so such ids are recorded in doubled; no step of the pool adds one.  *)
(***************************************************************************)
EXTENDS Naturals, Sequences

CONSTANTS MaxId   \* the largest value of the raw id type

ASSUME IdAssumption == MaxId \in Nat \ {0}

(* NonZeroU16, NonZeroU32 or NonZeroU64.                                   *)
Id == 1..MaxId

VARIABLES
  allocated,   \* ids in the hands of the callers
  doubled,     \* history: ids that were handed out while a caller had them
  returned     \* the queue of ids given back since the last flush

pool == <<allocated, doubled, returned>>

PoolInit == allocated = {} /\ doubled = {} /\ returned = << >>

(* Ealloc::allocate and Shard::allocate.                                   *)
PoolAllocate(id) ==
  /\ id \notin allocated
  /\ \A i \in DOMAIN returned : returned[i] # id
  /\ allocated' = allocated \cup {id}
  /\ UNCHANGED <<doubled, returned>>

(* Ealloc::queue_deallocate.                                               *)
PoolDeallocate(id) ==
  /\ id \in allocated
  /\ allocated' = allocated \ {id}
  /\ returned' = Append(returned, id)
  /\ UNCHANGED doubled

(* Ealloc::flush.                                                          *)
PoolFlush == returned' = << >> /\ UNCHANGED <<allocated, doubled>>

PoolNext == (\E id \in Id : PoolAllocate(id) \/ PoolDeallocate(id)) \/ PoolFlush

PoolSpec == PoolInit /\ [][PoolNext]_pool

=============================================================================
