------------------------------ MODULE Storage -------------------------------
(***************************************************************************)
(* What a component storage promises, the traits Storage, Access and       *)
(* Partition (src/storage.rs): a map from entities to components.  While   *)
(* partitions borrow it, no component is added or removed, and every       *)
(* component is within reach of at most one of them.                       *)
(***************************************************************************)
EXTENDS Naturals

CONSTANTS
  MaxId,    \* bound: the largest entity id
  Value,    \* the values of the component type
  NoComp    \* None

Id == 1..MaxId

VARIABLES
  comp,      \* the component of each entity
  loans,     \* for each partition that reaches components, the entities they are of
  returned   \* what the last call of set returned

storage == <<comp, loans, returned>>

Present == {id \in Id : comp[id] # NoComp}

StorageInit == comp = [id \in Id |-> NoComp] /\ loans = {} /\ returned = NoComp

(* Storage::set, which needs the storage itself.                           *)
StorageSet(id, new) ==
  /\ loans = {}
  /\ comp' = [comp EXCEPT ![id] = new]
  /\ returned' = comp[id]
  /\ UNCHANGED loans

(* Storage::as_partition.                                                  *)
StorageBorrow ==
  /\ loans = {}
  /\ loans' = {Present} \ {{}}
  /\ UNCHANGED <<comp, returned>>

(* Partition::split_out.                                                   *)
StorageSplit(loan, at) ==
  /\ loans' = (loans \ {loan}) \cup ({{id \in loan : id < at}, {id \in loan : id >= at}} \ {{}})
  /\ UNCHANGED <<comp, returned>>

(* A write through what get_mut, into_mut or an iterator of a partition    *)
(* returned.                                                               *)
StorageWrite(loan, id, new) ==
  /\ id \in loan
  /\ comp' = [comp EXCEPT ![id] = new]
  /\ UNCHANGED <<loans, returned>>

(* A partition goes out of scope.                                          *)
StorageRelease(loan) == loans' = loans \ {loan} /\ UNCHANGED <<comp, returned>>

StorageNext ==
  \/ \E id \in Id, new \in Value \cup {NoComp} : StorageSet(id, new)
  \/ StorageBorrow
  \/ \E loan \in loans :
       \/ \E at \in Id \cup {MaxId + 1} : StorageSplit(loan, at)
       \/ \E id \in loan, new \in Value : StorageWrite(loan, id, new)
       \/ StorageRelease(loan)

StorageSpec == StorageInit /\ [][StorageNext]_storage

=============================================================================
