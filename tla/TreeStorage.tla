---------------------------- MODULE TreeStorage -----------------------------
(***************************************************************************)
(* The storage in a B-tree map (src/storage/tree.rs).  Its partitions all  *)
(* refer to the whole map and keep out of each other's way by the bounds   *)
(* that each of them checks.                                               *)
(***************************************************************************)
EXTENDS Naturals

CONSTANTS
  MaxId,    \* bound: the largest entity id
  Value,    \* the values of the component type
  NoComp    \* None

Id == 1..MaxId
Unbounded == 0   \* None as a bound, which is never an entity

VARIABLES
  data,       \* the map, NoComp where it has no entry
  parts,      \* the partitions that borrow the storage
  returned,   \* what the last call of set returned
  panicked    \* whether a partition panicked

tree == <<data, parts, returned, panicked>>

Bound == 0..(MaxId + 1)

TreeInit ==
  /\ data = [id \in Id |-> NoComp] /\ parts = {} /\ returned = NoComp /\ panicked = FALSE

(* Tree::set, an insert or a remove.                                       *)
Set(id, new) ==
  /\ parts = {}
  /\ returned' = data[id]
  /\ data' = [data EXCEPT ![id] = new]
  /\ UNCHANGED <<parts, panicked>>

(* Tree::as_partition.                                                     *)
AsPartition ==
  /\ parts = {}
  /\ parts' = {[lower_bound |-> Unbounded, upper_bound |-> Unbounded]}
  /\ UNCHANGED <<data, returned, panicked>>

MutInBounds(part, entity) ==
  /\ part.lower_bound # Unbounded => entity >= part.lower_bound
  /\ part.upper_bound # Unbounded => entity <= part.upper_bound

(* StoragePartition::assert_bounds, and the range that into_iter_mut       *)
(* iterates.                                                               *)
InBounds(part, entity) ==
  /\ part.lower_bound # Unbounded => entity >= part.lower_bound
  /\ part.upper_bound # Unbounded => entity < part.upper_bound

(* The two sides of a split.                                               *)
Right(part, entity) == [part EXCEPT !.lower_bound = entity]
Left(part, entity) == [part EXCEPT !.upper_bound = entity]

(* StoragePartition::split_out.                                            *)
SplitOut(part, entity) ==
  /\ part \in parts
  /\ IF InBounds(part, entity)
       THEN /\ parts' = (parts \ {part}) \cup {Left(part, entity), Right(part, entity)}
            /\ UNCHANGED panicked
       ELSE panicked' = TRUE /\ UNCHANGED parts
  /\ UNCHANGED <<data, returned>>

(* StoragePartition::into_mut: whether there is a component to refer to.   *)
Reaches(part, entity) == InBounds(part, entity) /\ data[entity] # NoComp

(* A write through a reference from get_mut, get_many_mut or iter_mut of a *)
(* partition.                                                              *)
Write(part, entity, new) ==
  /\ part \in parts /\ Reaches(part, entity)
  /\ data' = [data EXCEPT ![entity] = new]
  /\ UNCHANGED <<parts, returned, panicked>>

(* A partition goes out of scope.                                          *)
Release(part) ==
  /\ part \in parts
  /\ parts' = parts \ {part}
  /\ UNCHANGED <<data, returned, panicked>>

TreeNext ==
  /\ ~panicked
  /\ \/ \E id \in Id, new \in Value \cup {NoComp} : Set(id, new)
     \/ AsPartition
     \/ \E part \in parts :
          \/ \E entity \in Id \cup {MaxId + 1} : SplitOut(part, entity)
          \/ \E entity \in Id, new \in Value : Write(part, entity, new)
          \/ Release(part)

TreeSpec == TreeInit /\ [][TreeNext]_tree

-----------------------------------------------------------------------------
TreeTypeOK ==
  /\ data \in [Id -> Value \cup {NoComp}]
  /\ parts \subseteq [lower_bound : Bound, upper_bound : Bound]
  /\ returned \in Value \cup {NoComp}
  /\ panicked \in BOOLEAN

(* "StoragePartition locks all keys ... exclusively": an entity is in the  *)
(* bounds of at most one partition, whether it has a component or not.     *)
LocksExclusively ==
  \A p, q \in parts : p # q => \A entity \in Id : ~(InBounds(p, entity) /\ InBounds(q, entity))

=============================================================================
