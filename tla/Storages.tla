------------------------------ MODULE Storages ------------------------------
(***************************************************************************)
(* A component storage as its users meet it: either of the two in          *)
(* src/storage/, behind the traits of src/storage.rs.                      *)
(***************************************************************************)
EXTENDS Naturals

CONSTANTS
  MaxId,    \* bound: the largest entity id
  Value,    \* the values of the component type
  NoComp,   \* None
  Uninit    \* a slot of the vector that holds no value

ASSUME StoragesAssumption ==
  /\ MaxId \in Nat \ {0}
  /\ NoComp \notin Value /\ Uninit \notin Value /\ Uninit # NoComp

VARIABLES kind, cardinality, bits, data, parts, returned, panicked

storages == <<kind, cardinality, bits, data, parts, returned, panicked>>

Vec == INSTANCE VecStorage
Tree == INSTANCE TreeStorage

StoragesInit ==
  \/ kind = "vec" /\ Vec!VecInit
  \/ kind = "tree" /\ Tree!TreeInit /\ cardinality = 0 /\ bits = << >>

StoragesNext ==
  /\ UNCHANGED kind
  /\ \/ kind = "vec" /\ Vec!VecNext
     \/ kind = "tree" /\ Tree!TreeNext /\ UNCHANGED <<cardinality, bits>>

StoragesSpec == StoragesInit /\ [][StoragesNext]_storages

-----------------------------------------------------------------------------
Reached(part) ==
  {id \in Vec!Id : IF kind = "vec" THEN Vec!Reaches(part, id) ELSE Tree!Reaches(part, id)}

(* Either storage keeps the contract of the traits: whatever is set, split *)
(* and written, it is a map, and a component is within reach of at most    *)
(* one partition.                                                          *)
Map == INSTANCE Storage WITH
  comp <- [id \in Vec!Id |-> IF kind = "vec" THEN Vec!Get(id) ELSE data[id]],
  loans <- {Reached(part) : part \in parts} \ {{}}

ImplementsStorage == Map!StorageSpec

(* The unsafe code of the partitions relies on it: two of them never reach *)
(* one slot of the vector, nor one outside of it, and never have one       *)
(* entity within their bounds, whether it has a component or not.          *)
PartitionsApart == IF kind = "vec" THEN Vec!NoAliasing ELSE Tree!LocksExclusively

(* The unsafe code of the vector reads initialised components only, "bits  *)
(* mismatch" is never raised, and where split_out takes more than the      *)
(* array of a partition has, there is no component to lose.                *)
ReadsInitialised == kind = "vec" => Vec!BitsMatch /\ Vec!FailedSplitsLoseNothing

(* Iterating over the vector or a partition of it in chunks yields each    *)
(* component once, with its id, in chunks as long as possible.             *)
IteratesInRuns == kind = "vec" => Vec!ChunksAreRuns

=============================================================================
