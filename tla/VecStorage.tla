----------------------------- MODULE VecStorage -----------------------------
(***************************************************************************)
(* The storage that is indexed by entity id (src/storage/vec.rs): a bit    *)
(* per index that says whether there is a component, and an array of       *)
(* possibly uninitialised components, each grown when it is written to;    *)
(* and its partitions, windows on both arrays.  Index i is at i + 1 of the *)
(* sequences.                                                              *)
(***************************************************************************)
EXTENDS SequencesExt

CONSTANTS
  MaxId,    \* bound: the largest entity id
  Value,    \* the values of the component type
  NoComp,   \* None
  Uninit    \* a slot of the array that holds no value

Id == 1..MaxId

VARIABLES
  cardinality, bits, data,
  parts,      \* the partitions that borrow the storage
  returned,   \* what the last call of set returned
  panicked    \* whether a partition panicked

arrays == <<cardinality, bits, data>>
vec == <<arrays, parts, returned, panicked>>

Partition == [offset : 0..(MaxId + 1), bits : 0..(MaxId + 1), data : 0..(MaxId + 1)]

VecInit ==
  /\ cardinality = 0 /\ bits = << >> /\ data = << >>
  /\ parts = {} /\ returned = NoComp /\ panicked = FALSE

Bit(index) == index < Len(bits) /\ bits[index + 1]

MutGet(id) == IF id < Len(data) THEN data[id + 1] ELSE NoComp

(* VecStorage::get; a slot is read only behind its bit.                    *)
Get(id) == IF Bit(id) THEN data[id + 1] ELSE NoComp

(* resize and resize_with, where the array is too short.                   *)
Resized(array, index, fill) ==
  IF Len(array) <= index
    THEN [i \in 1..(index + 1) |-> IF i <= Len(array) THEN array[i] ELSE fill]
    ELSE array

SetBit(index, bit) ==
  /\ bits' = [Resized(bits, index, FALSE) EXCEPT ![index + 1] = bit]
  /\ cardinality' = cardinality - (IF Bit(index) THEN 1 ELSE 0) + (IF bit THEN 1 ELSE 0)

MutSet(id, new) ==
  /\ parts = {}
  /\ returned' = Get(id)
  /\ SetBit(id, Bit(id) \/ new # NoComp)
  /\ data' = IF new # NoComp THEN [Resized(data, id, Uninit) EXCEPT ![id + 1] = new]
             ELSE IF Bit(id) THEN [data EXCEPT ![id + 1] = Uninit]
             ELSE data
  /\ UNCHANGED <<parts, panicked>>

(* VecStorage::set: the old value is moved out of its slot.                *)
Set(id, new) ==
  /\ parts = {}
  /\ returned' = Get(id)
  /\ SetBit(id, new # NoComp)
  /\ data' = IF new # NoComp THEN [Resized(data, id, Uninit) EXCEPT ![id + 1] = new]
             ELSE IF Bit(id) THEN [data EXCEPT ![id + 1] = Uninit]
             ELSE data
  /\ UNCHANGED <<parts, panicked>>

(* VecStorage::as_partition, as_partition_chunk.                           *)
AsPartition ==
  /\ parts = {}
  /\ parts' = {[offset |-> 0, bits |-> Len(bits), data |-> Len(data)]}
  /\ UNCHANGED <<arrays, returned, panicked>>

(* The bits and the array that a partition sees.                           *)
BitsOf(part) == SubSeq(bits, part.offset + 1, part.offset + part.bits)
DataOf(part) == SubSeq(data, part.offset + 1, part.offset + part.data)

MutLeft(part, index) ==
  IF index > part.bits THEN part ELSE [part EXCEPT !.bits = index]

(* The two sides of a split; past the bits the right side is empty and the *)
(* left side keeps what it has.                                            *)
Left(part, index) ==
  IF index > part.bits THEN part ELSE [part EXCEPT !.bits = index, !.data = index]

Right(part, index) ==
  IF index > part.bits
    THEN [offset |-> part.offset + index, bits |-> 0, data |-> 0]
    ELSE [offset |-> part.offset + index, bits |-> part.bits - index, data |-> part.data - index]

(* Taking the right side of the array fails if it is shorter than that.    *)
SplitFails(part, index) == index <= part.bits /\ index > part.data

(* StoragePartition::split_out at an entity the partition may have.        *)
SplitOut(part, entity) ==
  LET index == entity - part.offset
  IN /\ part \in parts /\ entity >= part.offset
     /\ IF SplitFails(part, index)
          THEN panicked' = TRUE /\ UNCHANGED parts
          ELSE /\ parts' = (parts \ {part}) \cup {Left(part, index), Right(part, index)}
               /\ UNCHANGED panicked
     /\ UNCHANGED <<arrays, returned>>

(* StoragePartition::into_mut: whether there is a component to refer to.   *)
Reaches(part, entity) ==
  /\ entity >= part.offset
  /\ entity - part.offset < part.bits
  /\ bits[part.offset + (entity - part.offset) + 1]

(* A write through a reference from get_mut, get_many_mut or iter_mut of a *)
(* partition.                                                              *)
Write(part, entity, new) ==
  /\ part \in parts /\ Reaches(part, entity)
  /\ data' = [data EXCEPT ![part.offset + (entity - part.offset) + 1] = new]
  /\ UNCHANGED <<cardinality, bits, parts, returned, panicked>>

(* A partition goes out of scope.                                          *)
Release(part) ==
  /\ part \in parts
  /\ parts' = parts \ {part}
  /\ UNCHANGED <<arrays, returned, panicked>>

VecNext ==
  /\ ~panicked
  /\ \/ \E id \in Id, new \in Value \cup {NoComp} : Set(id, new)
     \/ AsPartition
     \/ \E part \in parts :
          \/ \E entity \in Id \cup {MaxId + 1} : SplitOut(part, entity)
          \/ \E entity \in Id, new \in Value : Write(part, entity, new)
          \/ Release(part)

VecSpec == VecInit /\ [][VecNext]_vec

-----------------------------------------------------------------------------
MutRestOf(array, index) == SubSeq(array, index + 1, Len(array))

(* The last part of trisplit, after the slot of the zero.                  *)
RestOf(array, index) == SubSeq(array, index + 2, Len(array))

(* IterChunks::next: a chunk ends at each zero and at the end of the bits, *)
(* and the array is cut along.                                             *)
Chunks(bitslice, array) ==
  LET zeros == SelectSeq([i \in 1..(Len(bitslice) + 1) |-> i - 1],
                         LAMBDA i : i = Len(bitslice) \/ ~bitslice[i + 1])
      Cut(acc, next_zero) ==
        LET n == Min({next_zero - acc.first_one, Len(acc.rest)})
        IN [first_one |-> next_zero + 1,
            rest |-> RestOf(acc.rest, n),
            chunks |-> IF acc.first_one = next_zero THEN acc.chunks
                       ELSE Append(acc.chunks, [start |-> acc.first_one,
                                                slice |-> SubSeq(acc.rest, 1, n)])]
  IN FoldLeft(Cut, [first_one |-> 0, rest |-> array, chunks |-> << >>], zeros).chunks

-----------------------------------------------------------------------------
VecTypeOK ==
  /\ cardinality \in 0..MaxId
  /\ bits \in Seq(BOOLEAN) /\ Len(bits) <= MaxId + 1
  /\ data \in Seq(Value \cup {Uninit}) /\ Len(data) <= MaxId + 1
  /\ parts \subseteq Partition
  /\ returned \in Value \cup {NoComp, Uninit}
  /\ panicked \in BOOLEAN

(* The unsafe blocks read initialised components only and "bits mismatch"  *)
(* is never raised: behind every bit that is set there is a value, and     *)
(* cardinality counts these bits.                                          *)
BitsMatch ==
  /\ \A i \in DOMAIN bits : bits[i] => i <= Len(data) /\ data[i] # Uninit
  /\ cardinality = Cardinality({i \in DOMAIN bits : bits[i]})

(* A partition that cannot be split at an entity has no component there or *)
(* further on, so a split fails only where the right side would be empty.  *)
FailedSplitsLoseNothing ==
  \A part \in parts, entity \in Id \cup {MaxId + 1} :
    entity >= part.offset /\ SplitFails(part, entity - part.offset) =>
      \A id \in entity..MaxId : ~Reaches(part, id)

(* What the threads of a parallel iteration rely on: two partitions never  *)
(* reach the same slot of the array, nor one outside of it.                *)
Slots(part) == (part.offset + 1)..(part.offset + part.data)
NoAliasing ==
  /\ \A part \in parts : Slots(part) \subseteq DOMAIN data
  /\ \A p, q \in parts : p # q => Slots(p) \cap Slots(q) = {}

(* Iterating in chunks, over the storage or a partition of it, yields each *)
(* of its components once, with its id, in nonempty chunks that are as     *)
(* long as possible and in order.                                          *)
AreRuns(chunks, offset, reached) ==
  /\ \A k \in DOMAIN chunks : chunks[k].slice # << >>
  /\ \A k \in 1..(Len(chunks) - 1) : chunks[k].start + Len(chunks[k].slice) < chunks[k + 1].start
  /\ UNION {{<<offset + chunks[k].start + i - 1, chunks[k].slice[i]>> :
              i \in DOMAIN chunks[k].slice} : k \in DOMAIN chunks}
       = {<<id, Get(id)>> : id \in reached}

ChunksAreRuns ==
  /\ AreRuns(Chunks(bits, data), 0, {id \in Id : Bit(id)})
  /\ \A part \in parts :
       AreRuns(Chunks(BitsOf(part), DataOf(part)), part.offset,
               {id \in Id : Reaches(part, id)})

-----------------------------------------------------------------------------
(* What the documentation or an assertion says and the code does not       *)
(* always keep; README.md tells in which executions.                       *)

(* "index < self.data.len()": an entity id that a partition may be split   *)
(* at is never past the end of its array.                                  *)
SplitsFit == ~panicked

=============================================================================
