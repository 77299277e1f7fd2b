----------------------------- MODULE DiscrimMap -----------------------------
(***************************************************************************)
(* The maps from discriminants to locked storages inside an accessor of    *)
(* isotopes (src/comp/discrim.rs).  An accessor of all isotopes has one of *)
(* the four implementations of FullMap, which grows as discriminants are   *)
(* met; an accessor of some isotopes has a list, whose keys are positions. *)
(* A discriminant is its into_usize, and the storage that an inserter      *)
(* makes for a discriminant is identified with that discriminant.  A panic *)
(* ends the system, and the accessor with it.                              *)
(***************************************************************************)
EXTENDS SequencesExt

CONSTANTS
  Discrim,         \* the discriminants; from_usize panics on any other number
  MaxMany,         \* the most keys of one split
  Kinds            \* "linear", "sorted", "bounded" and "array" maps, or a "list"

ASSUME DiscrimMapAssumption ==
  /\ Discrim \subseteq Nat /\ Discrim # {} /\ IsFiniteSet(Discrim)
  /\ MaxMany \in Nat \ {0}
  /\ Kinds \subseteq {"linear", "sorted", "bounded", "array", "list"}

VARIABLES
  kind,
  vec,         \* slots <<discriminant, storage>>; of the indexed kinds <<storage>> or << >>
  call,        \* the last operation and its keys
  before,      \* the keys the map held when it was called
  got,         \* the storages it returned
  panicked

dvars == <<kind, vec, call, before, got, panicked>>

Indexed == kind \in {"bounded", "array"}
ArrayLen == Max(Discrim) + 1

(* The keys of a map are discriminants, those of a list are positions.     *)
Key == IF kind = "list" THEN 0..Cardinality(Discrim) ELSE Discrim

(* The argument of a split.                                                *)
Many == UNION {[1..n -> Key] : n \in 1..MaxMany}

-----------------------------------------------------------------------------

Stored(slot) == slot[Len(slot)]

(* The slot of a key, from 1, or 0 if there is none: by position() in the  *)
(* linear map and by binary_search_by_key in the sorted one, whose answer  *)
(* is the same in a slice sorted without duplicates ...                    *)
SearchPosition(v, d) == SelectInSeq(v, LAMBDA slot : slot[1] = d)

(* ... and by get() in the others.                                         *)
SlotPosition(v, k) == IF k + 1 \in DOMAIN v /\ v[k + 1] # << >> THEN k + 1 ELSE 0

Position(v, k) ==
  IF kind \in {"linear", "sorted"} THEN SearchPosition(v, k) ELSE SlotPosition(v, k)

(* get_by and get_mut_by.                                                  *)
GetBy(v, k) == IF Position(v, k) = 0 THEN << >> ELSE <<Stored(v[Position(v, k)])>>

Known(v) == {k \in Key : GetBy(v, k) # << >>}

(* iter_mapped: the discriminant and the storage of every entry.           *)
IterMapped(v) ==
  IF Indexed
  THEN LET filled == SelectSeq([i \in DOMAIN v |-> i], LAMBDA i : v[i] # << >>)
       IN  [j \in DOMAIN filled |-> <<filled[j] - 1, Stored(v[filled[j]])>>]
  ELSE v

(* resize_with, called only on a vector that is too short.                 *)
Resized(v, len) == IF Len(v) < len THEN v \o [i \in 1..(len - Len(v)) |-> << >>] ELSE v

(* Mutant: a missing key belongs one place later.                          *)
MutInsertionPoint(v, d) == Min({2 + Len(SelectSeq(v, LAMBDA slot : slot[1] < d)), 1 + Len(v)})

(* Where binary_search_by_key says that a missing key belongs.             *)
InsertionPoint(v, d) == 1 + Len(SelectSeq(v, LAMBDA slot : slot[1] < d))

(* A missing entry is inserted: the map then, and the index of the slot.   *)
(* LinearVecMap, SortedVecMap, and the indexed kinds (an array is as long  *)
(* as it needs to be).                                                     *)
PushEntry(v, d) == [vec |-> Append(v, <<d, d>>), index |-> Len(v) + 1]

InsertEntry(v, d) ==
  LET at == InsertionPoint(v, d) IN [vec |-> InsertAt(v, at, <<d, d>>), index |-> at]

FillEntry(v, d) == [vec |-> [Resized(v, d + 1) EXCEPT ![d + 1] = <<d>>], index |-> d + 1]

Entry(v, d) ==
  CASE Position(v, d) # 0 -> [vec |-> v, index |-> Position(v, d)]
    [] Position(v, d) = 0 /\ kind = "linear" -> PushEntry(v, d)
    [] Position(v, d) = 0 /\ kind = "sorted" -> InsertEntry(v, d)
    [] Position(v, d) = 0 /\ Indexed -> FillEntry(v, d)

(* discrims.map(..): the indices are collected while entries are inserted. *)
Entries(v, ds) ==
  FoldLeft(LAMBDA acc, d : LET e == Entry(acc.vec, d)
                           IN  [vec |-> e.vec, indices |-> Append(acc.indices, e.index)],
           [vec |-> v, indices |-> << >>], ds)

(* Mutant: a key is compared only with the one before it.                  *)
MutDisjoint(keys) == \A i \in 1..(Len(keys) - 1) : keys[i] # keys[i + 1]

(* What split_mut_array asserts.                                           *)
Disjoint(keys) == \A i, j \in DOMAIN keys : keys[i] = keys[j] => i = j

(* split_mut_array: the storages in the slots, or a panic.                 *)
SplitMutArray(v, indices, transformFails) ==
  IF Disjoint(indices) /\ ~transformFails
  THEN got' = [i \in DOMAIN indices |-> Stored(v[indices[i]])] /\ UNCHANGED panicked
  ELSE panicked' = TRUE /\ got' = << >>

-----------------------------------------------------------------------------

(* Set::map for a list, and from_iter over the isotopes known when the     *)
(* accessor is made, in the order of a hash map, for the others.           *)
PairsFrom(ds) == [i \in DOMAIN ds |-> <<ds[i], ds[i]>>]

SlotsFrom(len, ds) == [i \in 1..len |-> IF i - 1 \in Range(ds) THEN <<i - 1>> ELSE << >>]

BoundedFrom(ds) == SlotsFrom(Max({Len(ds)} \cup {d + 1 : d \in Range(ds)}), ds)

FromIter(k, ds) ==
  CASE k \in {"linear", "list"} -> PairsFrom(ds)
    [] k = "sorted"  -> PairsFrom(SortSeq(ds, <))
    [] k = "bounded" -> BoundedFrom(ds)
    [] k = "array"   -> SlotsFrom(ArrayLen, ds)

DiscrimMapInit ==
  /\ kind \in Kinds
  /\ \E n \in 0..Cardinality(Discrim) : \E ds \in [1..n -> Discrim] :
       IsInjective(ds) /\ vec = FromIter(kind, ds)
  /\ call = [op |-> "none", keys |-> << >>]
  /\ before = {} /\ got = << >>
  /\ panicked = FALSE

Called(op, ks) ==
  /\ ~panicked
  /\ call' = [op |-> op, keys |-> ks]
  /\ before' = Known(vec)
  /\ UNCHANGED kind

(* get_by_or_insert, for get_storage and get_storage_mut of all isotopes.  *)
GetByOrInsert(d) ==
  /\ kind # "list"
  /\ Called("insert", <<d>>)
  /\ vec' = Entry(vec, d).vec
  /\ got' = <<Stored(vec'[Entry(vec, d).index])>>
  /\ UNCHANGED panicked

(* get_by_or_insert_array, for the get_storage_many ("many") and           *)
(* get_storage_mut_many ("many_mut") of all isotopes.  The indexed kinds   *)
(* make up the discriminant they tell the transformation from the position *)
(* in the array, not from the key.                                         *)
GetByOrInsertArray(op, ds) ==
  /\ kind # "list"
  /\ Called(op, ds)
  /\ vec' = Entries(vec, ds).vec
  /\ SplitMutArray(vec', Entries(vec, ds).indices,
                   Indexed /\ \E i \in DOMAIN ds : i - 1 \notin Discrim)

(* get_mut_array_by, for the get_storage_many ("get") and                  *)
(* get_storage_mut_many ("get_mut") of some isotopes: a missing key calls  *)
(* on_missing, which panics.                                               *)
GetMutArrayBy(op, ks) ==
  /\ Called(op, ks)
  /\ UNCHANGED vec
  /\ IF Range(ks) \subseteq Known(vec)
     THEN SplitMutArray(vec, [i \in DOMAIN ks |-> Position(vec, ks[i])], FALSE)
     ELSE panicked' = TRUE /\ got' = << >>

DiscrimMapNext ==
  \/ \E d \in Discrim : GetByOrInsert(d)
  \/ \E ks \in Many : \/ \E op \in {"many", "many_mut"} : GetByOrInsertArray(op, ks)
                      \/ \E op \in {"get", "get_mut"} : GetMutArrayBy(op, ks)

DiscrimMapSpec == DiscrimMapInit /\ [][DiscrimMapNext]_dvars

-----------------------------------------------------------------------------

(* Type: slots of the shape of the kind, and the last call and its answer. *)
DiscrimMapTypeOK ==
  /\ kind \in Kinds
  /\ \A i \in DOMAIN vec :
       vec[i] \in IF Indexed THEN {<< >>} \cup {<<d>> : d \in Discrim} ELSE Discrim \X Discrim
  /\ kind = "array" => Len(vec) = ArrayLen
  /\ call.op \in {"none", "insert", "get", "get_mut", "many", "many_mut"}
  /\ Range(call.keys) \cup before \subseteq Key
  /\ Range(got) \subseteq Discrim
  /\ panicked \in BOOLEAN

(* Whatever was inserted in whatever order, a map finds under a            *)
(* discriminant the storage made for it, and iter_mapped yields every      *)
(* entry once: what a search in the sorted vector needs is kept by         *)
(* insertions through both entry points and by from_iter.                  *)
FindsItsOwn ==
  /\ kind # "list" => \A d \in Known(vec) : GetBy(vec, d) = <<d>>
  /\ kind = "sorted" => \A i, j \in DOMAIN vec : i < j => vec[i][1] < vec[j][1]
  /\ IsInjective(IterMapped(vec))
  /\ \A e \in Range(IterMapped(vec)) : e[1] = e[2]

(* A call for mutable references may not repeat a key, and only an         *)
(* accessor of all isotopes makes what is missing.                         *)
Misused == \/ call.op \in {"many_mut", "get_mut"} /\ ~IsInjective(call.keys)
           \/ call.op \in {"get", "get_mut"} /\ ~(Range(call.keys) \subseteq before)

(* A call for shared references may.                                       *)
RepeatedRead == call.op \in {"many", "get"} /\ ~IsInjective(call.keys)

(* A new key after a greater one moves the slot that the greater one got.  *)
Shifted ==
  /\ kind = "sorted" /\ call.op \in {"many", "many_mut"}
  /\ \E i, j \in DOMAIN call.keys :
       i < j /\ call.keys[j] \notin before /\ call.keys[j] < call.keys[i]

Expected == [i \in DOMAIN call.keys |->
              IF kind = "list" THEN vec[call.keys[i] + 1][1] ELSE call.keys[i]]

(* A call answers with the storages of its keys in the order of its keys,  *)
(* and panics exactly when a key of a call for mutable references is       *)
(* repeated or a key is missing that the call may not insert.  The sorted  *)
(* map is held to it only when no new key is smaller than one before it in *)
(* the array, and calls for shared references only when no key is repeated *)
(* (RepeatsAllowed, below).                                                *)
AnswersTheCall ==
  ~Shifted /\ ~RepeatedRead => /\ panicked <=> Misused
                               /\ ~panicked => got = Expected

-----------------------------------------------------------------------------
(* What the documentation or an assertion says and the code does not       *)
(* always keep; README.md tells in which executions.                       *)

(* What StorageMap::get_storage_many is documented to be: "Equivalent to   *)
(* calling [`Self::get_storage`] for each key", here of distinct keys.     *)
SameAsOneByOne ==
  call.op = "many" /\ IsInjective(call.keys) => ~panicked /\ got = Expected

(* "Duplicate keys are allowed because the return type is immutable."      *)
RepeatsAllowed == RepeatedRead /\ ~Misused => ~panicked

=============================================================================
