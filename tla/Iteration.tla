----------------------------- MODULE Iteration ------------------------------
(***************************************************************************)
(* Iterating over the entities of an archetype with some of their          *)
(* components (src/system/iter.rs, src/system/access/single.rs).  The ids  *)
(* come from the snapshot of the allocator (src/entity/ealloc/snapshot.rs),*)
(* which the parallel iterators cut into slices as rayon sees fit; of the  *)
(* components that are accessed mutably, a partition is cut along and      *)
(* handed to the thread that gets the slice.                               *)
(*                                                                         *)
(* Tuples and #[zip] structs pass every call on to their fields in turn,   *)
(* so a zip is the sequence of the accessors in it, however nested.        *)
(***************************************************************************)
EXTENDS SequencesExt

CONSTANTS
  Cases,  \* what is iterated and how: the way to iterate, the components, the
          \* gauge of the allocator, and the number of recyclable ids at most
  RawMax  \* the greatest number of the type of ids, 65535 for NonZeroU16

Parallel ==
  {"par_iter", "par_iter_chunks", "par_iter_mut", "par_iter_chunks_mut",
   "par_entities_with", "par_chunks_with", "par_entities_with_chunked"}
Serial == {"entities", "chunks", "entities_with", "chunks_with", "entities_with_chunked"}
Chunked ==
  {"par_iter_chunks", "par_iter_chunks_mut", "par_chunks_with", "par_entities_with_chunked",
   "chunks_with", "entities_with_chunked"}

(* Read or Write, of a component that every entity must have or wrapped in *)
(* Try.                                                                    *)
Member == [write : BOOLEAN, must : BOOLEAN, kind : {"vec", "tree"}]

ASSUME IterationAssumption ==
  /\ Cases \subseteq [mode : Parallel \cup Serial, members : Seq(Member),
                     gauge : 1..RawMax, holes : Nat]
  /\ \A case \in Cases :
       /\ case.mode \in {"entities", "chunks"} <=> case.members = << >>
       /\ case.mode \in {"par_iter", "par_iter_chunks"} =>
            Len(case.members) = 1 /\ ~case.members[1].write /\ case.members[1].must
       /\ case.mode \in {"par_iter_mut", "par_iter_chunks_mut"} =>
            Len(case.members) = 1 /\ case.members[1].write /\ case.members[1].must
       /\ case.mode \in Chunked =>
            \A k \in DOMAIN case.members : case.members[k].must /\ case.members[k].kind = "vec"

MaxId == Max({case.gauge : case \in Cases})
Id == 1..MaxId

VARIABLES
  mode, members,        \* what is called, and on which components
  gauge, recyclable,    \* the snapshot
  has,        \* has[k]: the ids with the k-th component
  tasks,      \* slices, with their zips, not iterated yet
  visited,    \* how often the iteration yielded each id
  found,      \* found[k]: the ids yielded with the k-th component
  panicked

inputs == <<mode, members, gauge, recyclable, has>>
iter == <<inputs, tasks, visited, found, panicked>>

Allocated == {id \in Id : id < gauge /\ id \notin recyclable}

(* How far the arrays of a vector go.  A required component was set for    *)
(* every id below the gauge.  An optional one is taken to have been set    *)
(* for no other ids than those it has; but the deletion of an entity       *)
(* clears it (clear_entry), which makes room for its bit.                  *)
LengthFor(ids) == IF ids = {} THEN 0 ELSE Max(ids) + 1
BitsLen(k) == IF members[k].must /\ gauge > 1 THEN gauge ELSE LengthFor(has[k] \cup recyclable)
DataLen(k) == IF members[k].must /\ gauge > 1 THEN gauge ELSE LengthFor(has[k])

Vec(k) == INSTANCE VecStorage WITH
  Value <- Id, NoComp <- "none", Uninit <- "uninit",
  cardinality <- Cardinality(has[k]),
  bits <- [i \in 1..BitsLen(k) |-> i - 1 \in has[k]],
  data <- [i \in 1..DataLen(k) |-> IF i - 1 \in has[k] THEN i - 1 ELSE "uninit"],
  parts <- {task.zip[k] : task \in tasks}, returned <- "none"

Tree(k) == INSTANCE TreeStorage WITH
  Value <- {"some"}, NoComp <- "none",
  data <- [id \in Id |-> IF id \in has[k] THEN "some" ELSE "none"],
  parts <- {task.zip[k] : task \in tasks}, returned <- "none"

(* A partition of the k-th component: as_partition, split_out, into_mut.   *)
(* A Read has the whole storage and is not split.                          *)
WholePartition(k) ==
  IF members[k].kind = "vec" THEN [offset |-> 0, bits |-> BitsLen(k), data |-> DataLen(k)]
                             ELSE [lower_bound |-> 0, upper_bound |-> 0]

(* Mutant: the left side of a split keeps the whole partition.             *)
MutPartLeft(k, part, at) == part

PartLeft(k, part, at) ==
  IF members[k].kind = "vec" THEN Vec(k)!Left(part, at - part.offset) ELSE Tree(k)!Left(part, at)

PartRight(k, part, at) ==
  IF members[k].kind = "vec" THEN Vec(k)!Right(part, at - part.offset) ELSE Tree(k)!Right(part, at)

PartFails(k, part, at) ==
  IF members[k].kind = "vec" THEN at < part.offset \/ Vec(k)!SplitFails(part, at - part.offset)
                             ELSE ~Tree(k)!InBounds(part, at)

PartReaches(k, part, id) ==
  IF members[k].kind = "vec" THEN Vec(k)!Reaches(part, id) ELSE Tree(k)!Reaches(part, id)

(* The component is asked of the wrong partition, or is missing.           *)
GetFails(k, part, id) ==
  \/ IF members[k].kind = "vec" THEN id < part.offset ELSE ~Tree(k)!InBounds(part, id)
  \/ members[k].must /\ ~PartReaches(k, part, id)

(* Zip::split, and the zip that is left.                                   *)
ZipFails(zip, at) == \E k \in DOMAIN zip : members[k].write /\ PartFails(k, zip[k], at)
ZipLeft(zip, at) ==
  [k \in DOMAIN zip |-> IF members[k].write THEN PartLeft(k, zip[k], at) ELSE zip[k]]
ZipRight(zip, at) ==
  [k \in DOMAIN zip |-> IF members[k].write THEN PartRight(k, zip[k], at) ELSE zip[k]]

-----------------------------------------------------------------------------
Span(start, end) == [start |-> start, end |-> end]
IdsOf(range) == range.start..(range.end - 1)
IsEmpty(range) == range.start = range.end

MutIterGaps(holes) ==
  LET points == <<0>> \o SetToSortSeq(holes, <)
  IN SelectSeq([i \in 1..(Len(points) - 1) |-> Span(points[i] + 1, points[i + 1])],
               LAMBDA range : ~IsEmpty(range))

(* Snapshot::iter_allocated_chunks: the ranges between the recyclable ids. *)
IterGaps(holes) ==
  LET points == <<0>> \o SetToSortSeq(holes, <) \o <<gauge>>
  IN SelectSeq([i \in 1..(Len(points) - 1) |-> Span(points[i] + 1, points[i + 1])],
               LAMBDA range : ~IsEmpty(range))

(* Slice::iter_chunks.  The first range ends at the first recyclable id of *)
(* the snapshot, not of the slice.                                         *)
IterChunks(slice) ==
  LET gaps == SetToSortSeq({id \in recyclable : slice.start <= id /\ id < slice.end}, <)
                \o <<slice.end>>
  IN IF recyclable = {} THEN <<Span(slice.start, slice.end)>>
     ELSE SelectSeq(<<Span(slice.start, Min(recyclable))>>
                      \o [i \in 1..(Len(gaps) - 1) |-> Span(gaps[i] + 1, gaps[i + 1])],
                    LAMBDA range : ~IsEmpty(range))

(* approx_midpoint, which adds in the type of ids.  A sum that the type    *)
(* does not have is a panic, as builds with overflow checks have it.       *)
MidpointFails(slice) == slice.start + slice.end > RawMax
Midpoint(slice) == (slice.start + slice.end) \div 2

(* Slice::midpoint_for_split.                                              *)
IsFar(slice) == MidpointFails(slice) \/ slice.end - Midpoint(slice) >= 8

(* Slice::split_at, and the zip with it.                                   *)
SplitAt(slice, midpt) ==
  <<[slice EXCEPT !.end = midpt, !.zip = ZipLeft(@, midpt)],
    [slice EXCEPT !.start = midpt, !.zip = ZipRight(@, midpt)]>>

-----------------------------------------------------------------------------

(* Bound: the optional components are those of the ids below one, but for  *)
(* one.                                                                    *)
HasOptional ==
  IF \A k \in DOMAIN members : members[k].must THEN {Allocated}
  ELSE {{id \in Allocated : id < below /\ id # but} : below \in 1..gauge, but \in 0..(gauge - 1)}

(* IntoZip::into_zip: as_partition of the components to write.             *)
IterInit ==
  /\ \E case \in Cases :
       /\ mode = case.mode /\ members = case.members /\ gauge = case.gauge
       /\ \E hole \in [1..case.holes -> 0..(gauge - 1)] : recyclable = Range(hole) \ {0}
  /\ \E optional \in HasOptional :
       has = [k \in DOMAIN members |-> IF members[k].must THEN Allocated ELSE optional]
  /\ tasks = {[start |-> 1, end |-> gauge,
               zip |-> [k \in DOMAIN members |-> WholePartition(k)]]}
  /\ visited = [id \in Id |-> 0]
  /\ found = [k \in DOMAIN members |-> {}]
  /\ panicked = FALSE

(* rayon asks for a split or does not; a slice is split if it is long      *)
(* enough.                                                                 *)
Split(task) ==
  /\ mode \in Parallel /\ IsFar(task)
  /\ IF MidpointFails(task) \/ ZipFails(task.zip, Midpoint(task))
       THEN panicked' = TRUE /\ UNCHANGED tasks
       ELSE /\ tasks' = (tasks \ {task}) \cup ToSet(SplitAt(task, Midpoint(task)))
            /\ UNCHANGED panicked
  /\ UNCHANGED <<inputs, visited, found>>

(* A thread runs the iterator of a slice to its end, or to a panic.        *)
Runs(task, ids, comps, fails) ==
  /\ tasks' = tasks \ {task}
  /\ visited' = [id \in Id |-> visited[id] + Cardinality({i \in DOMAIN ids : ids[i] = id})]
  /\ found' = [k \in DOMAIN found |-> found[k] \cup comps[k]]
  /\ panicked' = fails
  /\ UNCHANGED inputs

IdsIn(spans) == FlattenSeq([k \in DOMAIN spans |->
                  [i \in 1..Cardinality(IdsOf(spans[k])) |-> spans[k].start + i - 1]])

(* Single::par_iter.                                                       *)
ParIter(task) ==
  LET ids == IdsIn(IterChunks(task))
  IN /\ mode = "par_iter"
     /\ Runs(task, ids, <<ToSet(ids)>>, \E i \in DOMAIN ids : GetFails(1, task.zip[1], ids[i]))

(* VecStorage::get_chunk, or into_chunk_mut of a partition.                *)
HasChunk(k, part, span) ==
  /\ part.offset <= span.start /\ span.start <= span.end
  /\ span.end - part.offset <= Min({part.bits, part.data})
  /\ IdsOf(span) \subseteq has[k]

(* Single::par_iter_chunks.                                                *)
ParIterChunks(task) ==
  LET spans == IterChunks(task)
  IN /\ mode = "par_iter_chunks"
     /\ Runs(task, IdsIn(spans), <<ToSet(IdsIn(spans))>>,
             \E i \in DOMAIN spans : ~HasChunk(1, task.zip[1], spans[i]))

(* Single::par_iter_mut goes over the partition, not the slice.            *)
ParIterMut(task) ==
  LET ids == SelectSeq(IdsIn(<<Span(1, gauge)>>), LAMBDA id : PartReaches(1, task.zip[1], id))
  IN mode = "par_iter_mut" /\ Runs(task, ids, <<ToSet(ids)>>, FALSE)

(* Single::par_iter_chunks_mut, too.                                       *)
ParIterChunksMut(task) ==
  LET part == task.zip[1]
      chunks == Vec(1)!Chunks(Vec(1)!BitsOf(part), Vec(1)!DataOf(part))
      spans == [i \in DOMAIN chunks |->
                  LET start == part.offset + chunks[i].start
                  IN  Span(start, start + Len(chunks[i].slice))]
      ids == IdsIn(spans)
  IN mode = "par_iter_chunks_mut" /\ Runs(task, ids, <<ToSet(ids)>>, FALSE)

-----------------------------------------------------------------------------

(* Mutant: the component stays in the right side.                          *)
MutTakeSerial(acc, id) ==
  LET left == ZipLeft(acc.zip, id)
  IN IF acc.fails THEN acc
     ELSE IF ZipFails(acc.zip, id) \/ \E k \in DOMAIN left : GetFails(k, left[k], id)
       THEN [acc EXCEPT !.fails = TRUE]
     ELSE [acc EXCEPT !.zip = ZipRight(@, id), !.ids = Append(@, id)]

(* ZipIter::take_serial: the components are taken off the left ends of the *)
(* partitions.                                                             *)
TakeSerial(acc, id) ==
  LET at == id + 1
      left == ZipLeft(acc.zip, at)
  IN IF acc.fails THEN acc
     ELSE IF ZipFails(acc.zip, at) \/ \E k \in DOMAIN left : GetFails(k, left[k], id)
       THEN [acc EXCEPT !.fails = TRUE]
     ELSE [zip |-> ZipRight(acc.zip, at), ids |-> Append(acc.ids, id), fails |-> FALSE,
           comps |-> [k \in DOMAIN left |->
             IF PartReaches(k, left[k], id) THEN acc.comps[k] \cup {id} ELSE acc.comps[k]]]

(* ZipIter::take_serial_chunk.                                             *)
TakeSerialChunk(acc, span) ==
  LET left == ZipLeft(acc.zip, span.end)
  IN IF acc.fails THEN acc
     ELSE IF ZipFails(acc.zip, span.end) \/ \E k \in DOMAIN left : ~HasChunk(k, left[k], span)
       THEN [acc EXCEPT !.fails = TRUE]
     ELSE [zip |-> ZipRight(acc.zip, span.end), ids |-> acc.ids \o IdsIn(<<span>>), fails |-> FALSE,
           comps |-> [k \in DOMAIN left |-> acc.comps[k] \cup IdsOf(span)]]

ZipIter(task) ==
  [zip |-> task.zip, ids |-> << >>, comps |-> [k \in DOMAIN task.zip |-> {}], fails |-> FALSE]

(* The serial iterators go over the entities of the snapshot, the parallel *)
(* ones over the whole of their slice.                                     *)
SpansOf(task) ==
  IF mode \in Serial THEN IterGaps(recyclable) ELSE <<Span(task.start, task.end)>>

(* EntityIterator::entities, entities_with and par_entities_with.          *)
EntitiesWith(task) ==
  /\ mode \in {"entities", "entities_with", "par_entities_with"}
  /\ LET end == FoldLeft(TakeSerial, ZipIter(task), IdsIn(SpansOf(task)))
     IN  Runs(task, end.ids, end.comps, end.fails)

(* EntityIterator::chunks, chunks_with and par_chunks_with, and the two    *)
(* that flatten their chunks, entities_with_chunked and                    *)
(* par_entities_with_chunked.                                              *)
ChunksWith(task) ==
  /\ mode \in {"chunks", "chunks_with", "entities_with_chunked",
               "par_chunks_with", "par_entities_with_chunked"}
  /\ LET end == FoldLeft(TakeSerialChunk, ZipIter(task), SpansOf(task))
     IN  Runs(task, end.ids, end.comps, end.fails)

IterNext ==
  \E task \in tasks :
    /\ ~panicked
    /\ \/ Split(task) \/ ParIter(task) \/ ParIterChunks(task) \/ ParIterMut(task)
       \/ ParIterChunksMut(task) \/ EntitiesWith(task) \/ ChunksWith(task)

IterSpec == IterInit /\ [][IterNext]_iter

-----------------------------------------------------------------------------
IterTypeOK ==
  /\ recyclable \subseteq Id
  /\ \A task \in tasks :
       /\ task.start \in 1..gauge /\ task.end \in task.start..gauge
       /\ DOMAIN task.zip = DOMAIN members
  /\ visited \in [Id -> 0..MaxId]
  /\ \A k \in DOMAIN members : has[k] \cup found[k] \subseteq Id
  /\ panicked \in BOOLEAN

(* An iteration does not panic: no partition is split outside of what it   *)
(* may be split at, and the entities it takes have the components.         *)
NeverPanics == ~panicked

(* A finished iteration has yielded every entity of the snapshot, none of  *)
(* them twice, and no id without an entity; with each entity it yielded    *)
(* exactly the components the entity has, in whatever slices and from      *)
(* whatever partitions.                                                    *)
VisitsEachOnce ==
  tasks = {} /\ ~panicked =>
    /\ \A id \in Id : visited[id] = IF id \in Allocated THEN 1 ELSE 0
    /\ \A k \in DOMAIN members : found[k] = has[k]

(* No two threads can get a mutable reference to the same component, and   *)
(* a thread reaches every component of its slice.                          *)
OwnSlice ==
  \A task \in tasks : \A k \in DOMAIN members : \A id \in has[k] :
    /\ id \in IdsOf(task) => PartReaches(k, task.zip[k], id)
    /\ members[k].write /\ PartReaches(k, task.zip[k], id) =>
         \A other \in tasks \ {task} : ~PartReaches(k, other.zip[k], id)

=============================================================================
