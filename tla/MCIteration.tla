---------------------------- MODULE MCIteration -----------------------------
(***************************************************************************)
(* Serial iteration and par_iter_mut on snapshots with up to two holes and *)
(* both storages; every parallel iterator on vectors without holes; zips   *)
(* of two and three components, required and optional.  Slices of up to 32 *)
(* ids are split in two and in four.                                       *)
(***************************************************************************)
EXTENDS Iteration

M(write, must, kind) == [write |-> write, must |-> must, kind |-> kind]
Read(kind) == M(FALSE, TRUE, kind)
Write(kind) == M(TRUE, TRUE, kind)
TryRead(kind) == M(FALSE, FALSE, kind)
TryWrite(kind) == M(TRUE, FALSE, kind)

On(modes, zips, gauges, holes) ==
  [mode : modes, members : zips, gauge : gauges, holes : {holes}]

Snapshots(modes, zips) == On(modes, zips, {1, 2, 4, 17, 33}, 2)
Full(modes, zips) == On(modes, zips, {2, 17, 24, 33}, 0)

MCCases ==
  (* Serial, with holes. *)
  Snapshots({"entities", "chunks"}, {<< >>})
    \cup Snapshots({"entities_with"}, {<<Write("vec")>>, <<Write("tree"), Read("vec")>>})
    \cup Snapshots({"chunks_with", "entities_with_chunked"}, {<<Write("vec"), Read("vec")>>})
    \cup On({"entities_with"}, {<<TryRead("vec"), Write("vec")>>,
                                <<TryRead("tree"), TryWrite("tree")>>}, {2, 4, 7}, 1)
  (* Parallel. *)
    \cup Snapshots({"par_iter_mut"}, {<<Write("vec")>>, <<Write("tree")>>})
    \cup Snapshots({"par_iter_chunks_mut"}, {<<Write("vec")>>})
    \cup Full({"par_iter", "par_iter_chunks"}, {<<Read("vec")>>})
    \cup Full({"par_entities_with", "par_chunks_with", "par_entities_with_chunked"},
              {<<Read("vec"), Write("vec"), Write("vec")>>})
    \cup On({"par_entities_with"}, {<<TryRead("tree"), Write("vec")>>, <<TryWrite("vec")>>}, {18}, 0)

=============================================================================
