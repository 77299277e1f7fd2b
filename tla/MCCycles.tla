----------------------------- MODULE MCCycles ------------------------------
(***************************************************************************)
(* Every set of orders over two thread-safe systems, one main-thread       *)
(* system and two partitions, in which a pair may be ordered twice: cycles *)
(* of two and of four nodes, diamonds, chains.                             *)
(***************************************************************************)
EXTENDS Cycles

MCSend == {1, 2}
MCUnsend == {3}
MCPartition == {4, 5}

(* Both directions between every system and one partition, 2 -> 5 -> 3,
    and a duplicate of two of them. *)
MCOrder ==
  {<<s, p, 1>> : s \in {1, 2, 3}, p \in {4}}
    \cup {<<p, s, 1>> : p \in {4}, s \in {1, 2, 3}}
    \cup {<<2, 5, 1>>, <<5, 3, 1>>}
    \cup {<<1, 4, 2>>, <<4, 3, 2>>}
MCBefore == [o \in MCOrder |-> o[1]]
MCAfter == [o \in MCOrder |-> o[2]]

=============================================================================
