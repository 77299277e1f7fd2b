----------------------------- MODULE MCExecutor -----------------------------
(***************************************************************************)
(* Executor on every topology over two thread-safe systems, one            *)
(* main-thread system and one partition between them.                      *)
(***************************************************************************)
EXTENDS Executor

CONSTANTS main, w1, w2

MCSend == {1, 2}
MCUnsend == {3}
MCPartition == {4}
MCOrder == (MCSend \cup MCUnsend) \X MCPartition \cup MCPartition \X (MCSend \cup MCUnsend)
MCBefore == [o \in MCOrder |-> o[1]]
MCAfter == [o \in MCOrder |-> o[2]]

=============================================================================
