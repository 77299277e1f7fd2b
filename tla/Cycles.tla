------------------------------- MODULE Cycles -------------------------------
(***************************************************************************)
(* A topology from its construction to its cycles: Topology::init looks    *)
(* for cyclic orders (ScanCycles) and panics on one; the systems of what   *)
(* passes are planned, cycle after cycle (Planner).                        *)
(***************************************************************************)
EXTENDS ScanCycles, Planner

cyclevars == <<vars, scan>>

(* The exclusions do not depend on the search.                             *)
CyclesInit ==
  /\ orders \in SUBSET Order /\ exclusions \in Exclusions
  /\ ScanStart
  /\ NoPlanner

Searching == ScanNext /\ UNCHANGED planner
Planning == result = "acyclic" /\ Next /\ UNCHANGED scan

CyclesNext == Searching \/ Planning

CyclesSpec == CyclesInit /\ [][CyclesNext]_cyclevars /\ WF_cyclevars(Searching)

=============================================================================
