--------------------------- MODULE MCReplayStore ---------------------------
(***************************************************************************)
(* Instances of ReplayStore for TLC.                                       *)
(***************************************************************************)
EXTENDS ReplayStore, TLC

CONSTANTS k1, k2, k3, p1, p2

MCKeys2 == {k1, k2}
MCKeys3 == {k1, k2, k3}
MCProcesses1 == {p1}
MCProcesses2 == {p1, p2}

Symm == Permutations(Keys) \cup Permutations(Processes)
=============================================================================
