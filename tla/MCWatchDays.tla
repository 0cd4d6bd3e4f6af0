---------------------------- MODULE MCWatchDays ----------------------------
(* WatchDays on a watch of a few days of three ticks each. *)
EXTENDS WatchDays, TLC

CONSTANTS p1, p2
TwoProcs == {p1, p2}
Symmetry == Permutations(Procs)
=============================================================================
