-------------------------- MODULE MCSettleStrikes --------------------------
(* SettleStrikes on three jobs of one payer. *)
EXTENDS SettleStrikes, TLC

CONSTANTS j1, j2, j3, u1
ThreeJobs == {j1, j2, j3}
OnePayer == [j \in Jobs |-> u1]
Symmetry == Permutations(Jobs)
=============================================================================
