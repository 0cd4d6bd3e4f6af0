---------------------------- MODULE MCSolanaSlot ----------------------------
(* SolanaSlot on requests, two at a time, that carry one payment, on two paths, *)
(* each on an instance of its own or both on one.                              *)
EXTENDS SolanaSlot, TLC

CONSTANTS r1, r2, q1, q2, i1
TwoReqs == {r1, r2}
NoTxs == {}
TwoRqs == {q1, q2}
OneInst == {i1}
Together == [r \in Reqs |-> i1]
Apart == [r \in Reqs |-> r]
Symmetry == Permutations(Reqs)
=============================================================================
