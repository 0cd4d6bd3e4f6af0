----------------------------- MODULE MCXrplSlot -----------------------------
(* XrplSlot on a payment, its master-key re-sign and another request that     *)
(* carries it.                                                              *)
EXTENDS XrplSlot, TLC

CONSTANTS r1, r2, r3, t1, t2, q1, q2, i1
TwoReqs == {r1, r2}
ThreeReqs == {r1, r2, r3}
OneTx == {t1}
TwoTxs == {t1, t2}
TwoRqs == {q1, q2}
Original == [tx |-> t1, rq |-> q1]
Same == {Original}
Resigned == Same \cup {[tx |-> t2, rq |-> q1]}
TwoPaths == Same \cup {[tx |-> t1, rq |-> q2]}
Elsewhere == Resigned \cup TwoPaths
OneInst == {i1}
Together == [r \in Reqs |-> i1]
Apart == [r \in Reqs |-> r]
Symmetry == Permutations(Reqs)
=============================================================================
