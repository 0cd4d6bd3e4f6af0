----------------------------- MODULE MCSellerDd -----------------------------
(* SellerDd on two requests and two redeems or cron passes at a time. *)
EXTENDS SellerDd, TLC

CONSTANTS r1, r2, a1, a2, d1, d2, q1, q2
TwoReqs == {r1, r2}
OneReq == {r1}
OneAuth == {a1}
TwoAuths == {a1, a2}
OneAct == {d1}
TwoActs == {d1, d2}
OneRq == {q1}
TwoRqs == {q1, q2}
Valid3 == [a \in Auths |-> 3]
Symmetry == Permutations(Reqs) \cup Permutations(Acts)
Symmetries == Symmetry \cup Permutations(Auths)
=============================================================================
