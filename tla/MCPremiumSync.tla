--------------------------- MODULE MCPremiumSync ---------------------------
(* PremiumSync on one standard authorization, or on briefs of one payer. *)
EXTENDS PremiumSync, TLC

CONSTANTS p1, p2, a1, a2, u1, r1, r2
TwoProcs == {p1, p2}
OneAuth == {a1}
TwoAuths == {a1, a2}
OnePayer == {u1}
TwoRqs == {r1, r2}
OneRq == {r1}
AllPayer == [a \in Auths |-> u1]
NoBriefs == {}
Valid4 == [a \in Auths |-> 4]
ValidMixed == [a \in Auths |-> IF a = a1 THEN 4 ELSE 2]
Valid5 == [a \in Auths |-> 5]
Symmetry == Permutations(Procs) \cup Permutations(Rqs)
=============================================================================
