--------------------------- MODULE MCPremiumJobs ---------------------------
(* PremiumJobs on small instances for TLC. *)
EXTENDS PremiumJobs, TLC

CONSTANTS j1, j2, a1, u1, p1, p2

\* Two requests that carry one authorization, of one payer.
TwoJobs == {j1, j2}
OneJob == {j1}
TwoProcs == {p1, p2}
SameAuth == [j \in Jobs |-> a1]
OnePayer == [a \in Auths |-> u1]
ShortWindow == [a \in Auths |-> 3]
MidWindow == [a \in Auths |-> 4]
After == {FALSE}
First == {TRUE}
Either == BOOLEAN
Tiny == [a \in Auths |-> 2]

Symmetry == Permutations(Procs) \cup Permutations(Jobs)
=============================================================================
