-------------------------- MODULE PurchaseContract --------------------------
(***************************************************************************)
(* What an asynchronous purchase promises the buyer outside settle-first   *)
(* mode (lib/premium/copy.ts:104, lib/premium/jobs.ts:3): the payment is    *)
(* asked for only once the deliverable exists, nothing is delivered before  *)
(* the payment is on the chain, one authorization pays for one delivery, a  *)
(* purchase that fails was never charged for unless its payment was asked   *)
(* for and reported lost, and an outcome is final.  No store, no            *)
(* invocations, no clock: PremiumJobs implements this.                      *)
(***************************************************************************)
CONSTANTS Jobs, Auths, AuthOf

VARIABLES outcome,  \* of each purchase
          built,    \* purchases whose deliverable exists
          asked,    \* purchases whose payment was asked for
          chain     \* of each authorization

contract == <<outcome, built, asked, chain>>

Outcomes == {"none", "open", "delivered", "failed", "lost"}

Init == /\ outcome = [j \in Jobs |-> "none"]
        /\ built = {} /\ asked = {}
        /\ chain = [a \in Auths |-> "unused"]

Paid(j) == chain[AuthOf[j]] = "charged"
Decide(j, o) == /\ outcome' = [outcome EXCEPT ![j] = o]
                /\ UNCHANGED <<built, asked, chain>>

Open(j)  == outcome[j] = "none" /\ Decide(j, "open")
Build(j) == /\ outcome[j] = "open" /\ built' = built \cup {j}
            /\ UNCHANGED <<outcome, asked, chain>>
Ask(j)   == /\ outcome[j] = "open" /\ j \in built
            /\ asked' = asked \cup {j}
            /\ UNCHANGED <<outcome, built, chain>>
Fail(j)  == outcome[j] = "open" /\ j \notin asked /\ Decide(j, "failed")
Lose(j)  == outcome[j] = "open" /\ j \in asked /\ Decide(j, "lost")
Deliver(j) ==
  /\ outcome[j] = "open" /\ j \in built /\ Paid(j)
  /\ \A k \in Jobs : AuthOf[k] = AuthOf[j] => outcome[k] # "delivered"
  /\ Decide(j, "delivered")
Charge(a) == /\ chain[a] = "unused"
             /\ \E j \in asked : AuthOf[j] = a
             /\ chain' = [chain EXCEPT ![a] = "charged"]
             /\ UNCHANGED <<outcome, built, asked>>
Cancel(a) == /\ chain[a] = "unused"
             /\ chain' = [chain EXCEPT ![a] = "cancelled"]
             /\ UNCHANGED <<outcome, built, asked>>

Next == \/ \E j \in Jobs : \/ Open(j) \/ Build(j) \/ Ask(j) \/ Fail(j)
                           \/ Lose(j) \/ Deliver(j)
        \/ \E a \in Auths : Charge(a) \/ Cancel(a)

Spec == Init /\ [][Next]_contract
=============================================================================
