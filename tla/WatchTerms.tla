----------------------------- MODULE WatchTerms -----------------------------
(***************************************************************************)
(* What a paid watch promises (lib/premium/copy.ts:31, watch.ts:3-8): each  *)
(* day gets at most one verdict; a record is taken in the day's window and   *)
(* never back-filled; a day is missed only when its window is over or the    *)
(* watch is being stopped; the watch ends once, with the pro rata refund of  *)
(* the verdicts that stand then, and nothing changes afterwards.             *)
(***************************************************************************)
EXTENDS Integers, FiniteSets

CONSTANTS Days,         \* WATCH_DAYS
          PerDay,       \* ticks of the clock in one day
          Price,        \* atomic amount paid
          RefundAfter   \* missed days that make a refund due

VARIABLES verdict,   \* of each day: none, recorded or missed
          outcome,   \* watching, completed or stopped
          refund,    \* what the ended watch owes the buyer
          stopping,  \* reasons of the stops asked for so far
          now        \* since the watch started

terms == <<verdict, outcome, refund, stopping, now>>

Having(v) == Cardinality({n \in 1..Days : verdict[n] = v})
Undelivered == Days - Having("recorded")
Owed(stop) ==
  IF \/ stop = "abuse"
     \/ stop = "none" /\ Having("missed") < RefundAfter
    THEN 0 ELSE (Price * Undelivered) \div Days

Init == /\ verdict = [n \in 1..Days |-> "none"]
        /\ outcome = "watching" /\ refund = 0 /\ stopping = {} /\ now = 0

Judge(n, v) == /\ outcome = "watching" /\ verdict[n] = "none"
               /\ verdict' = [verdict EXCEPT ![n] = v]
               /\ UNCHANGED <<outcome, refund, stopping, now>>
\* A check that began in the window may end one tick after it.
Record(n) == n * PerDay <= now /\ now <= (n + 1) * PerDay /\ Judge(n, "recorded")
Miss(n)   == /\ now >= (n + 1) * PerDay \/ (now >= n * PerDay /\ stopping # {})
             /\ Judge(n, "missed")

Ask(why) == /\ stopping' = stopping \cup {why}
            /\ UNCHANGED <<verdict, outcome, refund, now>>

End(o, stop) == /\ outcome = "watching"
                /\ outcome' = o /\ refund' = Owed(stop)
                /\ UNCHANGED <<verdict, stopping, now>>
\* All days have their verdict, or the last window is over.
Complete == /\ \/ \A n \in 1..Days : verdict[n] # "none"
               \/ now >= (Days + 1) * PerDay
            /\ End("completed", "none")
Stop == \E why \in stopping : End("stopped", why)

Pass == now' = now + 1 /\ UNCHANGED <<verdict, outcome, refund, stopping>>

Next == \/ \E n \in 1..Days : Record(n) \/ Miss(n)
        \/ \E why \in {"ours", "abuse"} : Ask(why)
        \/ Complete \/ Stop \/ Pass

Spec == Init /\ [][Next]_terms
=============================================================================
