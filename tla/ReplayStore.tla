---------------------------- MODULE ReplayStore ----------------------------
(***************************************************************************)
(* The replay store of lib/xrpl-replay-store.ts that both wallet rails keep  *)
(* one slot per payment in: SET NX, SET, DEL, GET and the three Lua scripts  *)
(* that compare before they write.  One slot is modelled; slots are keyed by  *)
(* payment and never touch each other.                                      *)
(*                                                                         *)
(* Every command is one HTTP call with a timeout.  Its answer may be lost,    *)
(* before or after the store applied it, and the caller then knows nothing.  *)
(***************************************************************************)
EXTENDS Integers, FiniteSets

CONSTANTS Reqs,      \* bound: requests at once, one function invocation each
          MaxReqs,   \* bound: requests in all
          Txs,       \* signed transactions that fall into the slot
          Rqs,       \* request fingerprints
          None,
          MaxTime,   \* bound: last tick of the clock
          MaxFaults  \* bound: lost answers and exceptions

ASSUME StoreAssumption ==
  /\ None \notin Reqs \cup Txs \cup Rqs \cup Nat
  /\ {MaxReqs, MaxTime, MaxFaults} \subseteq Nat

VARIABLES slot,   \* the value under the payment's key
          faults  \* lost answers and exceptions so far

Time == 0..MaxTime
Ids == 1..MaxReqs
States == {"in_flight", "settled", "settle_failed", "settle_unconfirmed",
           "redeeming"}
\* A parsed value.  The code tells two claims apart by the millisecond in them;
\* ticks are too coarse for that, so a claim also names its request in "own".
Values == [st: States \cup {"free"}, fs: Time \cup {None},
           lease: Time \cup {None}, own: Ids \cup {None},
           tx: Txs \cup {None}, rq: Rqs \cup {None}]
Bare(st) == [st |-> st, fs |-> None, lease |-> None, own |-> None,
             tx |-> None, rq |-> None]
Free == Bare("free")

Holds(v) == slot = v
\* What the slot is after each command, were it applied now.
SetNX(v) == IF Holds(Free) THEN v ELSE slot
Put(v) == v
Del == Free
\* Mutant: the script only looks whether there is a value.
MutCompareAndSet(expected, v) == IF slot # Free THEN v ELSE slot

CompareAndSet(expected, v) == IF slot \in expected THEN v ELSE slot
CompareAndDelete(v) == IF Holds(v) THEN Free ELSE slot

\* The command was applied and answered.
Answered(v) == slot' = v /\ UNCHANGED faults
\* The answer was lost, whether or not the command was applied.
Lost(v) == /\ faults < MaxFaults /\ faults' = faults + 1
           /\ slot' \in {slot, v}
\* Something else of ours failed; the slot is not touched.
Throws == faults < MaxFaults /\ faults' = faults + 1 /\ UNCHANGED slot
=============================================================================
