--------------------------- MODULE SettleStrikes ---------------------------
(***************************************************************************)
(* The failed-settle caps of lib/premium/jobs.ts 129-154: a payer with two   *)
(* failed settles in 24 h is refused for 24 h (settleblock), and three of    *)
(* any payers put every accept in settle-first mode (the breaker).           *)
(*                                                                         *)
(* One job is one process: its settle, and later the resolution of an        *)
(* unconfirmed settle, run in one invocation at a time (PremiumJobs' lease),  *)
(* but jobs of one payer run side by side.  noteSettleFailure and            *)
(* clearSettleFailure are each several store commands, and their errors are   *)
(* swallowed by the callers.  A tick is a fraction of the 24 h window.       *)
(***************************************************************************)
EXTENDS Integers, FiniteSets

CONSTANTS Jobs, Payers, PayerOf,
          PayerLimit,   \* SETTLE_FAIL_LIMIT
          GlobalLimit,  \* GLOBAL_SETTLE_FAIL_LIMIT
          Window,       \* SETTLE_BLOCK_S, in ticks
          ClearAlone,   \* is a clear never concurrent with another job's note
                        \* or clear of the same payer?
          MaxTime,      \* bound: last tick of the clock
          MaxFaults     \* bound: store errors

ASSUME StrikesAssumption ==
  /\ IsFiniteSet(Jobs) /\ PayerOf \in [Jobs -> Payers]
  /\ {PayerLimit, GlobalLimit, Window} \subseteq Nat \ {0}
  /\ {MaxTime, MaxFaults} \subseteq Nat
  /\ ClearAlone \in BOOLEAN

VARIABLES
  strike,   \* settlefail:<payer>: score of each job in its payer's set (0: none)
  global,   \* settlefail:global: score of each job (0: none)
  block,    \* settleblock:<payer>: when it expires (0: none)
  first,    \* jobs accepted in settle-first mode
  pc,       \* of each job
  at,       \* the clock as read at the start of its note or clear
  now, faults

sets == <<strike, global, block>>
vars == <<sets, first, pc, at, now, faults>>

Note  == {"note", "note_global", "note_count", "note_block"}
Clear == {"clear", "clear_global", "clear_count", "clear_block"}
PC == {"new", "accepted", "unconfirmed", "resolved"} \cup Note \cup Clear

Payer(j) == PayerOf[j]
\* zcardAfterPrune: the members whose score lies after t.
Strikes(u, t) == {j \in Jobs : Payer(j) = u /\ strike[j] > t}
Failures(t)   == {j \in Jobs : global[j] > t}

Init == /\ strike = [j \in Jobs |-> 0]
        /\ global = [j \in Jobs |-> 0]
        /\ block = [u \in Payers |-> 0]
        /\ first = {}
        /\ pc = [j \in Jobs |-> "new"]
        /\ at = [j \in Jobs |-> 0]
        /\ now = 0 /\ faults = 0

Goto(j, l) == pc' = [pc EXCEPT ![j] = l]
Begin(j, l) == Goto(j, l) /\ at' = [at EXCEPT ![j] = now]
Touching(u) == {k \in Jobs : Payer(k) = u /\ pc[k] \in Note \cup Clear}
MayClear(j) == ClearAlone => Touching(Payer(j)) = {}
MayNote(j)  == ClearAlone => \A k \in Touching(Payer(j)) : pc[k] \in Note

\* settleBlocked refuses (429); else the breaker chooses the mode.
Accept(j) == /\ pc[j] = "new"
             /\ block[Payer(j)] <= now
             /\ first' = IF Cardinality(Failures(now)) >= GlobalLimit
                           THEN first \cup {j} ELSE first
             /\ Goto(j, "accepted")
             /\ UNCHANGED <<sets, at, now, faults>>

\* The settle: a success needs no strike, a timeout waits for the chain, an
\* ambiguous answer counts now.
Settle(j) == /\ pc[j] = "accepted"
             /\ \/ Goto(j, "resolved") /\ UNCHANGED at
                \/ Goto(j, "unconfirmed") /\ UNCHANGED at
                \/ MayNote(j) /\ Begin(j, "note")
             /\ UNCHANGED <<sets, first, now, faults>>

\* The chain's answer: landed clears the strike, never landed counts one.
Resolve(j) == /\ pc[j] = "unconfirmed"
              /\ \/ MayClear(j) /\ Begin(j, "clear")
                 \/ MayNote(j) /\ Begin(j, "note")
              /\ UNCHANGED <<sets, first, now, faults>>

----------------------------------------------------------------------------
\* Where a note or a clear that ends leaves its job: resolved, or unconfirmed
\* (an ambiguous settle, or a run that dies before it saves the resolution).
After(j) == \E l \in {"unconfirmed", "resolved"} :
              Goto(j, l) /\ at' = [at EXCEPT ![j] = 0]

\* Mutant: the score lies in the past.
MutNoteStrike(j) == /\ pc[j] = "note"
                    /\ strike' = [strike EXCEPT ![j] = at[j] - Window]
                    /\ Goto(j, "note_global")
                    /\ UNCHANGED <<global, block, first, at, now, faults>>

\* noteSettleFailure: the two sets, the count, the block.
NoteStrike(j) == /\ pc[j] = "note"
                 /\ strike' = [strike EXCEPT ![j] = at[j] + Window]
                 /\ Goto(j, "note_global")
                 /\ UNCHANGED <<global, block, first, at, now, faults>>

\* Mutant: a failure does not count for the breaker.
MutNoteGlobal(j) == /\ pc[j] = "note_global"
                    /\ Goto(j, "note_count")
                    /\ UNCHANGED <<sets, first, at, now, faults>>

NoteGlobal(j) == /\ pc[j] = "note_global"
                 /\ global' = [global EXCEPT ![j] = at[j] + Window]
                 /\ Goto(j, "note_count")
                 /\ UNCHANGED <<strike, block, first, at, now, faults>>

\* Mutant: one failure more is let pass.
MutNoteCount(j) == /\ pc[j] = "note_count"
                   /\ IF Cardinality(Strikes(Payer(j), at[j])) > PayerLimit
                        THEN Goto(j, "note_block") /\ UNCHANGED at
                        ELSE After(j)
                   /\ UNCHANGED <<sets, first, now, faults>>

NoteCount(j) == /\ pc[j] = "note_count"
                /\ IF Cardinality(Strikes(Payer(j), at[j])) >= PayerLimit
                     THEN Goto(j, "note_block") /\ UNCHANGED at
                     ELSE After(j)
                /\ UNCHANGED <<sets, first, now, faults>>
NoteBlock(j) == /\ pc[j] = "note_block"
                /\ block' = [block EXCEPT ![Payer(j)] = now + Window]
                /\ After(j)
                /\ UNCHANGED <<strike, global, first, now, faults>>

\* clearSettleFailure: out of both sets, and the block if under the limit.
ClearStrike(j) == /\ pc[j] = "clear"
                  /\ strike' = [strike EXCEPT ![j] = 0]
                  /\ Goto(j, "clear_global")
                  /\ UNCHANGED <<global, block, first, at, now, faults>>
ClearGlobal(j) == /\ pc[j] = "clear_global"
                  /\ global' = [global EXCEPT ![j] = 0]
                  /\ Goto(j, "clear_count")
                  /\ UNCHANGED <<strike, block, first, at, now, faults>>

\* Mutant: a payment that landed does not lift the block.
MutClearCount(j) == /\ pc[j] = "clear_count"
                    /\ After(j)
                    /\ UNCHANGED <<sets, first, now, faults>>

ClearCount(j) == /\ pc[j] = "clear_count"
                 /\ IF Cardinality(Strikes(Payer(j), now)) < PayerLimit
                      THEN Goto(j, "clear_block") /\ UNCHANGED at
                      ELSE After(j)
                 /\ UNCHANGED <<sets, first, now, faults>>
ClearBlock(j) == /\ pc[j] = "clear_block"
                 /\ block' = [block EXCEPT ![Payer(j)] = 0]
                 /\ After(j)
                 /\ UNCHANGED <<strike, global, first, now, faults>>

\* A store error in the middle: swallowed, the job goes on without the rest.
Fails(j) == /\ pc[j] \in Note \cup Clear
            /\ faults < MaxFaults /\ faults' = faults + 1
            /\ After(j)
            /\ UNCHANGED <<sets, first, now>>

\* An invocation lives far less than a tick, but may see one begin.
Tick == /\ now < MaxTime
        /\ \A j \in Jobs : pc[j] \in Note \cup Clear => at[j] = now
        /\ now' = now + 1
        /\ UNCHANGED <<sets, first, pc, at, faults>>

Next == \/ \E j \in Jobs : \/ Accept(j) \/ Settle(j) \/ Resolve(j)
                           \/ NoteStrike(j) \/ NoteGlobal(j)
                           \/ NoteCount(j) \/ NoteBlock(j)
                           \/ ClearStrike(j) \/ ClearGlobal(j)
                           \/ ClearCount(j) \/ ClearBlock(j) \/ Fails(j)
        \/ Tick
Spec == Init /\ [][Next]_vars

----------------------------------------------------------------------------
(* Properties. *)

\* Every variable has its type.
TypeOK == /\ strike \in [Jobs -> Nat] /\ global \in [Jobs -> Nat]
          /\ block \in [Payers -> Nat] /\ first \subseteq Jobs
          /\ pc \in [Jobs -> PC] /\ at \in [Jobs -> Nat]
          /\ now \in Nat /\ faults \in Nat

\* jobs.ts:129: a payer with two failed settles in the last 24 h is blocked,
\* once the notes and clears about it are done; a store error in a note costs
\* one strike at most.
BlockedWhenStruck ==
  \A u \in Payers : /\ Touching(u) = {}
                    /\ Cardinality(Strikes(u, now)) >= PayerLimit + faults
                    => block[u] > now

\* jobs.ts:142: without store errors, a payer is not blocked by payments that
\* all landed.
BlockNeedsFailure ==
  \A u \in Payers : /\ Touching(u) = {} /\ faults = 0
                    /\ block[u] > now
                    => \E j \in Jobs : Payer(j) = u /\ strike[j] # 0

\* jobs.ts:129-154: the block follows the strikes, in both directions.
BlockFollowsStrikes == BlockedWhenStruck /\ BlockNeedsFailure

\* The payer's set and the global set differ on a job only if a note or a clear
\* of it was cut short.
StrikesAgree ==
  Cardinality({j \in Jobs : Touching(Payer(j)) = {} /\ strike[j] # global[j]})
    <= faults
=============================================================================
