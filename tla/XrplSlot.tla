------------------------------ MODULE XrplSlot ------------------------------
(***************************************************************************)
(* The XRPL rail's payment slot: handleXrplPayment and redeemUndelivered of   *)
(* lib/xrpl-rail.ts over the replay store.  The slot stands for one Account   *)
(* and Sequence: every transaction the payer signs for it falls into it and   *)
(* the ledger takes at most one.                                            *)
(*                                                                         *)
(* The first request claims the slot, verifies, runs the route, settles and   *)
(* reads the ledger; what it cannot decide it leaves for a later request with *)
(* the same payment, which takes a lease, asks the ledger alone and delivers. *)
(* One tick is 60 s: a request lives one at most, a lease and a stale claim     *)
(* (90 s) lapse in the second.                                               *)
(***************************************************************************)
EXTENDS ReplayStore

CONSTANTS Kinds,    \* [tx, rq] a request may come with
          FirstKind, \* what the first one comes with, the others being named after it
          Insts, InstOf,  \* instances, and the one each request runs on
          MaxReq,   \* XRPL_ROUTE_MAX_DURATION_S
          Lease,    \* XRPL_REDEEM_LEASE_MS = XRPL_IN_FLIGHT_STALE_MS
          Skew      \* REPLAY_CONFIRM_SKEW_MS

ASSUME XrplAssumption ==
  /\ Kinds \subseteq [tx: Txs, rq: Rqs] /\ FirstKind \in Kinds
  /\ InstOf \in [Reqs -> Insts]
  /\ {MaxReq, Lease, Skew} \subseteq Nat

\* As in the code, 60 s < 90 s: whoever holds a lease is gone when it lapses.
ASSUME LeaseAssumption == MaxReq < Lease

VARIABLES
  attempt,    \* per instance: attempts.get(key), whose Attempt it is
  req,        \* the requests
  opened,     \* requests so far
  led,        \* the ledger's view of each transaction
  closed,     \* when it was taken
  never,      \* transactions proved never to land
  paidFor,    \* the fingerprints a settle submitted each transaction for
  delivered,  \* paid responses
  told,       \* transactions a 402 was answered for
  marked,     \* some request wrote the delivered mark
  lostMarks,  \* delivered marks the store did not take
  now

external == <<led, closed>>
history  == <<paidFor, delivered, told, marked, lostMarks>>
seen     == <<never, history>>
vars     == <<slot, faults, attempt, req, opened, external, seen, now>>

\* First request: serve (verify and route), settle, asked, judge.  Redeem: read,
\* take, look.  Both end with write and reply.
Steps == {"claim", "serve", "settle", "asked", "judge", "read", "take", "look",
          "write", "reply"}
NoTodo == [op |-> "none", next |-> Free]
Idle == [pc |-> "idle", id |-> 0, kind |-> FirstKind, at |-> 0, fs |-> 0,
         val |-> Free, att |-> None, ask |-> "none", ran |-> FALSE, settle |-> "none",
         other |-> FALSE, todo |-> NoTodo, paid |-> FALSE, told |-> {}]

Init ==
  /\ slot = Free /\ faults = 0
  /\ attempt = [i \in Insts |-> None]
  /\ req = [r \in Reqs |-> Idle] /\ opened = 0
  /\ led = [t \in Txs |-> "none"]
  /\ closed = [t \in Txs |-> 0]
  /\ never = {}
  /\ paidFor = [t \in Txs |-> {}]
  /\ delivered = 0 /\ told = {} /\ marked = FALSE /\ lostMarks = 0
  /\ now = 0

At(r, l) == req[r].pc = l
Tx(r) == req[r].kind.tx
Mine(r) == req[r].val
Live(r) == req[r].pc \in Steps
Goto(r, l) == [req EXCEPT ![r].pc = l]
\* The refusal of a request that touches nothing more.
Refused(r) == Goto(r, "reply")
\* One last write, then the answer: the paid response (200), "pay" (402), or
\* anything else (no: 409, 502 to 504, the route's own).  A 402 is told of the
\* request's own transaction or of the one in the slot it holds, if submitted.
Judged(r) == {t \in {Mine(r).tx} \cap Txs : paidFor[t] # {}}
Ends(r, op, next, a) ==
  req' = [req EXCEPT ![r].pc = "write",
                     ![r].todo = [op |-> op, next |-> next],
                     ![r].paid = a = "200", ![r].ran = FALSE, ![r].fs = 0,
                     ![r].told = IF a = "402" THEN Judged(r) ELSE {}]

----------------------------------------------------------------------------
(* The ledger, its nodes and the facilitator. *)

Used == \E t \in Txs : led[t] # "none"
\* The payer can always submit what the payer signed, so a transaction may land
\* whether or not the facilitator was asked to submit it.
Takes(t, res) == /\ ~Used /\ t \notin never
                 /\ led' = [led EXCEPT ![t] = res]
                 /\ closed' = [closed EXCEPT ![t] = IF res = "paid" THEN now ELSE @]
                 /\ UNCHANGED <<slot, faults, attempt, req, seen, now>>
Land(t) == Takes(t, "paid")
Fail(t) == Takes(t, "failed")
\* What a read of the validated ledger may say of t, for somebody who compares
\* its close time with ref: a node may lag or contradict, never invent.
Reads(t, ref) ==
  {"null"} \cup
  CASE led[t] = "paid" -> {"untimed", "mismatch",
                           IF closed[t] < ref - Skew THEN "replay" ELSE "fresh"}
    [] led[t] = "failed" -> {"failed"}
    [] OTHER -> {}
\* provablyNeverLanded: the ledger is past the LastLedgerSequence, and does not
\* have it.  When it passed does not matter before somebody proves it.
NeverLanded(t) == led[t] = "none" /\ never' = never \cup {t}

----------------------------------------------------------------------------
(* The first request. *)

Open(r, k) ==
  /\ At(r, "idle") /\ opened < MaxReqs /\ (opened = 0 => k = FirstKind)
  /\ opened' = opened + 1
  /\ req' = [req EXCEPT ![r] = [Idle EXCEPT !.pc = "claim", !.id = opened + 1,
                                   !.kind = k, !.at = now, !.fs = now]]
  /\ UNCHANGED <<slot, faults, attempt, external, seen, now>>

ClaimOf(r) == [st |-> "in_flight", fs |-> req[r].fs, lease |-> None, own |-> req[r].id,
               tx |-> Tx(r), rq |-> req[r].kind.rq]
Claim(r) ==
  /\ At(r, "claim")
  /\ \/ /\ Answered(SetNX(ClaimOf(r)))
        /\ \/ /\ Holds(Free)
              /\ attempt' = [attempt EXCEPT ![InstOf[r]] = r]
              /\ req' = [req EXCEPT ![r].pc = "serve", ![r].val = ClaimOf(r)]
           \/ /\ ~Holds(Free)
              /\ req' = IF slot.st \in {"settled", "settle_failed"}
                        THEN Refused(r) ELSE Goto(r, "read")
              /\ UNCHANGED attempt
     \/ /\ Lost(SetNX(ClaimOf(r)))
        /\ req' = Refused(r)
        /\ UNCHANGED attempt
  /\ UNCHANGED <<external, seen, now>>

\* Nothing was settled: release.
Release(r, a) == Ends(r, "del", Free, a)
Known(r) == attempt[InstOf[r]]

\* withX402 verifies and runs the route; the facilitator accepts only a slot the
\* ledger has not used.
Serve(r) ==
  /\ At(r, "serve")
  /\ \/ Release(r, "402")
     \/ Release(r, "no")
     \/ /\ ~Used /\ Tx(r) \notin never
        /\ req' = [req EXCEPT ![r].pc = "settle", ![r].ran = Known(r) = r]
  /\ UNCHANGED <<slot, faults, attempt, external, seen, now>>

\* The settle looks its Attempt up and asks the facilitator, which refuses the
\* transaction outright or may submit it.
Settle(r) ==
  /\ At(r, "settle")
  /\ \E ask \in {"sent", "refused"} :
       /\ req' = [req EXCEPT ![r].pc = "asked", ![r].ask = ask,
                             ![r].att = Known(r)]
       /\ paidFor' = IF ask = "refused" THEN paidFor
                     ELSE [paidFor EXCEPT ![Tx(r)] = @ \cup {req[r].kind.rq}]
  /\ UNCHANGED <<slot, faults, attempt, external, never, delivered, told, marked,
                 lostMarks, now>>

\* classifySettleResult and classifySettleThrow: success is a validated payment,
\* failed was never submitted, everything else is unconfirmed, and may name a
\* transaction that is not the request's.
Outcomes(r) == CASE req[r].ask = "refused" -> {"failed"}
                 [] led[Tx(r)] = "paid" -> {"unconfirmed", "success"}
                 [] OTHER -> {"unconfirmed"}
Noted(q, r, out, other) ==
  IF req[r].att = None THEN q
  ELSE [q EXCEPT ![req[r].att].settle = out, ![req[r].att].other = other]
SettleAnswers(r) ==
  /\ At(r, "asked")
  /\ \E out \in Outcomes(r), other \in BOOLEAN :
        /\ other => out # "failed"
        /\ req' = Noted([req EXCEPT ![r].pc = "judge", ![r].att = None,
                                    ![r].ask = "none"], r, out, other)
  /\ UNCHANGED <<slot, faults, attempt, external, seen, now>>

Failed == Bare("settle_failed")
Settled == Bare("settled")
Undelivered(r) == [Mine(r) EXCEPT !.st = "settle_unconfirmed", !.own = None,
                                  !.lease = None]
Manual(r) == [Undelivered(r) EXCEPT !.tx = None]

\* What is said of a transaction nobody has proved dead.
Says(r, op, next, a) == Ends(r, op, next, a) /\ UNCHANGED never
\* Mutant: a payment the ledger does not show yet is taken as failed.
MutNothingYet(r, t, op) == Says(r, "casdel", Free, "402")

NothingYet(r, t, op) == \/ Says(r, op, Undelivered(r), "no")
                        \/ NeverLanded(t) /\ Ends(r, "casdel", Free, "402")

\* After a settle, by what the ledger says of the submitted transaction.
Confirm(r, sees) ==
  CASE sees = "failed" -> Says(r, "set", Failed, "402")
    [] sees = "replay" -> Says(r, "set", Settled, "no")
    [] sees = "mismatch" -> Says(r, "set", Undelivered(r), "no")
    [] \/ sees \in {"fresh", "untimed"}
       \/ req[r].settle = "success" -> Says(r, "set", Settled, "200")
    [] OTHER -> NothingYet(r, Tx(r), "set")

\* Mutant: the slot of an ambiguous settle is released like an unsettled one.
MutJudge(r) ==
  /\ At(r, "judge")
  /\ IF req[r].settle \in {"success", "failed"}
     THEN \E sees \in Reads(Tx(r), req[r].at) : Confirm(r, sees)
     ELSE Release(r, "no") /\ UNCHANGED never
  /\ UNCHANGED <<slot, faults, attempt, external, history, now>>

Judge(r) ==
  /\ At(r, "judge")
  /\ CASE req[r].settle = "none" -> Release(r, "402") /\ UNCHANGED never
       [] req[r].settle = "failed" -> Says(r, "set", Failed, "402")
       [] req[r].settle = "unconfirmed" /\ ~req[r].ran ->
            Says(r, "set", Undelivered(r), "no")
       [] OTHER -> IF req[r].other
                   THEN Says(r, "set", Manual(r), "no")
                   ELSE \E sees \in Reads(Tx(r), req[r].at) : Confirm(r, sees)
  /\ UNCHANGED <<slot, faults, attempt, external, history, now>>

\* The catch goes by what the attempts map knows of the slot by then, which is
\* also where an exception inside the paid handler, after its settle, ends up.
First(r) == Mine(r).st = "in_flight" /\ Mine(r).own = req[r].id
Throw(r) ==
  /\ First(r)
  /\ req[r].pc \in {"serve", "judge", "reply"}
  /\ At(r, "reply") => req[r].paid
  /\ Throws
  /\ IF Known(r) = None THEN Release(r, "402")
     ELSE CASE req[Known(r)].settle = "none" -> Release(r, "402")
            [] req[Known(r)].settle = "failed" ->
                 req' = [Refused(r) EXCEPT ![r].paid = FALSE, ![r].told = Judged(r)]
            [] OTHER -> Ends(r, "set",
                             [Undelivered(r) EXCEPT !.tx = Tx(Known(r)),
                                !.rq = req[Known(r)].kind.rq], "no")
  /\ UNCHANGED <<attempt, external, seen, now>>

----------------------------------------------------------------------------
(* The redeem. *)

Stale(v, t) == t - v.fs >= Lease
\* Mutant: a lease is taken over at once.
MutLeaseOver(v, t) == TRUE

LeaseOver(v, t) == v.lease = None \/ t - v.lease >= Lease

\* Mutant: a payment is redeemed by any request that carries it.
MutMatches(r, v) == TRUE

Matches(r, v) == v.rq = req[r].kind.rq
\* A retry signed anew has to carry the master key's signature, and the master
\* key has to be enabled: the ledger says so or the answer is 502.
Bound(r, v, masterOk) == Tx(r) = v.tx \/ masterOk
Redeems(r, v, masterOk) ==
  /\ v.st \in {"in_flight", "settle_unconfirmed", "redeeming"}
  /\ v.st = "in_flight" => Stale(v, now)
  /\ v.tx # None /\ Bound(r, v, masterOk)
  /\ Matches(r, v)
  /\ v.st = "redeeming" => LeaseOver(v, now)
Read(r) ==
  /\ At(r, "read")
  /\ \/ /\ \E masterOk \in BOOLEAN :
             req' = IF Redeems(r, slot, masterOk)
                    THEN [req EXCEPT ![r].pc = "take", ![r].val = slot, ![r].fs = now]
                    ELSE Refused(r)
        /\ UNCHANGED <<slot, faults>>
     \/ Throws /\ req' = Refused(r)
  /\ UNCHANGED <<attempt, external, seen, now>>

\* Mutant: a lease is stored by its end.
MutLeaseOf(r) == [Mine(r) EXCEPT !.st = "redeeming", !.lease = req[r].fs + Lease,
                                 !.own = req[r].id]

LeaseOf(r) == [Mine(r) EXCEPT !.st = "redeeming", !.lease = req[r].fs,
                              !.own = req[r].id]
Take(r) ==
  /\ At(r, "take")
  /\ \/ /\ Answered(CompareAndSet({Mine(r)}, LeaseOf(r)))
        /\ req' = IF Holds(Mine(r))
                  THEN [req EXCEPT ![r].pc = "look", ![r].val = LeaseOf(r),
                                   ![r].fs = req[r].at]
                  ELSE Refused(r)
     \/ /\ Lost(CompareAndSet({Mine(r)}, LeaseOf(r)))
        /\ req' = Refused(r)
  /\ UNCHANGED <<attempt, external, seen, now>>

Delivered(r) == [Mine(r) EXCEPT !.st = "settled", !.lease = None]
Looks(r, sees) ==
  CASE sees = "failed" -> Says(r, "cas", Failed, "402")
    [] sees = "replay" -> Says(r, "cas", Delivered(r), "no")
    [] sees = "fresh" -> \/ Says(r, "cas", Delivered(r), "200")
                         \/ Says(r, "cas", Undelivered(r), "no")
    [] sees = "null" -> NothingYet(r, Mine(r).tx, "cas")
    [] OTHER -> Says(r, "cas", Undelivered(r), "no")

\* Mutant: the close time is compared with the redeem's own beginning.
MutLook(r) ==
  /\ At(r, "look")
  /\ \E sees \in Reads(Mine(r).tx, req[r].at) : Looks(r, sees)
  /\ UNCHANGED <<slot, faults, attempt, external, history, now>>

Look(r) ==
  /\ At(r, "look")
  /\ \E sees \in Reads(Mine(r).tx, Mine(r).fs) : Looks(r, sees)
  /\ UNCHANGED <<slot, faults, attempt, external, history, now>>

\* The catch of a redeem gives back its own lease, or its own delivered mark.
ThrowRedeem(r) ==
  /\ Mine(r).st = "redeeming"
  /\ req[r].pc \in {"look", "reply"}
  /\ At(r, "reply") => req[r].paid
  /\ Throws
  /\ Ends(r, "casany", Undelivered(r), "no")
  /\ UNCHANGED <<attempt, external, seen, now>>

----------------------------------------------------------------------------
(* The last write, whose errors are swallowed, and the answer. *)

After(r) ==
  LET t == req[r].todo IN
  CASE t.op = "set" -> Put(t.next)
    [] t.op = "del" -> Del
    [] t.op = "cas" -> CompareAndSet({Mine(r)}, t.next)
    [] t.op = "casany" -> CompareAndSet({Mine(r), Delivered(r)}, t.next)
    [] t.op = "casdel" -> CompareAndDelete(Mine(r))
Write(r) ==
  /\ At(r, "write")
  /\ Answered(After(r)) \/ Lost(After(r))
  /\ req' = Goto(r, "reply")
  /\ marked' = (marked \/ req[r].paid)
  /\ lostMarks' = IF /\ faults' # faults /\ req[r].paid
                     /\ slot' # req[r].todo.next
                  THEN lostMarks + 1 ELSE lostMarks
  /\ UNCHANGED <<attempt, external, never, paidFor, delivered, told, now>>

\* The finally takes whatever Attempt the map holds out of it.
Reply(r) ==
  /\ At(r, "reply")
  /\ req' = [req EXCEPT ![r] = Idle]
  /\ delivered' = delivered + (IF req[r].paid THEN 1 ELSE 0)
  /\ told' = told \cup req[r].told
  /\ attempt' = IF First(r) THEN [attempt EXCEPT ![InstOf[r]] = None]
                            ELSE attempt
  /\ UNCHANGED <<slot, faults, external, never, paidFor, marked, lostMarks, now>>

\* The platform ends a request at 60 s, or earlier.
Dies(r) ==
  /\ Live(r)
  /\ req' = [req EXCEPT ![r] = Idle]
  /\ attempt' = [i \in Insts |-> IF attempt[i] = r THEN None ELSE attempt[i]]
  /\ UNCHANGED <<slot, faults, external, seen, now>>

Tick ==
  /\ now < MaxTime
  /\ \A r \in Reqs : Live(r) => now - req[r].at < MaxReq
  /\ now' = now + 1
  /\ UNCHANGED <<slot, faults, attempt, req, external, seen>>

Next ==
  \/ \E r \in Reqs :
       \/ \E k \in Kinds : Open(r, k)
       \/ /\ \/ Claim(r) \/ Serve(r) \/ Settle(r) \/ SettleAnswers(r) \/ Judge(r)
             \/ Throw(r) \/ Read(r) \/ Take(r) \/ Look(r) \/ ThrowRedeem(r)
             \/ Write(r) \/ Reply(r) \/ Dies(r)
          /\ UNCHANGED opened
  \/ /\ \/ \E t \in Txs : Land(t) \/ Fail(t)
        \/ Tick
     /\ UNCHANGED opened
Spec == Init /\ [][Next]_vars

----------------------------------------------------------------------------
TypeOK ==
  /\ slot \in Values /\ faults \in 0..MaxFaults
  /\ attempt \in [Insts -> Reqs \cup {None}]
  /\ \A r \in Reqs : /\ req[r].pc \in Steps \cup {"idle"}
                     /\ req[r].id \in 0..opened /\ req[r].kind \in Kinds /\ req[r].val \in Values
                     /\ req[r].todo.next \in Values
  /\ led \in [Txs -> {"none", "paid", "failed"}]
  /\ closed \in [Txs -> Time] /\ never \subseteq Txs
  /\ paidFor \in [Txs -> SUBSET Rqs]
  /\ opened \in 0..MaxReqs /\ told \subseteq Txs /\ marked \in BOOLEAN
  /\ delivered \in Nat /\ lostMarks \in Nat /\ now \in Time

\* One payment is delivered once, whatever overlaps, dies or takes over, unless
\* the store lost the mark that said so.
OneDelivery == delivered <= 1 + lostMarks

\* The payer's transaction is on the ledger for whoever got the paid response,
\* and what was asked is what a settle of ours was made for, if one was.
DeliveredToPayer ==
  \A r \in Reqs :
    req[r].paid /\ At(r, "reply") =>
      \E t \in Txs : /\ led[t] = "paid"
                     /\ paidFor[t] # {} => req[r].kind.rq \in paidFor[t]

\* The replay guard: no payment is delivered twice, nor to a request it was not
\* made for.
DeliveredOnce == OneDelivery /\ DeliveredToPayer

\* A request that got past the claim and was told 402, pay again, was told so of
\* a transaction that never lands: a payment is never asked for twice.
RefusedNotCharged == \A t \in told : led[t] # "paid"

\* A payment of ours that landed and was never delivered is still in the slot,
\* with the transaction and the request it can be redeemed by, or marked for a
\* human, or some request is at it, or the one that wrote the delivered mark died
\* or failed between that write and its answer.
Redeemable(t) ==
  slot.st \in {"in_flight", "settle_unconfirmed", "redeeming"}
  /\ slot.tx \in {t, None} /\ slot.rq \in paidFor[t]
ChargedRecoverable ==
  \A t \in Txs :
    led[t] = "paid" /\ paidFor[t] # {} /\ delivered = 0 =>
      \/ Redeemable(t)
      \/ \E r \in Reqs : Live(r) /\ Mine(r) # Free
      \/ slot.st = "settled" /\ marked

\* Nobody but the holder of a live lease changes the slot.
LeaseRespected ==
  [][slot.st = "redeeming" /\ slot' # slot =>
       \/ \E r \in Reqs : req[r].id = slot.own /\ At(r, "write")
       \/ now - slot.lease >= Lease]_vars
=============================================================================
