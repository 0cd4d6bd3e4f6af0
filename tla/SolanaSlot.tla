----------------------------- MODULE SolanaSlot -----------------------------
(***************************************************************************)
(* The Solana rail's payment slot: handleSolanaPayment and redeemUndelivered  *)
(* of lib/solana-rail.ts over the same replay store.  The slot is one signed   *)
(* message: there is no re-sign, no proof that it never lands, and a payment   *)
(* counts only if it landed after the chain slot read when its first request  *)
(* began.                                                                  *)
(*                                                                         *)
(* Claims and leases carry an owner and every later write compares with the    *)
(* value its request wrote.  Each instance also remembers the payments it saw  *)
(* end, and answers them without asking the store, and it keeps one Attempt    *)
(* for the payment, where the settle notes its outcome.  One tick is 60 s.     *)
(***************************************************************************)
EXTENDS ReplayStore

CONSTANTS FirstRq,  \* what the first request asks, the others being named after it
          Insts, InstOf,  \* instances, and the one each request runs on
          MaxReq,   \* the routes' maxDuration, 60 s
          Lease     \* SOLANA_REDEEM_LEASE_MS = SOLANA_IN_FLIGHT_STALE_MS, 90 s

ASSUME SolanaAssumption ==
  /\ FirstRq \in Rqs /\ InstOf \in [Reqs -> Insts]
  /\ {MaxReq, Lease} \subseteq Nat
  /\ MaxTime > 0       \* the two chain slots a request may begin at

\* As in the code, 60 s < 90 s: whoever holds a lease is gone when it lapses.
ASSUME LeaseAssumption == MaxReq < Lease

VARIABLES
  local,      \* the replay map of each instance, as far as it is final
  attempt,    \* the attempts map of each instance: whose Attempt it holds
  req,        \* the requests
  opened,     \* requests so far
  led,        \* what became of the transaction: none, paid, failed
  paidFor,    \* the fingerprints a settle submitted it for
  delivered,  \* paid responses
  told,       \* a 402 was answered for it, after it was submitted
  marked,     \* some request wrote the delivered mark
  lostMarks,  \* delivered marks the store did not take
  now

history == <<paidFor, delivered, told, marked, lostMarks>>
inst    == <<local, attempt>>
vars    == <<slot, faults, inst, req, opened, led, history, now>>

Steps == {"claim", "serve", "settle", "asked", "judge", "read", "take", "look",
          "write", "reply"}
Finals == {"settled", "settle_failed"}
NoTodo == [op |-> "none", next |-> Free]
Idle == [pc |-> "idle", id |-> 0, rq |-> FirstRq, at |-> 0, start |-> 0,
         val |-> Free, ask |-> "none", settle |-> "none", noted |-> FALSE,
         todo |-> NoTodo, paid |-> FALSE, told |-> FALSE]

Init ==
  /\ slot = Free /\ faults = 0
  /\ local = [i \in Insts |-> "none"] /\ attempt = [i \in Insts |-> None]
  /\ req = [r \in Reqs |-> Idle] /\ opened = 0
  /\ led = "none" /\ paidFor = {}
  /\ delivered = 0 /\ told = FALSE /\ marked = FALSE /\ lostMarks = 0
  /\ now = 0

At(r, l) == req[r].pc = l
Mine(r) == req[r].val
Goto(r, l) == [req EXCEPT ![r].pc = l]
Refused(r) == Goto(r, "reply")
\* One last write, then the answer: the paid response (200), "pay" (402) or
\* anything else (no: 409, 502 to 504, the route's own).
Ends(r, op, next, a) ==
  req' = [req EXCEPT ![r].pc = "write",
                     ![r].todo = [op |-> op, next |-> next],
                     ![r].settle = "none",
                     ![r].paid = a = "200",
                     ![r].told = a = "402" /\ paidFor # {}]
\* replaySet and replay.delete, and replaySet of what is final.
Sets(r, v) ==
  local' = [local EXCEPT ![InstOf[r]] = IF v.st \in Finals THEN v.st ELSE "none"]
Remembers(r, v) == IF v.st \in Finals THEN Sets(r, v) ELSE UNCHANGED local
\* The Attempt is looked up by payment.  A claim needs a free slot, so whoever
\* holds the claim finds its own or, once somebody's finally took it, none.
Known(r) == attempt[InstOf[r]] = r

----------------------------------------------------------------------------
(* The chain. *)

\* The payer may submit what the payer signed.
Takes(res) == /\ led = "none" /\ led' = res
              /\ UNCHANGED <<slot, faults, inst, req, opened, history, now>>
Land == Takes("paid")
Fail == Takes("failed")

\* A start slot is 1 if it is past the transaction's, which a node that lags may
\* not say yet.
StartSlots == IF led = "none" THEN {0} ELSE {0, 1}
\* findPaymentOnChain for somebody whose start slot is ref.  "foreign" is a hint
\* that is not our message, or an error not finalized yet.
Finds(ref) ==
  {"unknown"} \cup
  CASE led = "paid" -> {IF ref = 1 THEN "replay" ELSE "paid"}
    [] led = "failed" -> {"failed", "foreign"}
    [] OTHER -> {}

----------------------------------------------------------------------------
(* The first request. *)

\* The local checks, the start slot and the fingerprint; without one of them the
\* answer is 402 or 503 and nothing else happens.
Open(r, q) ==
  /\ At(r, "idle") /\ opened < MaxReqs /\ (opened = 0 => q = FirstRq)
  /\ opened' = opened + 1
  /\ local[InstOf[r]] \notin Finals
  /\ \E s \in StartSlots :
       req' = [req EXCEPT ![r] = [Idle EXCEPT !.pc = "claim", !.id = opened + 1,
                                    !.rq = q, !.at = now, !.start = s]]
  /\ UNCHANGED <<slot, faults, inst, led, history, now>>

ClaimOf(r) == [st |-> "in_flight", fs |-> req[r].start, lease |-> req[r].at,
               own |-> req[r].id, tx |-> None, rq |-> req[r].rq]
Claim(r) ==
  /\ At(r, "claim")
  /\ \/ /\ Answered(SetNX(ClaimOf(r)))
        /\ \/ /\ Holds(Free)
              /\ req' = [req EXCEPT ![r].pc = "serve", ![r].val = ClaimOf(r),
                                    ![r].start = 0]
              /\ Sets(r, ClaimOf(r))
              /\ attempt' = [attempt EXCEPT ![InstOf[r]] = r]
           \/ /\ ~Holds(Free)
              /\ req' = IF slot.st \in Finals THEN Refused(r) ELSE Goto(r, "read")
              /\ Remembers(r, slot)
              /\ UNCHANGED attempt
     \/ /\ Lost(SetNX(ClaimOf(r)))
        /\ req' = Refused(r)
        /\ UNCHANGED inst
  /\ UNCHANGED <<opened, led, history, now>>

Mark(r, st) == [Bare(st) EXCEPT !.rq = Mine(r).rq]
Settled(r) == Mark(r, "settled")
Failed(r) == Mark(r, "settle_failed")
Undelivered(r) == [Mark(r, "settle_unconfirmed") EXCEPT !.fs = Mine(r).fs]
\* replayWrite and replayRelease: this instance's map first, then the store.
\* Only the Attempt tells what the claim wrote and what was asked.
Says(r, v, a) ==
  /\ IF Known(r) THEN Ends(r, "cas", v, a)
                  ELSE Ends(r, "set", [v EXCEPT !.rq = None], a)
  /\ Sets(r, v)
Release(r, a) == /\ Ends(r, IF Known(r) THEN "casdel" ELSE "del", Free, a)
                 /\ Sets(r, Free)

\* withX402: verify and route.  An exception, of ours or the route's, ends here.
Serve(r) ==
  /\ At(r, "serve")
  /\ \/ \E a \in {"402", "no"} : Release(r, a)
     \/ /\ led = "none"
        /\ req' = Goto(r, "settle")
        /\ UNCHANGED local
  /\ UNCHANGED <<slot, faults, attempt, opened, led, history, now>>

\* The Attempt the outcome goes to is looked up when the settle begins.
Settle(r) ==
  /\ At(r, "settle")
  /\ \E ask \in {"sent", "refused"} :
       /\ req' = [req EXCEPT ![r].pc = "asked", ![r].ask = ask,
                              ![r].noted = Known(r)]
       /\ paidFor' = IF ask = "sent" THEN paidFor \cup {req[r].rq} ELSE paidFor
  /\ UNCHANGED <<slot, faults, inst, opened, led, delivered, told, marked,
                 lostMarks, now>>

\* classifySettleResult and classifySettleThrow: failed was never submitted, a
\* duplicate may have been delivered elsewhere.
Outcomes(r) == CASE req[r].ask = "refused" -> {"failed"}
                 [] led = "paid" -> {"unconfirmed", "duplicate", "success"}
                 [] OTHER -> {"unconfirmed", "duplicate"}
SettleAnswers(r) ==
  /\ At(r, "asked")
  /\ \E out \in Outcomes(r) :
       req' = [req EXCEPT ![r].pc = "judge", ![r].ask = "none",
                          ![r].settle = IF req[r].noted THEN out ELSE "none",
                          ![r].noted = FALSE]
  /\ UNCHANGED <<slot, faults, inst, opened, led, history, now>>

\* Mutant: what is not found is taken as failed.
MutConfirm(r, sees) ==
  CASE sees = "replay" -> Says(r, Settled(r), "no")
    [] sees = "paid" -> Says(r, Settled(r), "200")
    [] OTHER -> Says(r, Failed(r), "402")

Confirm(r, sees) ==
  CASE sees = "replay" -> Says(r, Settled(r), "no")
    [] sees = "paid" -> Says(r, Settled(r), "200")
    [] req[r].settle = "success" /\ sees = "unknown" -> Says(r, Settled(r), "200")
    [] req[r].settle = "unconfirmed" /\ sees = "failed" -> Says(r, Failed(r), "402")
    [] OTHER -> Says(r, Undelivered(r), "no")

\* Mutant: a facilitator's duplicate is taken as nothing charged.
MutJudge(r) ==
  /\ At(r, "judge")
  /\ CASE req[r].settle = "none" -> Release(r, "402")
       [] req[r].settle = "failed" -> Says(r, Failed(r), "402")
       [] req[r].settle = "duplicate" -> Release(r, "no")
       [] OTHER -> \E sees \in Finds(Mine(r).fs) : Confirm(r, sees)
  /\ UNCHANGED <<slot, faults, attempt, opened, led, history, now>>

\* No settle noted counts as none made: nothing was charged.
Judge(r) ==
  /\ At(r, "judge")
  /\ CASE req[r].settle = "none" -> Release(r, "402")
       [] req[r].settle = "failed" -> Says(r, Failed(r), "402")
       [] req[r].settle = "duplicate" -> Says(r, Undelivered(r), "no")
       [] OTHER -> \E sees \in Finds(Mine(r).fs) : Confirm(r, sees)
  /\ UNCHANGED <<slot, faults, attempt, opened, led, history, now>>

----------------------------------------------------------------------------
(* The redeem. *)

\* Mutant: nobody's lease is waited for.
MutLeaseOver(v) == TRUE

LeaseOver(v) == v.lease # None /\ now - v.lease >= Lease
\* Mutant: a payment is redeemed by any request that carries it.
MutMatches(r, v) == TRUE

Matches(r, v) == v.rq = req[r].rq
Redeems(r, v) ==
  /\ v.st \in {"in_flight", "settle_unconfirmed", "redeeming"}
  /\ v.st \in {"in_flight", "redeeming"} => LeaseOver(v)
  /\ Matches(r, v)
Read(r) ==
  /\ At(r, "read")
  /\ \/ /\ req' = IF Redeems(r, slot)
                  THEN [req EXCEPT ![r].pc = "take", ![r].val = slot,
                                   ![r].start = now]
                  ELSE Refused(r)
        /\ Remembers(r, slot)
        /\ UNCHANGED <<slot, faults>>
     \/ Throws /\ req' = Refused(r) /\ UNCHANGED local
  /\ UNCHANGED <<attempt, opened, led, history, now>>

\* Mutant: a lease is stored by its end.
MutLeaseOf(r) == [Mine(r) EXCEPT !.st = "redeeming", !.own = req[r].id,
                                 !.lease = req[r].start + Lease]

LeaseOf(r) == [Mine(r) EXCEPT !.st = "redeeming", !.own = req[r].id,
                              !.lease = req[r].start]
Take(r) ==
  /\ At(r, "take")
  /\ \/ /\ Answered(CompareAndSet({Mine(r)}, LeaseOf(r)))
        /\ req' = IF Holds(Mine(r))
                  THEN [req EXCEPT ![r].pc = "look", ![r].val = LeaseOf(r),
                                   ![r].start = 0]
                  ELSE Refused(r)
     \/ Lost(CompareAndSet({Mine(r)}, LeaseOf(r))) /\ req' = Refused(r)
  /\ UNCHANGED <<inst, opened, led, history, now>>

\* Mutant: the payment is marked before the route answered.
MutLook(r) ==
  /\ At(r, "look")
  /\ \E sees \in Finds(Mine(r).fs) :
       CASE sees = "paid" -> \/ Ends(r, "cas", Settled(r), "200")
                             \/ Ends(r, "cas", Settled(r), "no")
         [] sees = "failed" -> Ends(r, "cas", Failed(r), "402")
         [] sees = "replay" -> Ends(r, "cas", Settled(r), "no")
         [] OTHER -> Ends(r, "cas", Undelivered(r), "no")
  /\ UNCHANGED <<slot, faults, inst, opened, led, history, now>>

\* The route runs after the payment was found; an error of it, or an exception
\* anywhere here, puts the payment back.
Look(r) ==
  /\ At(r, "look")
  /\ \E sees \in Finds(Mine(r).fs) :
       CASE sees = "paid" -> \/ Ends(r, "cas",
                                     [Settled(r) EXCEPT !.own = req[r].id], "200")
                             \/ Ends(r, "cas", Undelivered(r), "no")
         [] sees = "failed" -> Ends(r, "cas", Failed(r), "402")
         [] sees = "replay" -> Ends(r, "cas", Settled(r), "no")
         [] OTHER -> Ends(r, "cas", Undelivered(r), "no")
  /\ UNCHANGED <<slot, faults, inst, opened, led, history, now>>

----------------------------------------------------------------------------
(* The last write, whose errors are swallowed, and the answer. *)

After(r) ==
  LET t == req[r].todo IN
  CASE t.op = "cas" -> CompareAndSet({Mine(r)}, t.next)
    [] t.op = "casdel" -> CompareAndDelete(Mine(r))
    [] t.op = "set" -> Put(t.next)
    [] OTHER -> Del
Write(r) ==
  /\ At(r, "write")
  /\ Answered(After(r)) \/ Lost(After(r))
  /\ req' = Goto(r, "reply")
  /\ IF Mine(r).st = "redeeming" THEN Remembers(r, req[r].todo.next)
                                 ELSE UNCHANGED local
  /\ marked' = (marked \/ req[r].paid)
  /\ lostMarks' = IF /\ faults' # faults /\ req[r].paid
                     /\ slot' # req[r].todo.next
                  THEN lostMarks + 1 ELSE lostMarks
  /\ UNCHANGED <<attempt, opened, led, paidFor, delivered, told, now>>

\* The finally of a request that claimed removes whatever the map holds.
Claimed(r) == Mine(r).st = "in_flight" /\ Mine(r).own = req[r].id
Reply(r) ==
  /\ At(r, "reply")
  /\ req' = [req EXCEPT ![r] = Idle]
  /\ delivered' = delivered + (IF req[r].paid THEN 1 ELSE 0)
  /\ told' = (told \/ req[r].told)
  /\ attempt' = IF Claimed(r) THEN [attempt EXCEPT ![InstOf[r]] = None]
                              ELSE attempt
  /\ UNCHANGED <<slot, faults, local, opened, led, paidFor, marked, lostMarks,
                 now>>

\* The platform ends a request at 60 s, or earlier.  Its Attempt stays behind,
\* but the next claim replaces it before anybody looks.
Dies(r) ==
  /\ req[r].pc \in Steps
  /\ req' = [req EXCEPT ![r] = Idle]
  /\ attempt' = [i \in Insts |-> IF attempt[i] = r THEN None ELSE attempt[i]]
  /\ UNCHANGED <<slot, faults, local, opened, led, history, now>>

\* An instance that runs nothing ends, and its maps with it.
Recycled(i) ==
  /\ \A r \in Reqs : InstOf[r] = i => At(r, "idle")
  /\ local' = [local EXCEPT ![i] = "none"]
  /\ attempt' = [attempt EXCEPT ![i] = None]
  /\ UNCHANGED <<slot, faults, req, opened, led, history, now>>

Tick ==
  /\ now < MaxTime
  /\ \A r \in Reqs : req[r].pc \in Steps => now - req[r].at < MaxReq
  /\ now' = now + 1
  /\ UNCHANGED <<slot, faults, inst, req, opened, led, history>>

Next ==
  \/ \E r \in Reqs :
       \/ \E q \in Rqs : Open(r, q)
       \/ Claim(r) \/ Serve(r) \/ Settle(r) \/ SettleAnswers(r) \/ Judge(r)
       \/ Read(r) \/ Take(r) \/ Look(r) \/ Write(r) \/ Reply(r) \/ Dies(r)
  \/ \E i \in Insts : Recycled(i)
  \/ Land \/ Fail \/ Tick
Spec == Init /\ [][Next]_vars

----------------------------------------------------------------------------
TypeOK ==
  /\ slot \in Values /\ faults \in 0..MaxFaults
  /\ local \in [Insts -> Finals \cup {"none"}]
  /\ attempt \in [Insts -> Reqs \cup {None}]
  /\ \A r \in Reqs : /\ req[r].pc \in Steps \cup {"idle"}
                     /\ req[r].id \in 0..opened /\ req[r].rq \in Rqs
                     /\ req[r].val \in Values /\ req[r].todo.next \in Values
  /\ led \in {"none", "paid", "failed"} /\ paidFor \subseteq Rqs
  /\ opened \in 0..MaxReqs /\ {told, marked} \subseteq BOOLEAN
  /\ delivered \in Nat /\ lostMarks \in Nat /\ now \in Time

\* One payment is delivered once, whatever overlaps, dies or takes over, unless
\* the store lost the mark that said so.
OneDelivery == delivered <= 1 + lostMarks

\* The payment has landed for whoever got the paid response, and what was asked
\* is what a settle of ours was made for, if one was.
DeliveredToPayer ==
  \A r \in Reqs : req[r].paid /\ At(r, "reply") =>
    led = "paid" /\ (paidFor # {} => req[r].rq \in paidFor)

\* The replay guard: no payment is delivered twice, nor to a request it was not
\* made for.
DeliveredOnce == OneDelivery /\ DeliveredToPayer

\* A request that claimed or redeemed and was told 402, pay again, was told so of
\* a payment that did not land after it was submitted.
RefusedNotCharged == told => led # "paid"

\* A payment we submitted that landed and was not delivered is in the slot, with
\* the request it can be redeemed by, or some request is at it, or the one that
\* wrote the delivered mark died before its answer.
ChargedRecoverable ==
  led = "paid" /\ paidFor # {} /\ delivered = 0 =>
    \/ /\ slot.st \in {"in_flight", "settle_unconfirmed", "redeeming"}
       /\ slot.rq \in paidFor
    \/ \E r \in Reqs : req[r].pc \in Steps /\ Mine(r) # Free
    \/ slot.st = "settled" /\ marked

\* An instance that refuses a payment from memory refuses one that was paid, or
\* one that charges nobody: the map is written before the store and outlives it.
LocalIsFinal ==
  \A i \in Insts :
    /\ local[i] = "settled" => led = "paid"
    /\ local[i] = "settle_failed" => led # "paid" \/ paidFor = {}
=============================================================================
