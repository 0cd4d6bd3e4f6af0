------------------------------ MODULE SellerDd ------------------------------
(***************************************************************************)
(* The seller due diligence: paidFlow, redeemFlow and reconcileUnconfirmed of *)
(* lib/seller-dd/handler.ts, the test payment of engine.ts and the cron's      *)
(* reconcileOpen, over the ledger of caps.ts and the claim of premium/claim.ts. *)
(*                                                                         *)
(* A request pays the seller a test payment of ours and, when every check      *)
(* passes, settles the buyer's payment.  The verdict is cached and logged       *)
(* before the settle; a settle that is not confirmed leaves a claim the buyer   *)
(* may redeem, and the daily cron closes what never landed as our loss.        *)
(*                                                                         *)
(* Requests run once; actors are redeems and cron passes, any number of them.  *)
(* An invocation lasts 60 s at most (one tick).  A store command is a step of   *)
(* its own and may fail, applied or not, except where nobody can look between   *)
(* two of them.                                                            *)
(***************************************************************************)
EXTENDS SellerDdCaps

CONSTANTS Auths,
          ValidBefore,   \* of each buyer authorization
          Rqs,           \* request fingerprints
          Acts,          \* redeems and cron passes at a time
          None,
          ClaimTTL,      \* CLAIM_TTL_MS.inflight
          MinRemaining,  \* SYNC_MIN_REMAINING_S
          SlotCap,       \* BRIEF_DECLINE_CAP
          FailLimit,     \* SETTLE_FAIL_LIMIT, SELLER_SETTLE_FAIL_LIMIT
          SlowReads,     \* may a chain read answer across the end of validity?
          MaxTime,       \* bound: last tick of the clock
          MaxFaults,     \* bound: store errors
          MaxCrashes     \* bound: invocations that die

ASSUME SellerDdAssumption ==
  /\ ValidBefore \in [Auths -> Nat]
  /\ {ClaimTTL, MinRemaining} \subseteq Nat \ {0}
  /\ {SlotCap, FailLimit, MaxTime, MaxFaults, MaxCrashes} \subseteq Nat
  /\ SlowReads \in BOOLEAN
  /\ None \notin Reqs \cup Rqs \cup Auths
\* An invocation (60 s) is gone before its claim (120 s) or its test payment's
\* authorization (4 min) ends, and before the buyer's (120 s at least).
ASSUME TimeAssumption == ClaimTTL > 1 /\ TestValid > 1 /\ MinRemaining > 1

VARIABLES
  claim,      \* claim:<from>:<nonce>
  verdict,    \* dd:verdict:<claim>: the request that made it
  logged,     \* receipt records
  pend,       \* dd:unconfirmed, scored by the buyer's validBefore
  closed,     \* dd:closed:<claim>
  slots,      \* brief:declines:<payer>:<day> of the one payer
  fails,      \* settle failures counted, or FailLimit when latched
  chain,      \* buyer's authorizations: unused, paid or cancelled
  sent,       \* requests that submitted their authorization
  unsigned,   \* requests whose passed verdict could not be signed
  delivered,  \* answers that carried each request's verdict
  told,       \* authorizations answered "nothing was charged"
  req, act,   \* the requests; the redeems and cron passes
  now, faults, crashes

store  == <<claim, verdict, logged, pend, closed, slots, fails>>
seen   == <<chain, sent, unsigned, delivered, told>>
meters == <<now, faults, crashes>>
vars   == <<ledger, store, seen, req, act, meters>>

NoClaim == [s |-> "none", o |-> None, rq |-> None, exp |-> 0]
Claims == [s: {"none", "inflight", "settled", "unconfirmed", "redeemed",
               "declined"},
           o: Reqs \cup {None}, rq: Rqs \cup {None}, exp: Nat]
Fresh == [pc |-> "new", auth |-> None, rq |-> None, aged |-> FALSE]
Early == {"claim", "nonce", "check", "slot", "release"}
Engine == {"engine", "book", "sign", "unsign", "watch"}
Late == {"decline", "cache", "log", "undo", "lose", "settle", "asked", "unconf",
         "pend", "refund", "mark"}
Request == [pc: {"new", "end"} \cup Early \cup Engine \cup Late,
            auth: Auths \cup {None}, rq: Rqs \cup {None}, aged: BOOLEAN]
Idle == [pc |-> "idle", auth |-> None, by |-> None, cron |-> FALSE,
         used |-> FALSE, aged |-> FALSE]
Actor == [pc: {"idle", "probe", "judge", "close", "lose", "drop", "give", "hand",
               "adjust"},
          auth: Auths \cup {None}, by: Reqs \cup {None}, cron: BOOLEAN,
          used: BOOLEAN, aged: BOOLEAN]

Init ==
  /\ CapsInit
  /\ claim = [a \in Auths |-> NoClaim]
  /\ verdict = [a \in Auths |-> None]
  /\ logged = {} /\ pend = {} /\ closed = {}
  /\ slots = 0 /\ fails = 0
  /\ chain = [a \in Auths |-> "unused"]
  /\ sent = {} /\ unsigned = {} /\ told = {}
  /\ delivered = [r \in Reqs |-> 0]
  /\ req = [r \in Reqs |-> Fresh]
  /\ act = [d \in Acts |-> Idle]
  /\ now = 0 /\ faults = 0 /\ crashes = 0

----------------------------------------------------------------------------
Auth(r)    == req[r].auth
At(r, l)   == req[r].pc = l
Goto(r, l) == req' = [req EXCEPT ![r].pc = l] /\ UNCHANGED act
End(r)     == Goto(r, "end")
Fault == faults < MaxFaults /\ faults' = faults + 1
\* A command that is applied; one that fails, applied or not.
Applied(x, y)  == x' = y /\ UNCHANGED faults
Lost(x, y)     == x' \in {x, y} /\ Fault
Tried(x, y)    == Applied(x, y) \/ Lost(x, y)

\* Only an inflight claim can lapse within the horizon.
Live(a) == /\ claim[a].s # "none"
           /\ claim[a].s = "inflight" => now < claim[a].exp
Mine(r) == LET c == claim[Auth(r)] IN
             c.o = r /\ c.s = "inflight" /\ now < c.exp
As(a, s) == [claim EXCEPT ![a].s = s, ![a].exp = 0]
\* moveClaim(...).catch(() => null), by its owner
Move(r, s) == Tried(claim, IF Mine(r) THEN As(Auth(r), s) ELSE claim)

----------------------------------------------------------------------------
(* paidFlow, up to the engine. *)

Open(r, a, rq) ==
  /\ At(r, "new") /\ now + MinRemaining <= ValidBefore[a]
  /\ fails < FailLimit
  /\ req' = [req EXCEPT ![r] = [Fresh EXCEPT !.pc = "claim", !.auth = a,
                                             !.rq = rq]]
  /\ UNCHANGED <<ledger, store, seen, act, meters>>

Inflight(r) == [s |-> "inflight", o |-> r, rq |-> req[r].rq,
                exp |-> now + ClaimTTL]
TryClaim(r) ==
  /\ At(r, "claim")
  /\ LET mine == [claim EXCEPT ![Auth(r)] = Inflight(r)] IN
       \/ /\ ~Live(Auth(r)) /\ Goto(r, "nonce")
          /\ Applied(claim, mine)
       \/ /\ ~Live(Auth(r)) /\ End(r)
          /\ Lost(claim, mine)
       \/ /\ Live(Auth(r)) /\ End(r)
          /\ UNCHANGED <<claim, faults>>
  /\ UNCHANGED <<ledger, verdict, logged, pend, closed, slots, fails, seen, now,
                 crashes>>

\* Used or unknown, or the facilitator does not verify it: given back.
CheckNonce(r) == /\ At(r, "nonce") /\ chain[Auth(r)] = "unused"
                 /\ Goto(r, "check")
                 /\ UNCHANGED <<ledger, store, seen, meters>>
Verify(r) == /\ At(r, "check") /\ Goto(r, "slot")
             /\ UNCHANGED <<ledger, store, seen, meters>>
Refuse(r) == /\ req[r].pc \in {"nonce", "check"} /\ Goto(r, "release")
             /\ UNCHANGED <<ledger, store, seen, meters>>
Release(r) ==
  /\ At(r, "release") /\ End(r)
  /\ Tried(claim, IF Mine(r) THEN [claim EXCEPT ![Auth(r)] = NoClaim] ELSE claim)
  /\ UNCHANGED <<ledger, verdict, logged, pend, closed, slots, fails, seen, now,
                 crashes>>

TakeDeclineSlot(r) ==
  /\ At(r, "slot")
  /\ \/ /\ slots < SlotCap /\ Goto(r, "engine") /\ Applied(slots, slots + 1)
     \/ /\ slots < SlotCap /\ Goto(r, "release") /\ Lost(slots, slots + 1)
     \/ /\ slots >= SlotCap /\ Goto(r, "release") /\ UNCHANGED <<slots, faults>>
  /\ UNCHANGED <<ledger, claim, verdict, logged, pend, closed, fails, seen, now,
                 crashes>>

----------------------------------------------------------------------------
(* runSellerDd: the checks before the test payment, the reservation, the        *)
(* signature, what the chain says of it.                                     *)

Block(r) == /\ At(r, "engine") /\ Goto(r, "decline")
            /\ UNCHANGED <<ledger, store, seen, meters>>

\* The reservation is refused, or fails with the counters taken or not: then
\* the handler does not know of them.
Reserve(r) ==
  /\ At(r, "engine")
  /\ \/ /\ TakeAll /\ Goto(r, "book")
        /\ expires' = [expires EXCEPT ![r] = now + TestValid]
        /\ UNCHANGED faults
     \/ /\ Fault /\ Goto(r, "decline")
        /\ TakeAll \/ UNCHANGED counters
        /\ UNCHANGED expires
     \/ /\ ~Fits /\ Goto(r, "decline")
        /\ UNCHANGED <<counters, expires, faults>>
  /\ UNCHANGED <<booking, losses, test, store, seen, now, crashes>>

\* Mutant: a write that fails after the reservation is ignored.
MutBookTest(r) ==
  /\ At(r, "book") /\ Goto(r, "sign")
  /\ \/ Book(r, 3) /\ UNCHANGED faults
     \/ Fault /\ \E n \in 0..3 : Book(r, n)
  /\ UNCHANGED <<counters, losses, pays, store, seen, now, crashes>>

\* A write that fails after the reservation gives it back.
BookTest(r) ==
  /\ At(r, "book")
  /\ \/ Book(r, 3) /\ Goto(r, "sign") /\ UNCHANGED faults
     \/ /\ Fault /\ Goto(r, "unsign")
        /\ \E n \in 0..3 : Book(r, n)
  /\ UNCHANGED <<counters, losses, pays, store, seen, now, crashes>>

Sign(r) == /\ At(r, "sign") /\ Goto(r, "watch")
           /\ SignTest(r)
           /\ UNCHANGED <<counters, booking, losses, expires, store, seen, meters>>
RefuseSign(r) == /\ At(r, "sign") /\ Goto(r, "unsign")
                 /\ UNCHANGED <<ledger, store, seen, meters>>
Unsign(r) ==
  /\ At(r, "unsign") /\ Goto(r, "decline")
  /\ \/ ReleaseUnsigned(r) /\ UNCHANGED faults
     \/ /\ Fault
        /\ ReleaseUnsigned(r) \/ UNCHANGED <<counters, booking>>
  /\ UNCHANGED <<losses, pays, store, seen, now, crashes>>

\* recordLoss, cut short by an error its caller swallows.
Lose(r, confirmed) == \/ RecordLoss(r, confirmed, 2) /\ UNCHANGED faults
                      \/ Fault /\ \E n \in 0..2 : RecordLoss(r, confirmed, n)

\* Four reads see it landed, and every check passes; the verdict is signed, or
\* the signer throws.
Confirm(r) == /\ At(r, "watch") /\ test[r] = "landed" /\ Goto(r, "cache")
              /\ UNCHANGED <<ledger, store, seen, meters>>
SignerFails(r) ==
  /\ At(r, "watch") /\ test[r] = "landed" /\ Goto(r, "decline")
  /\ unsigned' = unsigned \cup {r}
  /\ UNCHANGED <<ledger, store, chain, sent, delivered, told, meters>>
\* Mutant: every loss is written as confirmed.
MutFailChecks(r) ==
  /\ At(r, "watch") /\ Goto(r, "decline") /\ Lose(r, TRUE)
  /\ UNCHANGED <<counters, booking, pays, store, seen, now, crashes>>

\* It is not seen to land, or it landed and another check fails: our loss.
FailChecks(r) ==
  /\ At(r, "watch") /\ Goto(r, "decline")
  /\ \/ test[r] = "landed" /\ Lose(r, TRUE)
     \/ Lose(r, FALSE)
  /\ UNCHANGED <<counters, booking, pays, store, seen, now, crashes>>
Decline(r) ==
  /\ At(r, "decline") /\ End(r) /\ Move(r, "declined")
  /\ UNCHANGED <<ledger, verdict, logged, pend, closed, slots, fails, seen, now,
                 crashes>>

----------------------------------------------------------------------------
(* paidFlow, after a pass: the verdict and its receipt, then the settle. *)

\* Mutant: a verdict that cannot be cached is settled all the same.
MutCacheVerdict(r) ==
  /\ At(r, "cache") /\ Goto(r, "log")
  /\ Tried(verdict, [verdict EXCEPT ![Auth(r)] = r])
  /\ UNCHANGED <<ledger, claim, logged, pend, closed, slots, fails, seen, now,
                 crashes>>

CacheVerdict(r) ==
  /\ At(r, "cache")
  /\ LET mine == [verdict EXCEPT ![Auth(r)] = r] IN
       \/ Applied(verdict, mine) /\ Goto(r, "log")
       \/ Lost(verdict, mine) /\ Goto(r, "undo")
  /\ UNCHANGED <<ledger, claim, logged, pend, closed, slots, fails, seen, now,
                 crashes>>
LogReceipt(r) ==
  /\ At(r, "log")
  /\ \/ Applied(logged, logged \cup {r}) /\ Goto(r, "settle")
     \/ Lost(logged, logged \cup {r}) /\ Goto(r, "undo")
  /\ UNCHANGED <<ledger, claim, verdict, pend, closed, slots, fails, seen, now,
                 crashes>>
\* Neither: not settled, and the test payment is lost.
Undo(r) ==
  /\ At(r, "undo") /\ Goto(r, "lose") /\ Move(r, "declined")
  /\ UNCHANGED <<ledger, verdict, logged, pend, closed, slots, fails, seen, now,
                 crashes>>
LoseTest(r) ==
  /\ At(r, "lose") /\ End(r) /\ Lose(r, TRUE)
  /\ UNCHANGED <<counters, booking, pays, store, seen, now, crashes>>

Settle(r) ==
  /\ At(r, "settle") /\ Goto(r, "asked")
  /\ sent' = sent \cup {r}
  /\ UNCHANGED <<ledger, store, chain, unsigned, delivered, told, meters>>
\* A failed counter write latches the route closed.
SettleFails(r) ==
  /\ At(r, "asked") /\ Goto(r, "unconf")
  /\ \/ fails' = fails + 1 /\ UNCHANGED faults
     \/ fails' = FailLimit /\ Fault
  /\ UNCHANGED <<ledger, claim, verdict, logged, pend, closed, slots, seen, now,
                 crashes>>
\* Mutant: the authorization is given back.
MutUnconfirm(r) ==
  /\ At(r, "unconf") /\ Goto(r, "pend")
  /\ Tried(claim, IF Mine(r) THEN [claim EXCEPT ![Auth(r)] = NoClaim] ELSE claim)
  /\ UNCHANGED <<ledger, verdict, logged, pend, closed, slots, fails, seen, now,
                 crashes>>

Unconfirm(r) ==
  /\ At(r, "unconf") /\ Goto(r, "pend") /\ Move(r, "unconfirmed")
  /\ UNCHANGED <<ledger, verdict, logged, pend, closed, slots, fails, seen, now,
                 crashes>>
Pend(r) ==
  /\ At(r, "pend") /\ End(r) /\ Tried(pend, pend \cup {Auth(r)})
  /\ UNCHANGED <<ledger, claim, verdict, logged, closed, slots, fails, seen, now,
                 crashes>>

SettleOk(r) == /\ At(r, "asked") /\ chain[Auth(r)] = "paid" /\ Goto(r, "refund")
               /\ UNCHANGED <<ledger, store, seen, meters>>
RefundSlot(r) ==
  /\ At(r, "refund") /\ Goto(r, "mark") /\ Tried(slots, slots - 1)
  /\ UNCHANGED <<ledger, claim, verdict, logged, pend, closed, fails, seen, now,
                 crashes>>
Deliver(r) == delivered' = [delivered EXCEPT ![r] = @ + 1]
Mark(r) ==
  /\ At(r, "mark") /\ End(r) /\ Move(r, "settled") /\ Deliver(r)
  /\ UNCHANGED <<ledger, verdict, logged, pend, closed, slots, fails, chain, sent,
                 unsigned, told, now, crashes>>

----------------------------------------------------------------------------
(* redeemFlow and reconcileUnconfirmed. *)

Doing(d, l)   == act[d].pc = l
Turn(d, l)    == act' = [act EXCEPT ![d].pc = l] /\ UNCHANGED req
Done(d)       == act' = [act EXCEPT ![d] = Idle] /\ UNCHANGED req
Over(a)       == now >= ValidBefore[a]

\* The payer comes back with the request's fingerprint and a proof.
Redeem(d, a, rq) ==
  /\ Doing(d, "idle")
  /\ claim[a].s = "unconfirmed" /\ verdict[a] # None
  /\ rq = claim[a].rq /\ rq = req[verdict[a]].rq
  /\ act' = [act EXCEPT ![d] = [Idle EXCEPT !.pc = "probe", !.auth = a,
                                            !.by = verdict[a]]]
  /\ UNCHANGED <<ledger, store, seen, req, meters>>
Cron(d, a) ==
  /\ Doing(d, "idle") /\ a \in pend /\ Over(a)
  /\ act' = [act EXCEPT ![d] = [Idle EXCEPT !.pc = "probe", !.auth = a,
                                            !.by = verdict[a], !.cron = TRUE]]
  /\ UNCHANGED <<ledger, store, seen, req, meters>>

\* Mutant: no answer is read as used.
MutProbe(d) == /\ Doing(d, "probe") /\ UNCHANGED req
               /\ \E used \in BOOLEAN :
                    act' = [act EXCEPT ![d].pc = "judge", ![d].used = used]
               /\ UNCHANGED <<ledger, store, seen, meters>>

\* Two nodes agree on an answer, or it is not known.  An authorization that was
\* cancelled reads as used.
Probe(d) ==
  /\ Doing(d, "probe")
  /\ \/ /\ act' = [act EXCEPT ![d].pc = "judge",
                              ![d].used = chain[act[d].auth] # "unused"]
        /\ UNCHANGED req
     \/ Done(d)
  /\ UNCHANGED <<ledger, store, seen, meters>>

\* Mutant: what has not landed yet is closed while it can still land.
MutMayClose(d) == ~act[d].used

\* The clock is read after the chain; the cron has asked it before.
MayClose(d) == ~act[d].used /\ (act[d].cron \/ Over(act[d].auth))
Judge(d) ==
  /\ Doing(d, "judge")
  /\ \/ /\ act[d].used /\ ~act[d].cron
        /\ Turn(d, "give") /\ UNCHANGED <<pend, faults>>
     \/ /\ act[d].used /\ act[d].cron
        /\ Done(d) /\ Tried(pend, pend \ {act[d].auth})
     \/ /\ MayClose(d) /\ Turn(d, "close") /\ UNCHANGED <<pend, faults>>
     \/ /\ ~act[d].used /\ ~MayClose(d) /\ Done(d) /\ UNCHANGED <<pend, faults>>
  /\ UNCHANGED <<ledger, claim, verdict, logged, closed, slots, fails, seen, now,
                 crashes>>

\* Mutant: each one that closes it records the loss.
MutClose(d) ==
  /\ Doing(d, "close") /\ Turn(d, "lose")
  /\ closed' = closed \cup {act[d].auth}
  /\ UNCHANGED <<ledger, claim, verdict, logged, pend, slots, fails, seen, meters>>

\* closeNotCharged: whoever sets the marker records the loss.
Close(d) ==
  /\ Doing(d, "close")
  /\ LET a == act[d].auth IN
       \/ /\ a \notin closed /\ Turn(d, "lose")
          /\ Applied(closed, closed \cup {a})
       \/ /\ a \in closed /\ Turn(d, "drop") /\ UNCHANGED <<closed, faults>>
       \/ /\ Turn(d, "drop") /\ Lost(closed, closed \cup {a})
  /\ UNCHANGED <<ledger, claim, verdict, logged, pend, slots, fails, seen, now,
                 crashes>>
LoseClosed(d) ==
  /\ Doing(d, "lose") /\ Turn(d, "drop")
  /\ IF act[d].by = None THEN UNCHANGED <<losses, faults>>
                         ELSE Lose(act[d].by, TRUE)
  /\ UNCHANGED <<counters, booking, pays, store, seen, now, crashes>>

\* The claim a redeem read, swapped if nobody did before it; ignored if so.
Swapped(d, s) == LET a == act[d].auth IN
  IF claim[a].s = "unconfirmed" THEN As(a, s) ELSE claim
Drop(d) ==
  /\ Doing(d, "drop") /\ Done(d)
  /\ LET less == pend \ {act[d].auth} IN
       IF act[d].cron
         THEN Tried(pend, less) /\ UNCHANGED <<claim, told>>
         ELSE /\ told' = told \cup {act[d].auth}
              /\ \/ Applied(pend, less) /\ claim' = Swapped(d, "declined")
                 \/ Lost(pend, less) /\ claim' = Swapped(d, "declined")
                 \/ /\ Lost(claim, Swapped(d, "declined")) /\ pend' = less
  /\ UNCHANGED <<ledger, verdict, logged, closed, slots, fails, chain, sent,
                 unsigned, delivered, now, crashes>>

\* It delivers whatever becomes of its swap.
Give(d) ==
  /\ Doing(d, "give") /\ Turn(d, "hand")
  /\ LET less == pend \ {act[d].auth} IN
       \/ Applied(pend, less) /\ claim' = Swapped(d, "redeemed")
       \/ Lost(pend, less) /\ claim' = Swapped(d, "redeemed")
       \/ Lost(claim, Swapped(d, "redeemed")) /\ pend' = less
  /\ UNCHANGED <<ledger, verdict, logged, closed, slots, fails, seen, now,
                 crashes>>
Hand(d) ==
  /\ Doing(d, "hand") /\ Done(d)
  /\ Tried(slots, slots - 1) /\ Deliver(act[d].by)
  /\ UNCHANGED <<ledger, claim, verdict, logged, pend, closed, fails, chain, sent,
                 unsigned, told, now, crashes>>

----------------------------------------------------------------------------
(* reconcileOpen, one reservation at a time: what landed is closed, what is    *)
(* unused is given back with its loss.  One that cannot be read is dropped.     *)

Reconcile(d, r) ==
  /\ Doing(d, "idle") /\ r \in open /\ Expired(r, now)
  /\ \/ /\ r \in rec
        /\ act' = [act EXCEPT ![d] = [Idle EXCEPT !.pc = "adjust", !.by = r,
                                       !.used = test[r] = "landed"]]
        /\ UNCHANGED <<req, open, faults>>
     \/ /\ Fault /\ open' = open \ {r} /\ UNCHANGED <<req, act>>
  /\ UNCHANGED <<counters, rec, index, released, losses, pays, store, seen, now,
                 crashes>>
Adjust(d) ==
  /\ Doing(d, "adjust") /\ Done(d)
  /\ LET r == act[d].by IN
       \/ /\ act[d].used
          /\ Tried(open, open \ {r})
          /\ UNCHANGED <<counters, rec, index, released, losses>>
       \/ /\ ~act[d].used /\ Marked(r)
          /\ Tried(open, open \ {r})
          /\ UNCHANGED <<counters, rec, index, released, losses>>
       \/ /\ ~act[d].used /\ ~Marked(r)
          /\ ReleaseUnused(r) /\ ReleaseLoss(r, 2) /\ UNCHANGED faults
       \/ /\ ~act[d].used /\ ~Marked(r) /\ Fault
          /\ ReleaseUnused(r) /\ \E n \in 0..1 : ReleaseLoss(r, n)
  /\ UNCHANGED <<pays, store, seen, now, crashes>>

----------------------------------------------------------------------------
(* The chain, crashes and the clock. *)

Land(a) == /\ \E r \in sent : Auth(r) = a
           /\ chain[a] = "unused" /\ now < ValidBefore[a]
           /\ chain' = [chain EXCEPT ![a] = "paid"]
           /\ UNCHANGED <<ledger, store, sent, unsigned, delivered, told, req, act,
                          meters>>
Cancel(a) == /\ chain[a] = "unused" /\ now < ValidBefore[a]
             /\ chain' = [chain EXCEPT ![a] = "cancelled"]
             /\ UNCHANGED <<ledger, store, sent, unsigned, delivered, told, req,
                            act, meters>>
TestLands(r) == /\ LandTest(r, now)
                /\ UNCHANGED <<counters, booking, losses, expires, store, seen,
                               req, act, meters>>

Busy(r) == req[r].pc \notin {"new", "end"}
Die == /\ crashes < MaxCrashes /\ crashes' = crashes + 1
       /\ UNCHANGED <<ledger, store, seen, now, faults>>
Crash(r)    == Busy(r) /\ End(r) /\ Die
CrashAct(d) == ~Doing(d, "idle") /\ Done(d) /\ Die
Tick ==
  /\ now < MaxTime /\ now' = now + 1
  /\ \A r \in Reqs : ~(Busy(r) /\ req[r].aged)
  /\ \A d \in Acts : ~act[d].aged /\ (SlowReads \/ ~Doing(d, "judge"))
  /\ req' = [r \in Reqs |-> [req[r] EXCEPT !.aged = Busy(r)]]
  /\ act' = [d \in Acts |-> [act[d] EXCEPT !.aged = ~Doing(d, "idle")]]
  /\ UNCHANGED <<ledger, store, seen, faults, crashes>>

----------------------------------------------------------------------------
PaidFlow(r) ==
  \/ TryClaim(r) \/ CheckNonce(r) \/ Verify(r) \/ Refuse(r) \/ Release(r)
  \/ TakeDeclineSlot(r) \/ Block(r) \/ Reserve(r) \/ BookTest(r) \/ Sign(r)
  \/ RefuseSign(r) \/ Unsign(r) \/ Confirm(r) \/ SignerFails(r) \/ FailChecks(r)
  \/ Decline(r) \/ CacheVerdict(r) \/ LogReceipt(r) \/ Undo(r) \/ LoseTest(r)
  \/ Settle(r) \/ SettleFails(r) \/ Unconfirm(r) \/ Pend(r) \/ SettleOk(r)
  \/ RefundSlot(r) \/ Mark(r)
Next ==
  \/ \E r \in Reqs :
       \/ \E a \in Auths, rq \in Rqs : Open(r, a, rq)
       \/ PaidFlow(r) \/ TestLands(r) \/ Crash(r)
  \/ \E d \in Acts :
       \/ \E a \in Auths : Cron(d, a) \/ \E rq \in Rqs : Redeem(d, a, rq)
       \/ \E r \in Reqs : Reconcile(d, r)
       \/ Adjust(d) \/ Probe(d) \/ Judge(d) \/ Close(d) \/ LoseClosed(d) \/ Drop(d) \/ Give(d)
       \/ Hand(d) \/ CrashAct(d)
  \/ \E a \in Auths : Land(a) \/ Cancel(a)
  \/ Tick
Spec == Init /\ [][Next]_vars

----------------------------------------------------------------------------
(* Properties. *)

Trouble == faults + crashes > 0
Ended(r) == At(r, "end")
\* Nobody works on the authorization, or on the reservation.
QuietFor(a) == /\ \A r \in Reqs : Auth(r) = a => Ended(r)
               /\ \A d \in Acts : act[d].auth # a
Settled(r) == Ended(r) /\ \A d \in Acts : act[d].by # r

\* Every variable has its type; the counters are never given back twice.
TypeOK ==
  /\ {spent, hosts} \subseteq Nat
  /\ rec \subseteq Reqs /\ open \subseteq Reqs /\ index \subseteq Reqs
  /\ released \subseteq Reqs /\ lossRec \subseteq Reqs
  /\ loss \in [Reqs -> Nat] /\ expires \in [Reqs -> Nat]
  /\ test \in [Reqs -> {"none", "signed", "landed"}]
  /\ claim \in [Auths -> Claims] /\ verdict \in [Auths -> Reqs \cup {None}]
  /\ logged \subseteq Reqs /\ sent \subseteq Reqs /\ unsigned \subseteq Reqs
  /\ pend \subseteq Auths /\ closed \subseteq Auths /\ told \subseteq Auths
  /\ slots \in Int /\ fails \in Nat
  /\ chain \in [Auths -> {"unused", "paid", "cancelled"}]
  /\ delivered \in [Reqs -> Nat]
  /\ req \in [Reqs -> Request] /\ act \in [Acts -> Actor]
  /\ {now, faults, crashes} \subseteq Nat

\* caps.ts:7: what can still land, or has, is inside the spend caps, and what
\* was signed for a host inside the host's, through outages and crashes.
CanLand(r) == test[r] = "landed" \/ (test[r] = "signed" /\ now < expires[r])
SpendCovered ==
  /\ Cardinality({r \in Reqs : CanLand(r)}) <= spent /\ spent <= Cap
  /\ Cardinality({r \in Reqs : test[r] # "none"}) <= hosts /\ hosts <= HostCap

\* What did not land is given back: when nothing fails, the caps count what
\* landed and what the cron has yet to look at, once each.
SpendReturned ==
  Trouble \/ spent = Cardinality({r \in Reqs : \/ test[r] = "landed"
                                               \/ r \in open \/ At(r, "book")})

\* The watch on our wallet finds the reservation of whatever left it.
OutflowIsOurs == \A r \in Reqs : test[r] # "none" => r \in index

\* The three together: what leaves our wallet is counted, found and bounded, and
\* what did not leave it is given back once.
SpendTrue == SpendCovered /\ SpendReturned /\ OutflowIsOurs

\* handler.ts:272: the loss of a test payment is on the books once at most, and
\* never with the buyer's payment for it.
LossOnce ==
  \A r \in Reqs : /\ loss[r] <= 1
                  /\ loss[r] = 1 /\ r \in sent => chain[Auth(r)] # "paid"

\* caps.ts:173: a test payment that ended in no charge is on the books, and one
\* that never landed is off them, once everyone is done with it.
LossBooked ==
  \A r \in Reqs : Trouble \/ r \in unsigned \/ ~Settled(r) \/
    /\ test[r] = "landed" /\ (r \notin sent \/ Auth(r) \in closed) => loss[r] = 1
    /\ test[r] = "signed" /\ r \notin open => loss[r] = 0

\* The loss ledger pairs each test payment with what the buyer's payment did.
LossTrue == LossOnce /\ LossBooked

\* A verdict goes out with an authorization that is used, one verdict for each,
\* with its receipt in the log and its own test payment on the chain.
VerdictIsPaid ==
  \A r \in Reqs : delivered[r] > 0 =>
    /\ chain[Auth(r)] # "unused" /\ test[r] = "landed" /\ r \in logged
    /\ \A q \in Reqs \ {r} : delivered[q] > 0 => Auth(q) # Auth(r)

\* handler.ts:220: what can be redeemed has its verdict, for the same request,
\* and the verdict its receipt, whatever failed.
RedeemableCached ==
  \A a \in Auths : claim[a].s = "unconfirmed" =>
    /\ verdict[a] # None /\ verdict[a] \in logged
    /\ claim[a].rq = req[verdict[a]].rq

\* A buyer who was charged has the verdict, or can redeem it.
ChargedRecoverable ==
  \A a \in Auths : chain[a] = "paid" /\ QuietFor(a) =>
    \/ claim[a].s = "unconfirmed" \/ Trouble
    \/ \E r \in Reqs : Auth(r) = a /\ delivered[r] > 0

\* handler.ts:220: a charge whose settle was not confirmed is never lost, and what
\* its redeem needs is there.
ChargedRedeemable == ChargedRecoverable /\ RedeemableCached

\* handler.ts:303: "Nothing was charged" is true, then and later.
ToldTrue == \A a \in told : chain[a] # "paid"

\* What the buyer is told: a verdict only for a payment, and "nothing was
\* charged" only when nothing was.
AnswersTrue == VerdictIsPaid /\ ToldTrue
=============================================================================
