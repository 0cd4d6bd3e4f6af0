---------------------------- MODULE PremiumSync ----------------------------
(***************************************************************************)
(* The synchronous premium tiers: premiumHandler, chargeOnPass and redeem of *)
(* lib/premium/handler.ts, over the shared claim of claim.ts.                *)
(*                                                                         *)
(* A standard tier settles first and works afterwards; the $1 brief works     *)
(* first, inside a daily spend cap and a payer's decline slots, and settles   *)
(* only what passes.  A settle that fails, or work that fails after it,       *)
(* leaves a redeemable claim: the payer may come back once with a proof over  *)
(* the claim's reconcile id.                                               *)
(*                                                                         *)
(* One process is one request, a function invocation of 60 s at most (one    *)
(* tick).  Every store command is a step of its own and may fail.            *)
(***************************************************************************)
EXTENDS Integers, FiniteSets

CONSTANTS Auths, Payers, PayerOf,
          Briefs,        \* those for the brief; the others are standard
          ValidBefore,   \* of each authorization
          Rqs,           \* request fingerprints
          Procs, NoProc,
          ClaimTTL,      \* CLAIM_TTL_MS.inflight
          MinRemaining,  \* SYNC_MIN_REMAINING_S
          SpendCap,      \* brief runs in UNSETTLED_DAILY_CAP_USD
          SlotCap,       \* BRIEF_DECLINE_CAP
          MaxTime,       \* bound: last tick of the clock
          MaxFaults,     \* bound: store errors
          MaxCrashes,    \* bound: requests that die
          MaxLines       \* bound: lines of one authorization after which its
                         \* work succeeds

ASSUME SyncAssumption ==
  /\ Auths # {} /\ PayerOf \in [Auths -> Payers] /\ Briefs \subseteq Auths
  /\ ValidBefore \in [Auths -> Nat]
  /\ {ClaimTTL, MinRemaining} \subseteq Nat \ {0}
  /\ {SpendCap, SlotCap, MaxTime, MaxFaults, MaxCrashes,
      MaxLines} \subseteq Nat
  /\ NoProc \notin Procs
\* claim.ts: an inflight claim (120 s) outlives the request that took it (60 s).
ASSUME TTLAssumption == ClaimTTL > 1

VARIABLES
  claim,      \* claim:<from>:<nonce>
  passed,     \* brief:passed:<claim>: the fingerprint of the cached brief
  spend,      \* brief:unsettled:<day>, in runs
  slots,      \* brief:declines:<payer>:<day>
  flagged,    \* redeem-mismatch:<claim>
  lines,      \* reconcile lines of each authorization; the last is its id
  chain,      \* unused, paid or cancelled
  sent,       \* authorizations submitted to the facilitator
  delivered,  \* answers that carried the paid result
  declined,   \* authorizations answered brief_not_verified
  unpaid,     \* brief runs begun and not known to be settled
  req,        \* the requests
  now, faults, crashes

store  == <<claim, passed, spend, slots, flagged>>
seen   == <<lines, chain, sent, delivered, declined, unpaid>>
meters == <<now, faults, crashes>>
vars   == <<store, seen, req, meters>>

NoRq == "none"
Held == {"inflight", "settled", "unconfirmed", "conflict", "redeemed",
         "declined"}
Claims == [s: Held \cup {"none"}, o: Procs \cup {NoProc}, rq: Rqs \cup {NoRq},
           rc: Nat, landed: BOOLEAN, exp: Nat]
NoClaim == [s |-> "none", o |-> NoProc, rq |-> NoRq, rc |-> 0,
            landed |-> FALSE, exp |-> 0]
\* Steps between the claim and the answer, and those of a redeem.
Owning == {"nonce", "check", "spend", "slot", "unspend", "research", "unslot",
           "cache", "settle", "asked", "refund", "mark", "work", "release"}
Redeeming == {"probe", "redeem", "rework"}
Request == [pc: {"idle", "claim"} \cup Owning \cup Redeeming, auth: Auths,
            rq: Rqs \cup {NoRq}, proof: Nat, held: Claims, aged: BOOLEAN]
Idle == [pc |-> "idle", auth |-> CHOOSE a \in Auths : TRUE, rq |-> NoRq,
         proof |-> 0, held |-> NoClaim, aged |-> FALSE]

Init ==
  /\ claim = [a \in Auths |-> NoClaim]
  /\ passed = [a \in Auths |-> NoRq]
  /\ spend = 0
  /\ slots = [u \in Payers |-> 0]
  /\ flagged = {}
  /\ lines = [a \in Auths |-> 0]
  /\ chain = [a \in Auths |-> "unused"]
  /\ sent = {} /\ declined = {}
  /\ delivered = [a \in Auths |-> 0]
  /\ unpaid = [u \in Payers |-> 0]
  /\ req = [p \in Procs |-> Idle]
  /\ now = 0 /\ faults = 0 /\ crashes = 0

----------------------------------------------------------------------------
(* The claim: SET NX, an exact-value CAS, a compare-and-delete. *)

Auth(p)  == req[p].auth
Payer(p) == PayerOf[Auth(p)]
Brief(p) == Auth(p) \in Briefs
At(p, l) == req[p].pc = l
Goto(p, l) == req' = [req EXCEPT ![p].pc = l]
End(p) == req' = [req EXCEPT ![p] = Idle]
Fault == faults < MaxFaults /\ faults' = faults + 1

\* Only an inflight claim can expire before its authorization is long dead.
Live(a) == /\ claim[a].s # "none"
           /\ claim[a].s = "inflight" => now < claim[a].exp
Current(p) == Live(Auth(p)) /\ claim[Auth(p)] = req[p].held
Put(p, c) == [claim EXCEPT ![Auth(p)] = c]
Moved(p, s, rc, landed) ==
  [req[p].held EXCEPT !.s = s, !.rc = rc, !.landed = landed, !.exp = 0]
As(p, s) == Moved(p, s, req[p].held.rc, req[p].held.landed)
Swap(p, c) == claim' = IF Current(p) THEN Put(p, c) ELSE claim
\* moveClaim(...).catch(() => null): applied or not, an error goes unnoticed.
TryMove(p, c) == \/ Swap(p, c) /\ (UNCHANGED faults \/ Fault)
                 \/ Fault /\ UNCHANGED claim
NewLine(p) == lines' = [lines EXCEPT ![Auth(p)] = @ + 1]
NextLine(p) == lines[Auth(p)] + 1

----------------------------------------------------------------------------
(* The way to the claim. *)

WindowOk(a) == now + MinRemaining <= ValidBefore[a]
Redeemable(a) == claim[a].s = "unconfirmed" /\ claim[a].rc # 0
\* A request with the authorization passes the checks before the claim; a proof
\* is a signature over one of the authorization's reconcile ids (0: none).
Open(p, a, rq, proof) ==
  /\ At(p, "idle")
  /\ a \in Briefs => spend < SpendCap
  /\ WindowOk(a) \/ (proof # 0 /\ Redeemable(a))
  /\ req' = [req EXCEPT ![p] = [Idle EXCEPT !.pc = "claim", !.auth = a,
                                            !.rq = rq, !.proof = proof]]
  /\ UNCHANGED <<store, seen, meters>>

Inflight(p) == [NoClaim EXCEPT !.s = "inflight", !.o = p, !.rq = req[p].rq,
                               !.exp = now + ClaimTTL]
Enters(p, l, c) == req' = [req EXCEPT ![p].pc = l, ![p].held = c]
TakeClaim(p, c) ==
  /\ At(p, "claim") /\ ~Live(Auth(p))
  /\ claim' = Put(p, c)
  /\ Enters(p, "nonce", c)
  /\ UNCHANGED <<passed, spend, slots, flagged, seen, meters>>

\* Mutant: the claim lives as long as one invocation.
MutClaim(p) == TakeClaim(p, [Inflight(p) EXCEPT !.exp = now + 1])

Claim(p) == TakeClaim(p, Inflight(p))

\* Somebody has it: a redeem with the same request and a proof over its id goes
\* on, one with another request or proof is flagged, everything else refused.
Matches(p) == LET c == claim[Auth(p)] IN
                c.rc # 0 /\ req[p].rq = c.rq /\ req[p].proof = c.rc
Taken(p) ==
  /\ At(p, "claim") /\ Live(Auth(p))
  /\ \/ /\ claim[Auth(p)].s = "unconfirmed" /\ Matches(p)
        /\ Enters(p, "probe", claim[Auth(p)])
        /\ UNCHANGED flagged
     \/ /\ claim[Auth(p)].s = "unconfirmed" /\ ~Matches(p)
        /\ flagged' = flagged \cup {Auth(p)}
        /\ End(p)
     \/ /\ claim[Auth(p)].s # "unconfirmed"
        /\ End(p) /\ UNCHANGED flagged
  /\ UNCHANGED <<claim, passed, spend, slots, seen, meters>>

\* tryClaim throws; the SET NX may have been applied.
ThrowClaim(p) ==
  /\ At(p, "claim") /\ Fault /\ End(p)
  /\ \/ UNCHANGED claim
     \/ ~Live(Auth(p)) /\ claim' = Put(p, Inflight(p))
  /\ UNCHANGED <<passed, spend, slots, flagged, seen, now, crashes>>

\* releaseClaim swallows its error: the TTL covers it.
Release(p) ==
  /\ At(p, "release")
  /\ TryMove(p, NoClaim)
  /\ End(p)
  /\ UNCHANGED <<passed, spend, slots, flagged, seen, now, crashes>>

\* An authorization used before is a conflict.
CheckNonce(p) ==
  /\ At(p, "nonce")
  /\ IF chain[Auth(p)] = "unused"
       THEN Goto(p, "check") /\ UNCHANGED <<claim, lines, faults>>
       ELSE /\ NewLine(p)
            /\ TryMove(p, Moved(p, "conflict", NextLine(p), FALSE))
            /\ End(p)
  /\ UNCHANGED <<passed, spend, slots, flagged, chain, sent, delivered,
                 declined, unpaid, now, crashes>>
\* No answer about the nonce, an invalid payment, no time or no block number.
Refuse(p) == /\ req[p].pc \in {"nonce", "check"}
             /\ Goto(p, "release")
             /\ UNCHANGED <<store, seen, meters>>
Verify(p) == /\ At(p, "check")
             /\ Goto(p, IF Brief(p) THEN "spend" ELSE "settle")
             /\ UNCHANGED <<store, seen, meters>>

----------------------------------------------------------------------------
(* chargeOnPass: the spend cap, a decline slot, the research, the cache. *)

ReserveSpend(p) ==
  /\ At(p, "spend")
  /\ \/ /\ spend < SpendCap /\ spend' = spend + 1
        /\ Goto(p, "slot") /\ UNCHANGED faults
     \/ /\ spend >= SpendCap
        /\ Goto(p, "release") /\ UNCHANGED <<spend, faults>>
     \/ /\ Fault /\ Goto(p, "release")
        /\ UNCHANGED spend \/ (spend < SpendCap /\ spend' = spend + 1)
  /\ UNCHANGED <<claim, passed, slots, flagged, seen, now, crashes>>

SlotTaken(p) == slots' = [slots EXCEPT ![Payer(p)] = @ + 1]
SlotFree(p) == slots[Payer(p)] < SlotCap
ReserveSlot(p) ==
  /\ At(p, "slot")
  /\ \/ /\ SlotFree(p) /\ SlotTaken(p) /\ Goto(p, "research")
        /\ unpaid' = [unpaid EXCEPT ![Payer(p)] = @ + 1]
        /\ UNCHANGED faults
     \/ /\ ~SlotFree(p) /\ Goto(p, "unspend")
        /\ UNCHANGED <<slots, unpaid, faults>>
     \/ /\ Fault /\ Goto(p, "unspend") /\ UNCHANGED unpaid
        /\ UNCHANGED slots \/ (SlotFree(p) /\ SlotTaken(p))
  /\ UNCHANGED <<claim, passed, spend, flagged, lines, chain, sent, delivered,
                 declined, now, crashes>>
\* Mutant: so is a slot, which was not taken.
MutUnspend(p) ==
  /\ At(p, "unspend") /\ Goto(p, "release")
  /\ spend' = spend - 1
  /\ slots' = [slots EXCEPT ![Payer(p)] = @ - 1]
  /\ UNCHANGED <<claim, passed, flagged, seen, meters>>

\* No slot: the run that will not happen is given back.
Unspend(p) ==
  /\ At(p, "unspend") /\ Goto(p, "release")
  /\ \/ spend' = spend - 1 /\ UNCHANGED faults
     \/ Fault /\ UNCHANGED spend
  /\ UNCHANGED <<claim, passed, slots, flagged, seen, now, crashes>>

\* It passes, we have an outage, or it is declined and never settled.
Pass(p)   == /\ At(p, "research") /\ Goto(p, "cache")
             /\ UNCHANGED <<store, seen, meters>>
Outage(p) == /\ At(p, "research") /\ Goto(p, "unslot")
             /\ UNCHANGED <<store, seen, meters>>

\* Mutant: a brief that does not pass gives its authorization back.
MutDecline(p) ==
  /\ At(p, "research")
  /\ declined' = declined \cup {Auth(p)}
  /\ TryMove(p, NoClaim)
  /\ End(p)
  /\ UNCHANGED <<passed, spend, slots, flagged, lines, chain, sent, delivered,
                 unpaid, now, crashes>>

Decline(p) ==
  /\ At(p, "research")
  /\ declined' = declined \cup {Auth(p)}
  /\ TryMove(p, As(p, "declined"))
  /\ End(p)
  /\ UNCHANGED <<passed, spend, slots, flagged, lines, chain, sent, delivered,
                 unpaid, now, crashes>>

\* Mutant: the spend of a run that an outage ended is given back.
MutUnslot(p) ==
  /\ At(p, "unslot") /\ Goto(p, "release")
  /\ slots' = [slots EXCEPT ![Payer(p)] = @ - 1]
  /\ spend' = spend - 1
  /\ UNCHANGED <<claim, passed, flagged, seen, meters>>

\* Our fault, not the buyer's: the slot is given back, the spend is not.
Unslot(p) ==
  /\ At(p, "unslot") /\ Goto(p, "release")
  /\ \/ slots' = [slots EXCEPT ![Payer(p)] = @ - 1] /\ UNCHANGED faults
     \/ Fault /\ UNCHANGED slots
  /\ UNCHANGED <<claim, passed, spend, flagged, seen, now, crashes>>

\* Mutant: a cache that cannot be written is ignored.
MutCacheBrief(p) ==
  /\ At(p, "cache") /\ Goto(p, "settle")
  /\ \/ passed' = [passed EXCEPT ![Auth(p)] = req[p].rq] /\ UNCHANGED faults
     \/ Fault /\ UNCHANGED passed
  /\ UNCHANGED <<claim, spend, slots, flagged, seen, now, crashes>>

\* The brief is cached for a redeem before it is settled, or not settled.
CacheBrief(p) ==
  /\ At(p, "cache")
  /\ \/ /\ passed' = [passed EXCEPT ![Auth(p)] = req[p].rq]
        /\ Goto(p, "settle") /\ UNCHANGED faults
     \/ /\ Fault /\ Goto(p, "unslot")
        /\ passed' \in {passed, [passed EXCEPT ![Auth(p)] = req[p].rq]}
  /\ UNCHANGED <<claim, spend, slots, flagged, seen, now, crashes>>

----------------------------------------------------------------------------
(* The settle, the work after it, the answer. *)

SendSettle(p) ==
  /\ At(p, "settle") /\ Goto(p, "asked")
  /\ sent' = sent \cup {Auth(p)}
  /\ UNCHANGED <<store, lines, chain, delivered, declined, unpaid, meters>>

SettleOk(p) ==
  /\ At(p, "asked") /\ chain[Auth(p)] = "paid"
  /\ Goto(p, IF Brief(p) THEN "refund" ELSE "mark")
  /\ unpaid' = IF Brief(p) THEN [unpaid EXCEPT ![Payer(p)] = @ - 1] ELSE unpaid
  /\ UNCHANGED <<store, lines, chain, sent, delivered, declined, meters>>

\* Timed out or ambiguous, whatever the chain will say: the claim is redeemable.
Unconfirmed(p, landed) ==
  /\ NewLine(p)
  /\ TryMove(p, Moved(p, "unconfirmed", NextLine(p), landed))
  /\ End(p)
  /\ UNCHANGED <<passed, spend, slots, flagged, chain, sent, delivered,
                 declined, unpaid, now, crashes>>

\* Mutant: a settle that fails gives the authorization back.
MutSettleFails(p) == /\ At(p, "asked") /\ NewLine(p)
                     /\ TryMove(p, NoClaim) /\ End(p)
                     /\ UNCHANGED <<passed, spend, slots, flagged, chain, sent,
                                    delivered, declined, unpaid, now, crashes>>

SettleFails(p) == At(p, "asked") /\ Unconfirmed(p, FALSE)

\* A paid brief gives back its slot and its spend; each may fail.
Refund(p) ==
  /\ At(p, "refund") /\ Goto(p, "mark")
  /\ LET less == [slots EXCEPT ![Payer(p)] = @ - 1] IN
       \/ slots' = less /\ spend' = spend - 1 /\ UNCHANGED faults
       \/ Fault /\ slots' = less /\ UNCHANGED spend
       \/ Fault /\ UNCHANGED slots /\ spend' = spend - 1
  /\ UNCHANGED <<claim, passed, flagged, seen, now, crashes>>

Delivers(p) == delivered' = [delivered EXCEPT ![Auth(p)] = @ + 1]
\* The claim becomes settled; a brief is answered at once.  An error leaves the
\* request with the value it held, though the CAS may have been applied.
Mark(p) ==
  /\ At(p, "mark")
  /\ \/ Swap(p, As(p, "settled")) /\ UNCHANGED faults
     \/ Fault /\ (UNCHANGED claim \/ Swap(p, As(p, "settled")))
  /\ IF Brief(p)
       THEN Delivers(p) /\ End(p)
       ELSE /\ UNCHANGED delivered
            /\ Enters(p, "work", IF faults' = faults /\ Current(p)
                                   THEN As(p, "settled") ELSE req[p].held)
  /\ UNCHANGED <<passed, spend, slots, flagged, lines, chain, sent, declined,
                 unpaid, now, crashes>>

Answer(p) == /\ Delivers(p) /\ End(p)
             /\ UNCHANGED <<store, lines, chain, sent, declined, unpaid, meters>>
WorkOk(p)    == At(p, "work") /\ Answer(p)
WorkFails(p) == /\ At(p, "work") /\ lines[Auth(p)] < MaxLines
                /\ Unconfirmed(p, TRUE)

----------------------------------------------------------------------------
(* redeem. *)

\* The settle is known or confirmed on the chain; else "not confirmed yet".
Probe(p) ==
  /\ At(p, "probe")
  /\ \/ /\ req[p].held.landed \/ chain[Auth(p)] = "paid"
        /\ Goto(p, "redeem")
     \/ ~req[p].held.landed /\ End(p)
  /\ UNCHANGED <<store, seen, meters>>

\* Mutant: the loser of the CAS goes on.
MutRedeem(p) ==
  /\ At(p, "redeem")
  /\ Swap(p, As(p, "redeemed"))
  /\ Enters(p, "rework", As(p, "redeemed"))
  /\ UNCHANGED <<passed, spend, slots, flagged, seen, meters>>

Redeem(p) ==
  /\ At(p, "redeem")
  /\ Swap(p, As(p, "redeemed"))
  /\ IF Current(p) THEN Enters(p, "rework", As(p, "redeemed")) ELSE End(p)
  /\ UNCHANGED <<passed, spend, slots, flagged, seen, meters>>
\* The CAS throws, applied or not: answered as a store error.
ThrowRedeem(p) ==
  /\ At(p, "redeem") /\ Fault /\ End(p)
  /\ UNCHANGED claim \/ Swap(p, As(p, "redeemed"))
  /\ UNCHANGED <<passed, spend, slots, flagged, seen, now, crashes>>

\* The cached brief, or the work once more; a failure rotates the id.
Cached(p) == passed[Auth(p)] = req[p].rq
ReworkOk(p)    == At(p, "rework") /\ (Brief(p) => Cached(p)) /\ Answer(p)
\* Mutant: the claim stays redeemed.
MutReworkFails(p) == /\ At(p, "rework")
                     /\ IF Brief(p) THEN ~Cached(p) ELSE lines[Auth(p)] < MaxLines
                     /\ NewLine(p) /\ End(p)
                     /\ UNCHANGED <<store, chain, sent, delivered, declined,
                                    unpaid, meters>>

ReworkFails(p) == /\ At(p, "rework")
                  /\ IF Brief(p) THEN ~Cached(p) ELSE lines[Auth(p)] < MaxLines
                  /\ Unconfirmed(p, TRUE)
\* The cached brief cannot be read.
ReworkUnread(p) == /\ At(p, "rework") /\ Brief(p) /\ Fault
                   /\ NewLine(p)
                   /\ Swap(p, Moved(p, "unconfirmed", NextLine(p), TRUE))
                   /\ End(p)
                   /\ UNCHANGED <<passed, spend, slots, flagged, chain, sent,
                                  delivered, declined, unpaid, now, crashes>>

----------------------------------------------------------------------------
(* The chain, crashes and the clock. *)

\* What was sent lands until it expires; the buyer may cancel what is unused.
Land(a) == /\ a \in sent /\ chain[a] = "unused" /\ now < ValidBefore[a]
           /\ chain' = [chain EXCEPT ![a] = "paid"]
           /\ UNCHANGED <<store, lines, sent, delivered, declined, unpaid, req,
                          meters>>
Cancel(a) == /\ chain[a] = "unused"
             /\ chain' = [chain EXCEPT ![a] = "cancelled"]
             /\ UNCHANGED <<store, lines, sent, delivered, declined, unpaid, req,
                            meters>>
Crash(p) == /\ ~At(p, "idle") /\ End(p)
            /\ crashes < MaxCrashes /\ crashes' = crashes + 1
            /\ UNCHANGED <<store, seen, now, faults>>
Tick == /\ now < MaxTime
        /\ \A p \in Procs : ~req[p].aged
        /\ now' = now + 1
        /\ req' = [p \in Procs |-> [req[p] EXCEPT !.aged = ~At(p, "idle")]]
        /\ UNCHANGED <<store, seen, faults, crashes>>

----------------------------------------------------------------------------
Steps(p) ==
  \/ Claim(p) \/ Taken(p) \/ Release(p) \/ CheckNonce(p) \/ Refuse(p)
  \/ Verify(p) \/ ReserveSpend(p) \/ ReserveSlot(p) \/ Unspend(p)
  \/ Pass(p) \/ Outage(p)
  \/ Decline(p) \/ Unslot(p) \/ CacheBrief(p) \/ SendSettle(p) \/ SettleOk(p)
  \/ SettleFails(p) \/ Refund(p) \/ Mark(p) \/ WorkOk(p) \/ WorkFails(p)
  \/ Probe(p) \/ Redeem(p) \/ ReworkOk(p) \/ ReworkFails(p)
Next ==
  \/ \E p \in Procs :
       \/ \E a \in Auths, rq \in Rqs : \E proof \in 0..lines[a] :
            Open(p, a, rq, proof)
       \/ Steps(p)
       \/ ThrowClaim(p) \/ ThrowRedeem(p) \/ ReworkUnread(p) \/ Crash(p)
  \/ \E a \in Auths : Land(a) \/ Cancel(a)
  \/ Tick

Spec == Init /\ [][Next]_vars

----------------------------------------------------------------------------
(* Properties. *)

Working(a) ==
  {p \in Procs : Auth(p) = a /\ req[p].pc \in Owning \cup {"rework"}}
Quiet(a) == \A p \in Procs : At(p, "idle") \/ Auth(p) # a

\* Every variable has its type, and no counter goes below zero.
TypeOK ==
  /\ claim \in [Auths -> Claims]
  /\ passed \in [Auths -> Rqs \cup {NoRq}]
  /\ spend \in Nat /\ slots \in [Payers -> Nat] /\ unpaid \in [Payers -> Nat]
  /\ flagged \subseteq Auths /\ sent \subseteq Auths /\ declined \subseteq Auths
  /\ lines \in [Auths -> Nat] /\ delivered \in [Auths -> Nat]
  /\ chain \in [Auths -> {"unused", "paid", "cancelled"}]
  /\ req \in [Procs -> Request]
  /\ {now, faults, crashes} \subseteq Nat

\* claim.ts:3: one request at a time works on an authorization, and the claim
\* it took does not lapse under it.
OneWorker == \A a \in Auths : Cardinality(Working(a)) <= 1

\* copy.ts:105: an authorization is delivered once, and only if it was paid,
\* with claims that lapse, redeems that race and settles that answer late.
OnePaidDelivery ==
  \A a \in Auths : /\ delivered[a] <= 1
                   /\ delivered[a] = 1 => chain[a] = "paid"

\* claim.ts:3, copy.ts:105: the claim admits one worker at a time, and between
\* them all the workers on an authorization deliver once, for money.
WorkOnce == OneWorker /\ OnePaidDelivery

\* What was charged and not delivered has a reconcile line unless an invocation
\* died, and as long as nothing failed it can be redeemed.
ChargedRecoverable ==
  \A a \in Auths : /\ chain[a] = "paid" /\ delivered[a] = 0 /\ Quiet(a)
                   => /\ lines[a] > 0 \/ crashes > 0
                      /\ Redeemable(a) \/ faults + crashes > 0

\* A charged brief that can be redeemed has its cached result, whatever failed.
RedeemableBriefCached ==
  \A a \in Briefs : Redeemable(a) => passed[a] = claim[a].rq

\* A brief that was declined is not settled, before or after, while the store
\* and the invocations do not fail.
DeclinedNotSent == faults + crashes = 0 => declined \cap sent = {}

\* handler.ts:312, 516: the authorization of a declined brief is never settled.
DeclinedNeverCharged == \A a \in declined : chain[a] # "paid"

\* Every unpaid brief run is inside the day's spend cap (handler.ts:411).
UnpaidRunsCovered ==
  /\ \A u \in Payers : unpaid[u] <= spend
  /\ spend <= SpendCap
  /\ \A u \in Payers : slots[u] <= SlotCap

\* A payer who is charged and keeps coming back with a proof gets the result,
\* unless the store failed or a request was killed.
ChargedIsDelivered ==
  \A a \in Auths :
    chain[a] = "paid" ~> delivered[a] = 1 \/ faults + crashes > 0
Fairness ==
  /\ \A p \in Procs : WF_vars(Steps(p))
  /\ \A p \in Procs, a \in Auths, rq \in Rqs :
       SF_vars(Redeemable(a) /\ rq = claim[a].rq /\ Open(p, a, rq, claim[a].rc))
  /\ \A p \in Procs : /\ SF_vars(Probe(p) /\ At(p, "redeem")')
                      /\ SF_vars(ReworkOk(p))
FairSpec == Spec /\ Fairness
=============================================================================
