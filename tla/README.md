# Formal models of horizon-pulse

horizon-pulse is a Next.js service that sells API calls over x402: a caller gets
a `402` with payment terms, signs a payment authorization (EIP-3009 on Base, or
the rails for Solana and XRPL), and repeats the request with it. Most endpoints
answer at once. The expensive ones - the premium tiers (`src/lib/premium/`) and
seller due diligence (`src/lib/seller-dd/`) - keep state in Redis, may run over
many serverless invocations, and move the buyer's money at a point that has to be
right. This directory models that part: TLA+ modules, TLC configurations that
check them on small instances, and TLAPS proofs for every instance.

Contents: 1 the system and its hazards, 2 the modules and how they correspond to
the code, 3 what the runs check, 4 the bounds, 5 fairness, 6 what is proved,
7 where the code and its comments disagree, 8 what is not modelled, 9 the plan.

## 1. The system

### 1.1 Inventory

| part | code | state it keeps | operations |
|---|---|---|---|
| asynchronous jobs ($20 report, first deliverable of the $75 watch) | `lib/premium/jobs.ts`, the async path of `handler.ts`, `claim.ts`, `store.ts`, `payment.ts`, routes `api/premium/job/[id]` and `api/premium/cron` | Redis: `job:<id>`, `result:<id>`, `auth:<id>`, `claim:<from>:<nonce>`, `open:*`, `jobs:active`, `lease:<id>` | accept, `runJob`, `settleJob`, `settleAtAccept`, `deliver`, `failUncharged`, `failCharged`, `settleLanded` |
| watch days | `jobs.ts` 445-496, `watch.ts` | `day:<id>:<n>`, the watch part of the record | daily check, missed day, completion, refund, early stop |
| settle strikes and breaker | `jobs.ts` 129-154 | `settlefail:<payer>`, `settlefail:global`, `settleblock:<payer>` | count, clear, block, breaker |
| synchronous premium tiers, charge-on-pass brief, redeem | `handler.ts`, `claim.ts`, `payment.ts` | claim, `brief:passed:*`, `brief:unsettled:*`, `brief:declines:*`, `redeem-mismatch:*` | claim, verify, settle, work, decline, cache, redeem |
| purge and cron sweep | `jobs.ts` 610-631 | `jobs:purge`, `gone:<id>` | purge, sweep |
| work of the premium tiers | `research.ts`, `synthesis.ts`, `parallel.ts`, `archive.ts` | none beyond the job | search, read, archive, compile |
| seller due diligence | `lib/seller-dd/*` | five spend counters, loss ledger, latches, verdict cache, re-check lock | test payment, caps, pause, paid flow, redeem, reconcile, re-check |
| XRPL and Solana rails | `lib/xrpl-*`, `lib/solana-rail.ts` | replay keys, the shared claim v4 | verify, settle, replay guard |
| x402 server, Base and Polygon rails | `lib/x402-server.ts`, `paid-rail.ts`, `payment-rails.ts`, `polygon-rail.ts` | none between requests | route a paid GET |
| MCP client | `mcp/src/pay.ts` | the session's reserved and spent amounts | pay within a budget |
| discourse spend, free tier | `lib/discourse/spend.ts`, `lib/free-tier.ts` | spend and free-call counters | reserve, count |
| alerts, route log, feedback | `lib/alert-persist.ts`, `lib/route-log.ts`, `lib/feedback.ts` | append-only lists | append |
| data endpoints, pages, scripts | the other `lib/*`, `app/*`, `components/*`, `scripts/*` | none | compute an answer |

### 1.2 How the parts interact

Every part that charges reads and writes the same three things:

* the **Redis store**: single-key commands that are atomic (`SET NX`, a
  compare-and-set, `ZADD`, ...) and a few Lua scripts. A command may throw, and a
  command that throws may have been applied. Several commands in a row are never a
  transaction;
* the **facilitator**, an HTTP service that submits the buyer's authorization. Its
  answer may be a success, an ambiguous failure or a timeout, and after the last
  two the transfer may still land, at any time until the authorization expires;
* the **chain**, read with `eth_call` and `eth_getLogs`, which may also answer
  "unknown".

Invocations share nothing else. An accept with its `after()` work, a status poll,
the daily cron and a redeem may all run at the same time, and the platform kills
each of them after 60 s (`maxDuration`). What one of them knew is lost then; what
the store holds is what the next one starts from.

### 1.3 What makes each part correct

* *Jobs*: nothing is readable before it is paid; the authorization is submitted only
  once the deliverable exists (or before the work, in settle-first mode); one
  authorization pays for one delivery; a job that failed uncharged was not charged
  for; a charge is never lost; every accepted job ends; slots are given back.
* *Sync tiers*: one request at a time works on an authorization; it is delivered
  once, and only if paid; what was charged and not delivered can be redeemed by the
  payer; a declined brief is never charged; unpaid runs stay under the day's cap.
* *Watch*: a day gets one verdict, taken in its window, never back-filled; a missed
  day is our failure; the watch ends once, with the refund of its verdicts.
* *Strikes*: two failed settles in 24 h block the payer; payments that landed do not.
* *Seller due diligence*: what leaves our wallet is inside the caps, whatever fails; a
  reservation is given back once, and never while its test payment may land; the loss
  ledger says what a test payment cost us; a verdict goes out only for a payment, and
  "nothing was charged" is true; the kill switch cannot be lost.
* *Rails and clients*: one payment is delivered once, to the request it was made for;
  nobody is asked to pay twice; what was charged and not delivered can be redeemed; a
  session never spends more than its budget.

`PROJECT.json` lists the hazards, each at its line, with the properties that would
catch it or the reason why none does yet.

## 2. The modules

```
PurchaseContract      what an asynchronous purchase promises the buyer
      ^ implements (refinement mapping in PremiumJobs)
PremiumJobs           the job engine
WatchTerms            what a paid watch promises
      ^ implements (refinement mapping in WatchDays)
WatchDays             the days of a watch
SettleStrikes         strikes, block, breaker
PremiumSync           sync tiers, charge-on-pass brief, redeem
ReplayStore           the rails' store: SET NX, compare-and-set, compare-and-delete
      ^ EXTENDS
XrplSlot              a payment on XRPL, first request and redeems
SolanaSlot            a payment on Solana
SellerDdCaps          the ledgers of seller due diligence
      ^ EXTENDS
SellerDd              paid flow, test payment, redeem, cron
```

Each of `PremiumJobs`, `WatchDays`, `SettleStrikes`, `PremiumSync`, `XrplSlot`, `SolanaSlot`
and `SellerDd` is instantiated for TLC by a module `MC...` and extended by a module
`...Proofs` with its theorems; `PremiumJobsClaimProofs` extends `PremiumJobsProofs` with the
theorems outside settle-first mode.

The modules meet at the job: `PremiumJobs` takes a job to `delivered`, where
`WatchDays` takes over for the watch tier, and `SettleStrikes` sits behind the two
places where a settle fails or is found to have landed (`jobs.ts` 431, 541, 555).
In `PremiumJobs` the breaker's answer is therefore the choice `first \in
SettleFirst` of `AcceptReserve`, and `settleBlocked` a request that never starts.
`SellerDd` shares the claim and the decline slots with `PremiumSync` (`premium/claim.ts`)
but never an authorization, since each route has a price and a recipient of its own; it
has its own cron (`reconcileUnconfirmed`, `reconcileOpen`). The two rails keep one slot
per payment in the same store; a payment of one rail is never a payment of another, so
each has its module over the shared `ReplayStore`.

A step of a model is one store command, one call to the facilitator or to the
chain, or the local work between two of them: these are the points where another
invocation can come in, where the store can fail and where the platform can kill.
Operators named `Mut...` are variants of the action after them with one plausible
bug; no specification uses them, and each one is a change under which TLC finds
its property violated.

### 2.1 PremiumJobs

| in the model | in the code |
|---|---|
| `job[j]`, `result[j]`, `authKey[j]` | the keys `job:<id>`, `result:<id>`, `auth:<id>` (with its expiry) |
| `claim[a]` | `claim:<from>:<nonce>` with state, owner and expiry |
| `slot[j]` | the member of `open:payer:*` and `open:global`, by its score |
| `active`, `lease[j]` | `jobs:active`, `lease:<id>` |
| `chain[a]`, `sent` | the token contract's state; the requests the facilitator holds |
| `recon` | jobs with a reconcile line of theirs (`recordReconcile`) |
| `pc`, `mode`, `on`, `copy` of a process | where an invocation is, whether it is an accept or a run, its job, and its in-memory `job` object |
| `AcceptReserve` ... `AcceptIndex` | `premiumHandler` 294-355 and `createJob` |
| `Start`, `Load`, `SaveRunning`, `Checkpoint`, `Build`, `SaveBuilt`, `WorkFails`, `AfterBuilt` | `runJob` 499-538 and the steps of `stepReport` |
| `ReadAuth`, `SendSettle`, `SettleOk`, `SettleFails`, `HoldClaim`, `Prepay`, `Deliver`, `Save` | `settleJob` and `deliver` |
| `Probe`, `NotLanded` | `settleLanded` and the resolution of `settle_unconfirmed` |
| `FailRelease`, `Unindex`, `Save` | `failUncharged`, `failCharged` |
| `Crash`, `ThrowRun`, `ThrowAccept`, `ThrowSettleFirst` | a kill; a store error in a run, in an accept, inside `settleAtAccept` |

The whole record is written by `saveJob` from the invocation's own copy, so an
invocation with an old copy overwrites what another saved; the model keeps `copy`
per process for that reason. Decisions about the data:

* a tick is one invocation (60 s). An invocation sees at most one tick begin, and
  its lease (55 s) lapses only once it is gone, since it stops at its 50 s deadline;
  a tick that begins at a deadline lies past it;
* claims in other states than `job` do not expire within the horizon (48 h and
  30 days against an authorization of at most one hour);
* an applied command whose answer is lost is the same failure one step later; a
  `saveJob` swallowed in the catch of `settleAtAccept` is a `Crash` there;
* the step checkpoints of a report are a counter up to `Steps`; what they compute is
  left out; due scores in `jobs:active` are left out (they are in `WatchDays`);
* the nonces an instance remembers (`settledNonces`) only anticipate the chain;
* `CasFaults` says whether a compare-and-set of the claim may fail unnoticed (the
  calls that end in `.catch(() => null)`); it is FALSE where a property needs the
  claim, and section 7 says what happens when it is TRUE.

`PurchaseContract` has no store, no invocations and no clock: an outcome per
purchase, what was built and asked for, and the chain. `PremiumJobs!Outcome` maps a
record to an outcome; `settling`, `settle_unconfirmed` and the working states are all
`open`, and `failed_uncharged` with the reason `settle_never_landed` is `lost`.

### 2.2 WatchDays

`rec` is the stored record (status, totals, stop, refund), `day[n]` the key
`day:<id>:<n>`, `active` the score of the job in `jobs:active`, `lines` the refund
lines. An invocation is one record `inv[p]`: a run of a poll or of the cron (under the
lease) or an early stop (without). `Load`, `Count`, `Judge`, `Skip`, `SetMissed`,
`SetRecorded`, `Total`, `Unindex`, `Line`, `Index`, `Save` are the commands of
`stepWatchDays` in order. Time 0 is the delivery; a day is `PerDay` ticks; the cron is
due once a day at `CronPhase` and may run (`Cron`), find the job not due (`CronPass`),
or not reach it (`CronLost`: not called, or its sweep ended at an earlier job). A check
that is paused, has no time left or throws is `Skip`. `CronPhase` is not the last tick
of a day: a cron that fires at the very instant of the job's own `t0` may slip out of a
window by its own delay, which the code accepts as a missed day. Nor is it the first one
where a missed day is to be ours (`MidDay` in section 6): an invocation that began in the
last tick of a day may still hold the lease in the first tick of the next.

`WatchTerms` states the promise without store or cron: a verdict per day, taken in the
day's window, the end, and the refund that is owed for the verdicts at that moment.

### 2.3 SettleStrikes

One process per job, one step per command of `noteSettleFailure` and
`clearSettleFailure`, whose errors the callers swallow (`Fails`). `strike` and `global`
are the two sorted sets by score, `block` the block's expiry, `at` the clock as read at
the start. A tick is a fraction of the 24 h window. What follows a note or a clear
(`After`) is open: the job is resolved, or still unconfirmed because the note was of an
ambiguous answer or the run died before it saved.

### 2.4 PremiumSync

One process is one request. `Open` stands for all checks before the claim that change
nothing (route, price, window, signature, keys); then every store command is a step:
`Claim`/`Taken`, `CheckNonce`, `Verify`, for the brief `ReserveSpend`, `ReserveSlot`,
`Pass`/`Outage`/`Decline`, `CacheBrief`, then `SendSettle`, `SettleOk`/`SettleFails`, the
refunds of the reservations (`Refund`), `Mark`, the work and the answer; and the redeem:
`Probe`, `Redeem`, `ReworkOk`/`ReworkFails`. A request carries a proof, which is a
signature over one reconcile id: `rc` in the claim is the last line of the
authorization, so a used or outdated proof is a smaller number. Decisions:

* an inflight claim lives 2 ticks (120 s), a request at most one (60 s); the other
  claims outlive the horizon (48 h, 30 days);
* only the facilitator submits an authorization; the buyer may cancel an unused one.
  After a settle that did not answer, the transfer may land until the authorization
  expires;
* spend is counted in runs of 0.05 USD, within one UTC day; the once-a-day alert is
  left out, the `redeem-mismatch` key kept (`flagged`);
* work that fails after its charge fails at most until the authorization has
  `MaxLines` reconcile lines; after that it succeeds.

### 2.5 The rails: ReplayStore, XrplSlot, SolanaSlot

Both rails do the same thing with different ledgers: the first request with a payment
claims its slot, verifies, runs the route, settles through the facilitator, reads the
ledger and decides; a later request with the same payment finds the slot taken and, if
it is stale or was left undecided, takes a lease, asks the ledger alone and delivers
the route's answer or refuses.

| in the model | in the code |
|---|---|
| `slot` | the value under the payment's replay key: state, first-seen, lease, owner, transaction, request fingerprint |
| `SetNX`, `Put`, `Del`, `CompareAndSet`, `CompareAndDelete`; `Answered`, `Lost` | the commands of `xrpl-replay-store.ts`, with an answer or with a lost one |
| `attempt[i]` | the module-level `attempts` map of an instance: whose Attempt it holds |
| `local[i]` (Solana) | the instance's replay map, as far as it is final |
| `led`, `closed`, `never`; `led` | the ledger, the close time of a transaction, what was proved never to land |
| `Open`, `Claim`, `Serve`, `Settle`, `SettleAnswers`, `Judge`, `Throw` | the first request: `handleXrplPayment`, `settle`, `decide`, the catch; `handleSolanaPayment` |
| `Read`, `Take`, `Look`, `ThrowRedeem` | `redeemUndelivered` |
| `Write`, `Reply` | the last store command, and the answer with the `finally` |
| `Dies`, `Recycled` (Solana) | the platform's kill of a request; the end of an instance that runs nothing, with its maps |
| `paidFor`, `delivered`, `told`, `marked`, `lostMarks` | history for the properties: what a settle was asked for, paid responses, 402 answers, delivered marks |

Decisions: a tick is 60 s, so a request lives one at most and a lease (90 s) lapses in
the second tick after it was taken; the code compares leases and owners by millisecond
and by random id, which the model does by the request's number; a payer may submit what
the payer signed, so a transaction may land with or without the facilitator; a node may
lag behind or contradict (`Reads`, `Finds`), never invent; whether a key is the account's
master key is a choice of the answer; several keys of one request (XRPL keys by account
and sequence) are the one slot of that sequence. What a settle came to goes into the
Attempt the instance's map holds when the settle begins (`Known`), on Solana also the
value a claim wrote: without the Attempt the last write is a plain `SET` or `DEL`.

### 2.6 Seller due diligence: SellerDdCaps, SellerDd

The $5 verdict: the service pays the seller a test payment of its own, runs its checks,
and settles the buyer's payment only when they pass. Two kinds of money are in flight,
ours and the buyer's, and either may land after nobody looks any more.

| in the model | in the code |
|---|---|
| `spent`, `hosts`, `rec`, `open`, `index`, `released` | the counters `dd:spendu:*`, `brief:unsettled:*`, `dd:host:*`, `dd:ip:*`; the keys `dd:res:`, `dd:open`, `dd:nonce:`, `dd:released:` |
| `loss`, `lossRec` | `dd:lossu:<day>`, `dd:lossrec:<id>` |
| `claim`, `verdict`, `logged`, `pend`, `closed`, `slots`, `fails` | the claim, the cached verdict, the receipt log, `dd:unconfirmed`, `dd:closed:`, the decline slots, the settle-failure latch |
| `test`, `chain` | our test payments and the buyer's authorizations on the chain |
| `Open` ... `Verify`, `Refuse`, `Release`, `TakeDeclineSlot`, `Block` | `paidFlow` up to the engine |
| `Reserve`, `BookTest`, `Sign`, `RefuseSign`, `Unsign`, `Confirm`, `FailChecks` | `reserveTestPay`, the signature, `releaseUnsigned`, the watch for the transfer, the verdict |
| `Decline`, `CacheVerdict`, `LogReceipt`, `Undo`, `LoseTest`, `Settle`, `SettleOk`, `SettleFails`, `Unconfirm`, `Pend`, `RefundSlot`, `Mark` | the rest of `paidFlow` |
| `Redeem`, `Cron`, `Probe`, `Judge`, `Close`, `LoseClosed`, `Drop`, `Give`, `Hand` | `redeemFlow`, `reconcileUnconfirmed` and the `closeNotCharged` they share |
| `Reconcile`, `Adjust` | `reconcileOpen` with `adjustOnce` |

Decisions: all test payments have one price, one host and one day, so the day, lifetime
and unsettled counters move together, as do the host and address counters; the
reservation is the smaller of the caps (`Cap`, `HostCap`); `fails` counts settle failures
up to the limit at which the route is latched; `SlowReads` says whether a read of the
chain may take long enough for the end of the validity to pass before the clock is read
(section 7); a request whose passed verdict could not be signed is `unsigned`.

## 3. What the runs check

| run | instance | shows |
|---|---|---|
| `jobs` | two requests with one authorization, two invocations, one crash or store error | `TypeOK`, `NothingReadableUnpaid`, `OneDeliveryPerAuthorization`, `ChargedForWork`, `ClaimHeld`, `FinalFreesSlot`, `ImplementsContract` |
| `jobs_live` | one job in either settle mode, two invocations, lost claim updates, one fault, fair | `ChargedFlagTrue`, `EveryJobResolves` |
| `watch` | three days, two invocations, a poll, a cron that may be lost, skipped checks, a fault, a stop, fair | `TypeOK`, `MissedIsOurs`, `RefundHasLine`, `ImplementsTerms`, `WatchEnds` |
| `strikes` | three jobs of one payer, one store error | `TypeOK`, `BlockFollowsStrikes`, `StrikesAgree` |
| `sync` | a standard tier: two requests over one authorization, one store error, one crash, fair | `WorkOnce`, `ChargedRecoverable`, `ChargedIsDelivered` |
| `brief` | two brief authorizations of one payer, two fingerprints, one store error | `TypeOK`, `WorkOnce`, `RedeemableBriefCached`, `DeclinedNotSent`, `UnpaidRunsCovered` |
| `xrpl` | three requests, two at a time on two instances, a payment, its re-sign and another request with it, one fault | `TypeOK`, `DeliveredOnce`, `RefusedNotCharged`, `ChargedRecoverable`, `LeaseRespected` |
| `solana` | four requests, two at a time on two instances, two fingerprints, one fault | `TypeOK`, `DeliveredOnce`, `RefusedNotCharged`, `ChargedRecoverable`, `LocalIsFinal` |
| `sdd` | two requests of one authorization, two redeems or cron passes, one store error, one crash | `TypeOK`, `SpendTrue`, `LossTrue`, `AnswersTrue`, `ChargedRedeemable` |
| `v_crash`, `v_attempt`, `v_closed` | one job; two requests on one instance; one request and a redeem | the counterexamples of section 7 |

The properties of the jobs, in words:

* `NothingReadableUnpaid`: a delivered job has its deliverable, and its authorization
  is charged on the chain.
* `OneDeliveryPerAuthorization`: two jobs with one authorization are never both
  delivered, although a job that fails gives its claim back and the authorization may
  be used again. It needs the 20 minute claim, the 10 minute budget and the order of
  the store commands.
* `ChargedForWork`: outside settle-first mode nothing is submitted before the
  deliverable is stored (`ChargedAfterBuild`), and a job that ends uncharged never had
  its authorization submitted, except one whose settle was found never to have landed
  (`FailedNeverSubmitted`).
* `ClaimHeld`: whoever waits for the facilitator owns the claim (`ClaimCoversSettle`),
  and an unconfirmed settle keeps its authorization claimed (`UnconfirmedHoldsClaim`).
* `FinalFreesSlot`: a job at its end holds no open slot.
* `ImplementsContract`: all of the above as one purchase, and a final outcome is never
  overwritten by an invocation with an old copy.
* `ChargedFlagTrue` (also in settle-first mode, and with lost claim updates): what the
  status link says of a charge is true, and a charged failure has its refund line.
* `EveryJobResolves`: unless something failed, a job whose status link was returned
  reaches a final status.

Of the watch: `ImplementsTerms` covers the verdicts, the windows, the refund and the
single end; `MissedIsOurs` says that polls and the index bring the job up in every
window, so each missed day has a lost cron, a lost check or a fault of its own;
`RefundHasLine` ties the record's refund to the reconcile line written before it.
`WatchEnds` says that an undisturbed watch ends although polls stop and crons are lost.
Of the strikes: `BlockFollowsStrikes` says that the block follows the strikes in both
directions (`BlockedWhenStruck`, `BlockNeedsFailure`), `StrikesAgree` that the payer's and
the global set part only where an error cut a note short. Of the sync tiers: `WorkOnce`
is the mutual exclusion that the claim's time to live and the request's length give
together (`OneWorker`), and one delivery, paid (`OnePaidDelivery`); `ChargedRecoverable`
says that a charge that was not delivered has its line, and a redeemable claim as long as
nothing else failed; `UnpaidRunsCovered` that the reservations given back on some paths
and kept on others never let unpaid runs outgrow the day's spend; `ChargedIsDelivered`
that a charged payer who keeps coming back with the proof gets the result.

Of the rails:

* `DeliveredOnce`: a payment is delivered once, unless the store lost the delivered mark
  itself (`OneDelivery`), and only when it is on the ledger, to a request that asks what
  it was submitted for (`DeliveredToPayer`) - with a claim that went stale under a
  request still alive, a lease taken over, a re-sign of the same sequence, a ledger that
  answers late. On a shared instance the first part still holds (section 6).
* `RefusedNotCharged`: a `402` after the slot was claimed is an invitation to pay again;
  it is answered only for a payment that never lands.
* `ChargedRecoverable`: a payment we submitted that landed undelivered is still in the
  slot under the request that can redeem it, or is marked delivered by a request that
  died before its answer.
* `LeaseRespected` (XRPL): nobody but the holder of a live lease changes the slot.
* `LocalIsFinal` (Solana): what an instance refuses from memory, without the store, was
  paid, or can charge nobody any more.

Of seller due diligence:

* `SpendTrue`: every test payment that landed or can land is inside the caps
  (`SpendCovered`), what did not land is given back once (`SpendReturned`, when nothing
  failed), and the watch on our wallet finds the reservation of whatever left it
  (`OutflowIsOurs`).
* `LossTrue`: the loss of a test payment is booked once at most, and never beside the
  buyer's payment for it (`LossOnce`); a test payment that earned no charge is booked, and
  one that never landed is off the books (`LossBooked`, when nothing failed).
* `AnswersTrue`: a verdict goes out once per authorization, with a used authorization, its
  receipt and its own landed test payment (`VerdictIsPaid`); "nothing was charged" is
  true, then and later (`ToldTrue`).
* `ChargedRedeemable`: a charged buyer has the verdict or can redeem it
  (`ChargedRecoverable`), and what the redeem needs is there (`RedeemableCached`).

Deadlock is not checked: every system here may stop, when all jobs are final, all
requests answered and the clock is at its bound.

## 4. The bounds, and why they are enough

* *Two invocations*. Every hazard in the list is between two: a lease, a claim and a
  copy each have one holder and one contender. A third finds the same store.
* *Two jobs with one authorization* is the case the claim exists for. `jobs_live` has one
  job, in both modes, since with two the state space exceeds ten million states and the
  mode adds nothing between jobs; its clock is the shortest in which a job is accepted,
  run, settled and its authorization expires.
* *The clock* (`MaxTime`) goes past the end of the authorization (`ValidBefore`), which
  is after the claim's end (`ClaimTTL`), which is after the budget plus two invocations:
  the code's order (1 h, 20 min, 10 min, 60 s) with each interval shortened to the least
  that keeps it (`TimingAssumption`). So a claim lapses, a second accept follows, and a
  late transfer lands, all within a run.
* *One fault* (`MaxFaults`) is a kill or a store error at any one step of any invocation;
  the next invocation starts from what the store holds then. `PremiumSync` and `SellerDd`
  count kills apart from errors (`MaxCrashes`), so that `sync` and `sdd` have one of each;
  on the rails a request may die at any time, uncounted. More faults are left
  out for size; the theorems of section 6 hold for any number, except `LossIsTrue`.
* *Watch*: three days are a first, a middle and a last one, and let two be missed
  (`RefundAfter` 2 stands for 3 of 14) with one more recorded; three ticks a day separate
  before, at and after the cron. `MaxTime` leaves room for two lost crons after the last
  window. `MaxPolls`, `MaxLost` and `MaxStops` bound the buyer, the platform and the
  operator.
* *Strikes*: three jobs are one more than the payer's limit; a window of two ticks lets
  strikes age out under way.
* *Sync*: `MinRemaining` and `ClaimTTL` are two ticks as in the code (120 s each); the
  authorization lives four or five, so an inflight claim lapses and the authorization is
  used again. In `brief` the second authorization can be opened at time 0 only, to meet
  the first at the spend cap. `MaxLines` bounds the failures of the work.
* *Rails*: a lease of two ticks is the code's 90 s against a request of 60 s. Two requests
  at a time and a third (or fourth) after one of them ended are a first request, a redeem
  and the takeover of its lease. `Elsewhere` has the payment, its re-sign and the payment
  with another request. Checked once beyond these bounds, without an error: `xrpl` with
  `MaxTime` 3 (15.7 million states) and with three requests at once on `TwoPaths` (10
  million), and `OneDelivery` of `solana` with its requests on one instance (1.6 million).
* *Seller due diligence*: two requests of one authorization are a retry after a lapsed
  claim; the caps of two let one of them fail at the cap; a test payment is valid two
  ticks where the code has four minutes, long enough for its request to end before it
  lands; the buyer's authorization ends at 3, and `MaxTime` 4 lies past every expiry.
  Checked once beyond these bounds: `MaxTime` 5 (2 million states), two authorizations
  with one redeem or cron pass at a time and `MaxTime` 3 (4.5 million), two fingerprints
  (3.7 million).

`SYMMETRY` is used on processes, jobs, requests, actors and fingerprints, never in the runs
with liveness (`jobs_live`, `watch`, `sync`).

## 5. Fairness

* A live invocation goes on: weak fairness of its steps (`Progress`, `Walk`/`Skip`,
  `Steps`). The runtime does this. Kills and store errors are in the liveness runs, and each
  liveness property says what it says of the behaviours without one (`\/ faults > 0`):
  after a kill the runtime promises nothing, and section 7 shows what it costs.
* `jobs_live`: strong fairness of `Start` per job: the buyer polls, and the daily cron
  runs every due job; and of a chain answer other than "unknown" for an unconfirmed
  settle. A job is worked on only as long as somebody comes back: without this the code
  promises nothing, and the terms ask the buyer to poll.
* `watch`: weak fairness of the cron and of time.
* `sync`: strong fairness of a redeem with the current proof (the payer keeps
  trying), of a chain answer that shows the landed transfer, and of work that
  succeeds.

## 6. What is proved

Every module has a module of theorems, checked by TLAPS for every value of the constants:
any number of jobs, requests, instances and invocations, any caps and clocks, any number of
store errors and kills. The theorems use the named assumptions on the constants
(`...Assumption`, beside the constants) and, where a property needs more, a named
hypothesis. The runs' constants meet each hypothesis, and section 7 shows what happens
without the ones that stand for an interleaving the code does not exclude.

| theorem | states for every instance | hypothesis |
|---|---|---|
| **PremiumJobsProofs**: `TypeCorrect` | `TypeOK` | |
| `PaidBeforeReadable` | `NothingReadableUnpaid` | |
| `ChargedIsTrue` | `ChargedFlagTrue` | |
| `FinalSlotFree` | `FinalFreesSlot` | |
| **PremiumJobsClaimProofs**: `ChargedOnlyForWork` | `ChargedForWork` | `SettleLast` |
| `ClaimAlwaysHeld` | `ClaimHeld` | `SettleLast`, `CasHolds` |
| `OneDelivery` | `OneDeliveryPerAuthorization` | `SettleLast`, `CasHolds` |
| `ContractImplemented` | `ImplementsContract`: `PremiumJobs` refines `PurchaseContract` | `SettleLast`, `CasHolds` |
| **WatchDaysProofs**: `WatchTypes` | `TypeOK` | |
| `OnlyOurFailuresMiss` | `MissedIsOurs` | `MidDay` |
| `RefundsHaveLines` | `RefundHasLine` | `StopAlone` |
| `TermsImplemented` | `ImplementsTerms`: `WatchDays` refines `WatchTerms` | `StopAlone` |
| **SettleStrikesProofs**: `StrikesTypes` | `TypeOK` | |
| `SetsAgree` | `StrikesAgree` | |
| `BlocksHaveFailure` | `BlockNeedsFailure` | |
| `StruckIsBlocked`, `BlocksFollowStrikes` | `BlockedWhenStruck`, `BlockFollowsStrikes` | `ClearAlone` |
| **PremiumSyncProofs**: `SyncTypes` | `TypeOK` | |
| `WorkIsOnce` | `WorkOnce` | |
| `ChargedIsRecoverable` | `ChargedRecoverable` | |
| `RedeemableIsCached` | `RedeemableBriefCached` | |
| `DeclinedIsNotSent` | `DeclinedNotSent` | |
| `UnpaidIsCovered` | `UnpaidRunsCovered` | |
| **XrplSlotProofs**: `XrplTypes` | `TypeOK` | |
| `LeaseIsRespected` | `LeaseRespected` (an action property) | |
| `OneDeliveryPerPayment` | `OneDelivery` | |
| `DeliveredOncePerPayment` | `DeliveredOnce` | `OwnInstance` |
| `RefusedIsNotCharged` | `RefusedNotCharged` | `OwnInstance` |
| `ChargedIsRecoverable` | `ChargedRecoverable` | `OwnInstance` |
| **SolanaSlotProofs**: `SolanaTypes` | `TypeOK` | |
| `OneDeliveryPerPayment` | `OneDelivery` | |
| `RefusedIsNotCharged` | `RefusedNotCharged` | `OwnInstance` |
| `MemoryIsFinal` | `LocalIsFinal` | `OwnInstance` |
| `ChargedIsRecoverable` | `ChargedRecoverable` | `OwnInstance` |
| `DeliveredOnlyOnce` | `DeliveredOnce` | `OwnInstance` |
| **SellerDdProofs**: `SddTypes` | `TypeOK` | |
| `SpendIsTrue` | `SpendTrue` | |
| `AnswersAreTrue` | `AnswersTrue` | `ReadsInTime` |
| `ChargedCanRedeem` | `ChargedRedeemable` | `ReadsInTime` |
| `LossIsTrue` | `LossTrue` | `ReadsInTime`, `MaxFaults <= 1` |

### 6.1 The assumptions and hypotheses

* `TimingAssumption`, `LeaseAssumption`, `TTLAssumption`, `TimeAssumption`: the order of the
  code's intervals. A claim outlives the budget and two invocations; a lease (90 s), an
  inflight claim (120 s), a test payment (4 min) and the least validity we accept (120 s)
  each outlive the request (60 s) that started them.
* `SettleLast`: no accept settles first, that is, the breaker is closed. In settle-first
  mode `ChargedForWork`, `ClaimHeld` and the finality of an outcome are false (section 7).
* `CasHolds`: no update of a claim fails unnoticed (`CasFaults = FALSE`). With it
  `UnconfirmedHoldsClaim` is false (section 7).
* `MidDay`: the cron is due neither at the first nor at the last tick of a watch's day.
* `StopAlone`, `ClearAlone`, `OwnInstance`, `ReadsInTime` (`SlowReads = FALSE`): an early
  stop, a clear, a request's instance, a chain read are not interleaved as in section 7.
* `MaxFaults <= 1` in `LossIsTrue`: two store errors do break `LossOnce` (section 7).

### 6.2 The arguments

Each proof strengthens its properties to an inductive invariant. TLC checked the invariants
beforehand on instances like those of section 3, up to 3.4 million states each; they are not
among the runs, since the theorems say more.

*PremiumJobs, what a record says.* The safety properties are not inductive: a record is
saved from an invocation's copy, so what is stored is only as true as what the invocation
holds. `SafeInv` adds, for each process, what its place in the code says about its copy:
`Honest` (a record says nothing false of its job) and `At` (what an invocation must have
seen to be at this label). What one invocation has seen survives the steps of others because
everything these mention only grows (`Grow`): a payment stays on the chain, a result stays
stored, a line stays written, a slot that was given back is not taken again. So a stale copy
may overwrite a newer record, but never with a lie. Each action has a lemma per group
(`AcceptSafe`, `RunSafe`, `SettleSafe`, `FaultSafe`) over two schemas: a step that leaves the
records alone (`SafeStep`), and a save (`SafeSave`).

*PremiumJobs, who works and who holds the claim.* `SoloInv` is mutual exclusion: the lease
outlives its invocation, so a job has one worker, and its copy agrees with the record and
with what was asked of the facilitator. `SentBuilt` (what was asked for has its deliverable)
follows. `ClaimInv` relates the claim's expiry, the job's budget and the age of its
invocation: whoever may still submit owns a claim that ends later than it does, and a job
that has submitted keeps its authorization claimed. One delivery, and the step simulation of
`PurchaseContract` under the mapping `Outcome`, follow from the two.

*WatchDays.* `WatchInv` says which days an invocation's walk may have passed and that a
final record has a verdict on each day. `GivenInv` counts: the days that are missed, or can
only be missed from here, are no more than the lost crons, the lost checks and the faults;
`Hope` is what an undecided day still has ahead of it. `AloneInv`, `LinesInv` and `TallyInv`
say that while stops are alone one invocation works at a time, and what it holds is what is
written; the simulation of `WatchTerms` rests on them.

*SettleStrikes.* `ScoresInv` and `TornInv` bound what a note that was cut short leaves
behind; `BehindInv` gives each block a strike, or a clear on its way to lift it; `UnderInv`
and `StruckInv` are the two directions while a clear is alone: a count taken by a note is of
strikes that stay until they age out, except one per store error.

*PremiumSync.* `CountInv` counts the requests between a reservation and its refund, by
cardinality, against the counters. `WorkInv` is three things together: what a request knows
by where it is (`Knows`: it owns the claim, with more time left than it has itself), what the
keys of an authorization say (`Sound`), and that one request at a time works on it (`Alone`).

*The rails.* A request that takes the slot over does so from an owner that is gone: the lease
outlives a request. From there the slot and the request that owns it agree (`HoldInv`,
`SlotInv`, `RequestsInv`), what they say of the ledger is true (`TrueInv`, `UnpaidInv`,
`ToldInv`), what an instance remembers is final (`LocalInv`), and `OnceInv` counts: paid
answers, with the one on its way, are at most one more than the lost marks. What a
settle notes is its own only when the instance is not shared (`OwnInstance`; `AttemptInv` on
Solana). `OneDelivery` does not need it: a paid answer comes from the one owner of the slot
(`OneOwner`, `TakenMeans`), whichever Attempt its instance holds.

*SellerDd.* In four layers. `MoneyInv` (no hypothesis): types, what each key of a reservation
says by the place of its request (`LedgerInv`), the counters against the cardinality of the
reservations they stand for (`CountInv`), no loss given back that was not written
(`OwedInv`). `ClaimInv`: who holds a claim, what the claim, the verdict and the close marker
of an authorization say, and what a redeem or a cron pass has read. `GivenInv` and
`ChargeInv`: a verdict's authorization is used and nobody else's, and what becomes of a
charge. `LossInv` and `BookedInv`: who may still write a loss, and that it is not written
yet; that a payment was submitted and its loss booked only if it was closed, which happens
past its validity.

### 6.3 What is only model-checked

* Liveness: `EveryJobResolves`, `WatchEnds`, `ChargedIsDelivered`. Fairness and ENABLED are
  out of the prover's reach.
* `DeliveredToPayer` and the other properties of `XrplSlot` and `SolanaSlot` on a shared
  instance, and the jobs in settle-first mode: TLC refutes parts of them (section 7), so there is nothing to
  prove.
* The models themselves: that they say what the code does is a matter of reading both.

No module uses recursion.

## 7. Where the code and its comments disagree

Three runs end in a counterexample to what a comment or the terms say:

* `v_crash` (`jobs.ts:417`): a kill while the facilitator is asked leaves the record in
  `settling`, which neither `runJob` nor the status route's `RUNNABLE` set knows; the
  transfer may land, and nothing resumes the job or writes a line, although `jobs.ts:6`
  says that a killed invocation is resumed.
* `v_attempt` (`xrpl-rail.ts:2538`): the `attempts` map of an instance holds one entry per
  payment, and the `finally` of a request deletes whatever is there. After the first
  request released its claim, a second one on the instance claims the slot and notes its
  own attempt; the first one's `finally` removes it; the second one's settle then counts
  as never made, the slot is freed and the answer is a `402` for a payment that lands,
  against `xrpl-rail.ts:1806` ("Never a 402 (would invite a second payment)"). The
  Solana rail does the same (first row of the table below).
* `v_closed` (`seller-dd/handler.ts:300`): the redeem reads the chain first and the clock
  afterwards; a payment that lands between is answered with "Nothing was charged"
  (`handler.ts:303`). `jobs.ts:552` has the same order; `caps.ts:126` and the cron read the
  clock first.

Others that TLC shows with the definitions of the modules, by changing a line or two of a
configuration (they are not among the runs; in each the cfg keeps this one property):

| to see it | change | what happens |
|---|---|---|
| `RefusedNotCharged` (`solana-rail.ts:2469`) | `solana.cfg`: `Insts <- OneInst`, `InstOf <- Together` | as `v_attempt`, with three requests: a settle whose Attempt is gone counts as never made (`1566`), and the slot is freed by a plain `DEL` (`1508`), since the Attempt also held the value of the claim; the `402` is for a payment that lands, against `solana-rail.ts:1556`. `ChargedRecoverable`, `LocalIsFinal` and `DeliveredOnce` fall with it, the last by `DeliveredToPayer`: a freed slot lets the payment serve another request. `OneDelivery` holds |
| `SettleFirstFailsCharged` (`jobs.ts:371`) | `v_crash.cfg`: `SettleFirst <- First`, `MaxFaults = 0` | `settleAtAccept` holds no lease on a job that is already in the index; the cron runs it too, and the last `saveJob` wins: failed uncharged, and charged. In this mode the same race also breaks `ChargedForWork`, `ClaimHeld` and the finality of an outcome, which is why the `jobs` run is outside it |
| `NeverLandedIsConfirmed` (`jobs.ts:552`) | `v_crash.cfg`: `MaxFaults = 0` | the nonce is read unused while the authorization is valid, the clock after it expired, and the transfer landed between: `settle_never_landed` of a charged authorization |
| `UnconfirmedHoldsClaim` (`jobs.ts:438`) | `v_crash.cfg`: `MaxFaults = 0`, `CasFaults = TRUE` | a lost claim update of an unconfirmed settle is swallowed and the claim lapses at 20 minutes; with two jobs `OneDeliveryPerAuthorization` falls too |
| `StopIsKept` (`jobs.ts:490`) | `watch.cfg`: `SPECIFICATION Spec`, `StopAlone = FALSE`, `MaxFaults = 0` | `stopWatch` takes no lease; a run that loaded the record before the stop writes it back as watching |
| `CronFindsWatch` (`jobs.ts:480`) | `watch.cfg`: `SPECIFICATION Spec`, `MaxStops = 0` | a kill between the removal of an ended watch from the index and its save leaves a watching record the cron never looks at |
| `BlockedWhenStruck` (`jobs.ts:146`) | `strikes.cfg`: `ClearAlone = FALSE`, `MaxFaults = 0` | a clear that counted one strike deletes the block a second strike set meanwhile |
| `DeclinedNeverCharged` (`handler.ts:507`) | `brief.cfg`: one authorization (`Auths` and `Briefs` `<- OneAuth`) | the claim update of a declined brief swallows a store error; the inflight claim lapses after 120 s, and the authorization that the buyer was told is not settled is settled on a retry that passes |
| `LossOnce` (`seller-dd/handler.ts:274`: "loss written exactly once") | `sdd.cfg`: `MaxFaults = 2` | the claim update of an unconfirmed settle is lost and swallowed, so the inflight claim lapses; a second request with the authorization takes it, caches its own verdict over the first one's, and a store error in the cache or the log makes it record its loss; the cron then closes the pending authorization, finds the second verdict and records the same loss again |

Seen while modelling, and left out of the properties by a named exception:

* `seller-dd/handler.ts:207`: when the signature of a passed verdict fails, no loss is
  recorded for a test payment that left our wallet (`caps.ts:153` says the ledger counts
  each); `unsigned` in `LossBooked`.
* `seller-dd/handler.ts:295-298`: two concurrent redeems both deliver and both give back the
  decline slot (`slots` may go below zero in the model, as in the store).
* `seller-dd/caps.ts:143`: a reservation dropped from `dd:open` on a failed read, or whose
  answer was lost, stays counted for good; the caps err on the safe side, which is why
  `SpendReturned` speaks of behaviours without a fault.
* a cancelled authorization reads as used, so a redeem may answer `charged: true` for it
  (`VerdictIsPaid` asks for a used authorization).
* the rails answer `402` where the store fails before the claim, also to the retry of a
  charged and undelivered payment (`xrpl-rail.ts:2302-2308`, `solana-rail.ts:2144`, `2313`
  against `docs/solana-rail.md:57-58`); `told` therefore
  counts the answers of requests that got past the claim. The catch at
  `solana-rail.ts:2462` would answer `402` after a settle too, but what it encloses after
  one (the lookup, the store writes) catches its own errors, so the model has no such step.

`StopAlone`, `ClearAlone`, `SlowReads` and the instances of `xrpl` and `solana` (`Apart`) keep
the interleavings above out of the passing runs of their modules, so that the runs say what
holds apart from them. The comment at
`jobs.ts:136` ("every async accept 503") is older than the settle-first mode that
`handler.ts:297` introduced; `SettleStrikes!Accept` follows the code.

## 8. What is not modelled

* What the work computes, and every text, price list and discovery document: no
  property here depends on them.
* The pure checks before a claim (binding, signature, smart wallets, window arithmetic)
  are the guards of `Open` and `AcceptReserve`.
* The purge of a job after 30 days, and the fallback of the reconcile log: an instance
  persists at most 50 lines a day of some outcomes; a line in the models is the
  console line that is always written.
* Of seller due diligence: the pause latch (`pause.ts:59`), the scan of our wallet
  (`watch.ts`), the operator's re-check with its lock (`handler.ts` 334-392), the seeding
  of the ledgers from older counters, the per-seller settle counter (folded into `fails`).
* Of the rails: initialisation and configuration, the payload's own checks (a payload that
  fails them opens no request), the store in memory of a testnet, the 25 h expiry of a
  slot (past the horizon), alerts; on Solana the breaker of `getSlot` and its `503`.
* Steps that are coarser than the code's commands. `PremiumJobs`: `AcceptCreate` (the writes
  of `createJob`), `SendSettle`, `HoldClaim`, `Prepay`, `Deliver` and `FailRelease` are each a
  few store commands in one step, so a kill or an error falls before or after all of them.
  `SellerDd`: `Drop` and `Give` take the `zrem` and the compare-and-set of the claim together
  (`handler.ts` 295-296, 302), with at most one of them lost. `SellerDdCaps!Book` and
  `RecordLoss` do the three commands of a booking (`caps.ts` 97-99, 159-162) in one step, or,
  where the store fails, the first few of them: a kill between two counts as a store error.
* Data that is simpler than the code's. A failed write of the settle-failure counter closes
  the route for all instances, where the code closes the one instance and writes the shared
  marker if it can (`caps.ts` 195-196): `SellerDd` then starts fewer requests. Chain reads of
  `SellerDd` never come from a lagging node. The caps of a day do not roll over at midnight
  UTC (`PremiumSync`, `SellerDdCaps`).
* The x402 server and the Base and Polygon rails keep nothing between requests.
* The MCP client's budget, discourse spend and the free tier: planned, section 9.
* Alerts and logs (append-only, their failures change no answer), fetch guards, data
  endpoints, pages, scripts: no state a model would check.

## 9. The plan

Order of the modules, by the money at stake and the interleavings behind it:

1. *done*: `PremiumJobs` with `PurchaseContract` and its first proofs; `WatchDays` with
   `WatchTerms`; `SettleStrikes`; `PremiumSync`.
2. *done*: `SellerDdCaps` and `SellerDd` (`seller-dd/caps.ts`, `handler.ts`, the test
   payment of `engine.ts`); `ReplayStore` with `XrplSlot` and `SolanaSlot`.
3. `PauseLatch` (`pause.ts:59`).
4. `McpBudget` (`mcp/src/pay.ts:37`), `DiscourseSpend`, `FreeTier`; the purge, as actions
   of `PremiumJobs`.
5. Compositions: the strikes with the jobs (a blocked payer and the jobs in flight), and
   `PremiumJobs` with `PremiumSync` over one authorization (both claim the same key).

Theorems: every safety property the runs check, and both refinements, are proved (section
6). Worth proving next: that a submitted payment of `SellerDd` keeps its verdict under any
number of errors as long as its claim does not lapse (the case `MaxFaults <= 1` stands for),
which would give `LossOnce` a hypothesis on the lapse instead of one on the count; for
`SettleStrikes` how long a blocked payer stays blocked at most; and the theorems of the
modules of points 3 to 5 as they are written.
