---------------------------- MODULE PremiumJobs ----------------------------
(***************************************************************************)
(* The asynchronous premium purchase (the $20 report and the first         *)
(* deliverable of the $75 watch): lib/premium/jobs.ts, driven by the accept *)
(* path of lib/premium/handler.ts, by status polls and by the daily cron.  *)
(*                                                                         *)
(* Every serverless invocation is a process p \in Procs.  It runs either   *)
(* the accept path (mode "accept") or one runJob (mode "run"), keeps a     *)
(* local copy of the job record it loaded, and writes that copy back whole *)
(* (saveJob), so the last writer wins.  Each store command is atomic; the  *)
(* code between two commands may be cut short by a crash or by a store     *)
(* error.  The payer's EIP-3009 authorization lives on a chain that the    *)
(* facilitator writes and the code only reads.                             *)
(*                                                                         *)
(* Time is a bounded counter of ticks, one tick being the longest life of  *)
(* an invocation (maxDuration 60 s): an invocation sees at most one tick,  *)
(* and the tick that begins at a deadline lies past it.                    *)
(***************************************************************************)
EXTENDS Integers, FiniteSets

CONSTANTS Jobs,          \* job ids, one per accept request
          Auths,         \* payment authorizations: (from, nonce)
          Payers,
          Procs,         \* invocations that may run at the same time
          NoJob, NoProc,
          AuthOf,        \* the authorization each request carries
          PayerOf,       \* the payer that signed it
          ValidBefore,   \* its validBefore
          Steps,         \* checkpointed steps of the first deliverable
          Budget,        \* FIRST_DELIVERABLE_BUDGET_MS
          ClaimTTL,      \* CLAIM_TTL_MS.job: claim, auth key, open slot
          MinRemaining,  \* ASYNC_MIN_REMAINING_S
          MaxRemaining,  \* MAX_VALID_BEFORE_S
          Margin,        \* the 30 s kept before validBefore at settle
          OpenPerPayer,  \* OPEN_PER_PAYER
          OpenGlobal,    \* OPEN_GLOBAL
          SettleFirst,   \* what the global breaker may say at accept
          MaxTime,       \* bound: last tick of the clock
          MaxFaults,     \* bound: crashes and store errors
          CasFaults      \* may the claim's compare-and-set fail unnoticed?

ASSUME ConstantsAssumption ==
  /\ AuthOf \in [Jobs -> Auths]
  /\ PayerOf \in [Auths -> Payers]
  /\ ValidBefore \in [Auths -> Nat]
  /\ {Steps, OpenPerPayer, OpenGlobal} \subseteq Nat \ {0}
  /\ {Budget, ClaimTTL, MinRemaining, MaxRemaining, Margin} \subseteq Nat
  /\ {MaxTime, MaxFaults} \subseteq Nat
  /\ SettleFirst \subseteq BOOLEAN
  /\ CasFaults \in BOOLEAN
  /\ NoJob \notin Jobs
  /\ NoProc \notin Procs

\* The constants are ordered as in the code: 10 min < 11 min, and the budget
\* plus an accept and a run invocation ends before the 20 min claim does.
ASSUME TimingAssumption ==
  /\ Budget < MinRemaining
  /\ Budget + 2 < ClaimTTL

VARIABLES
  job,        \* job:<id>, the stored record
  result,     \* result:<id> exists
  authKey,    \* auth:<id>, the stored payload: its expiry (0: deleted)
  claim,      \* claim:<from>:<nonce>
  slot,       \* open:payer and open:global: this job's score (0: removed)
  active,     \* jobs:active
  lease,      \* lease:<id>
  replied,    \* jobs whose 202 (status link and token) was returned
  recon,      \* jobs with a reconcile line
  chain,      \* state of each authorization on the chain
  sent,       \* jobs whose settle request reached the facilitator
  now, faults,
  pc, mode, on, copy, aged   \* of each invocation

store == <<job, result, authKey, claim, slot, active, lease>>
world == <<replied, recon, chain, sent, now, faults>>
procs == <<pc, mode, on, copy, aged>>
vars  == <<store, world, procs>>

----------------------------------------------------------------------------
Final    == {"delivered", "failed_uncharged", "failed_charged"}
Pending  == {"accepted", "running", "built"}
Runnable == Pending \cup {"settle_unconfirmed"}
Status   == Runnable \cup Final \cup {"none", "settling"}

ClaimState == {"none", "job", "unconfirmed", "settled", "conflict"}
Failure    == {"none", "budget", "work_failed", "authorization_missing",
               "authorization_expired", "never_landed"}

JobRec == [status: Status, charged: BOOLEAN, prepaid: BOOLEAN,
           first: BOOLEAN, steps: 0..Steps, created: Nat,
           held: ClaimState, failure: Failure]

NoRec == [status |-> "none", charged |-> FALSE, prepaid |-> FALSE,
          first |-> FALSE, steps |-> 0, created |-> 0, held |-> "none",
          failure |-> "none"]

Claim   == [s: ClaimState, owner: Jobs \cup {NoJob}, exp: Nat]
NoClaim == [s |-> "none", owner |-> NoJob, exp |-> 0]

PC == {"idle", "claim", "verify", "create", "index",
       "load", "running", "work", "compiled", "built",
       "auth", "send", "call", "hold", "prepay", "deliver",
       "probe", "not_landed", "release", "unindex", "save"}

----------------------------------------------------------------------------
\* What a live key is: Redis drops a key, and the code prunes a score, at
\* its expiry.  Claims other than "job" outlive every authorization.
LiveClaim(a) == /\ claim[a].s # "none"
                /\ claim[a].s = "job" => claim[a].exp > now
HasAuth(j)   == authKey[j] > now
OpenSlots(J) == {j \in J : slot[j] > now}

A(p) == AuthOf[on[p]]
OwnsClaim(p) == /\ LiveClaim(A(p))
                /\ claim[A(p)].owner = on[p]
                /\ claim[A(p)].s = copy[p].held
MovedClaim(p, s) ==
  [claim EXCEPT ![A(p)] = [s |-> s, owner |-> on[p], exp |-> 0]]

\* moveClaim: an exact-value CAS; `held` is the state the invocation believes
\* it holds afterwards.  A failed command (timeout of the store) may or may
\* not have been applied, and the callers swallow the error.
MoveClaim(p, s, held) ==
  \/ /\ OwnsClaim(p)
     /\ claim' = MovedClaim(p, s)
     /\ held = s
  \/ /\ ~OwnsClaim(p)
     /\ claim' = claim
     /\ held = copy[p].held
  \/ /\ CasFaults
     /\ \/ claim' = claim
        \/ OwnsClaim(p) /\ claim' = MovedClaim(p, s)
     /\ held = copy[p].held

\* releaseClaim: compare-and-delete, errors swallowed (the TTL covers it).
ReleaseClaim(p) ==
  \/ claim' = IF OwnsClaim(p) THEN [claim EXCEPT ![A(p)] = NoClaim] ELSE claim
  \/ CasFaults /\ claim' = claim

\* Updates of one invocation.
Goto(p, l)     == pc' = [pc EXCEPT ![p] = l]
SetCopy(p, r)  == copy' = [copy EXCEPT ![p] = r]
Stay           == UNCHANGED <<mode, on, aged>>
Step(p, l, r)  == Goto(p, l) /\ SetCopy(p, r) /\ Stay
SaveJob(p, r)  == job' = [job EXCEPT ![on[p]] = r]
Stop(p) == /\ Goto(p, "idle")
           /\ SetCopy(p, NoRec)
           /\ on' = [on EXCEPT ![p] = NoJob]
           /\ mode' = [mode EXCEPT ![p] = "none"]
           /\ aged' = [aged EXCEPT ![p] = FALSE]
\* The finally of runJob: casDel of this run's own lease.
Release(p) ==
  lease' = IF mode[p] = "run" /\ lease[on[p]] = p
             THEN [lease EXCEPT ![on[p]] = NoProc] ELSE lease

----------------------------------------------------------------------------
Init ==
  /\ job = [j \in Jobs |-> NoRec]
  /\ result = [j \in Jobs |-> FALSE]
  /\ authKey = [j \in Jobs |-> 0]
  /\ claim = [a \in Auths |-> NoClaim]
  /\ slot = [j \in Jobs |-> 0]
  /\ active = {}
  /\ lease = [j \in Jobs |-> NoProc]
  /\ replied = {} /\ recon = {} /\ sent = {}
  /\ chain = [a \in Auths |-> "unused"]
  /\ now = 0 /\ faults = 0
  /\ pc = [p \in Procs |-> "idle"]
  /\ mode = [p \in Procs |-> "none"]
  /\ on = [p \in Procs |-> NoJob]
  /\ copy = [p \in Procs |-> NoRec]
  /\ aged = [p \in Procs |-> FALSE]

----------------------------------------------------------------------------
(* The accept path. *)

\* A job id is drawn once: no slot, record or invocation bears it yet.
Fresh(j) == /\ job[j].status = "none" /\ slot[j] = 0 /\ authKey[j] = 0
            /\ \A p \in Procs : on[p] # j
            /\ \A a \in Auths : claim[a].owner # j

\* The window check, the breaker (first) and the atomic reservation of an
\* open slot; a refusal (429) changes nothing.
AcceptReserve(p, j, first) ==
  LET a == AuthOf[j] IN
  /\ pc[p] = "idle" /\ Fresh(j)
  /\ now + MinRemaining <= ValidBefore[a]
  /\ ValidBefore[a] <= now + MaxRemaining
  /\ Cardinality({k \in OpenSlots(Jobs) : PayerOf[AuthOf[k]] = PayerOf[a]})
       < OpenPerPayer
  /\ Cardinality(OpenSlots(Jobs)) < OpenGlobal
  /\ slot' = [slot EXCEPT ![j] = now + ClaimTTL]
  /\ Goto(p, "claim")
  /\ mode' = [mode EXCEPT ![p] = "accept"]
  /\ on' = [on EXCEPT ![p] = j]
  /\ SetCopy(p, [NoRec EXCEPT !.first = first])
  /\ UNCHANGED <<job, result, authKey, claim, active, lease, world, aged>>

\* The finally of premiumHandler: an accept that was refused gives its slot
\* back.  The job id is never used again (the slot's 0 is a new draw).
RefuseAccept(p) == slot' = [slot EXCEPT ![on[p]] = 0] /\ Stop(p)

\* tryClaim: SET NX; a live claim of anybody answers 503 or 409.
AcceptClaim(p) ==
  /\ pc[p] = "claim"
  /\ \/ /\ ~LiveClaim(A(p))
        /\ claim' = [claim EXCEPT ![A(p)] =
                       [s |-> "job", owner |-> on[p], exp |-> now + ClaimTTL]]
        /\ Step(p, "verify", [copy[p] EXCEPT !.held = "job"])
        /\ UNCHANGED slot
     \/ /\ LiveClaim(A(p))
        /\ RefuseAccept(p)
        /\ UNCHANGED claim
  /\ UNCHANGED <<job, result, authKey, active, lease, world>>

\* nonceUsed, then verify and the current block: a used nonce parks the claim
\* as a conflict, an unanswered or failed check releases it.
AcceptVerify(p) ==
  /\ pc[p] = "verify"
  /\ \/ /\ chain[A(p)] = "unused"
        /\ Step(p, "create", copy[p])
        /\ UNCHANGED <<claim, slot>>
     \/ /\ chain[A(p)] # "unused"
        /\ \E held \in ClaimState : MoveClaim(p, "conflict", held)
        /\ RefuseAccept(p)
     \/ /\ ReleaseClaim(p)
        /\ RefuseAccept(p)
  /\ UNCHANGED <<job, result, authKey, active, lease, world>>

\* createJob: the payload and the record ...
AcceptCreate(p) ==
  LET r == [copy[p] EXCEPT !.status = "accepted", !.created = now] IN
  /\ pc[p] = "create"
  /\ authKey' = [authKey EXCEPT ![on[p]] = now + ClaimTTL]
  /\ SaveJob(p, r)
  /\ Step(p, "index", r)
  /\ UNCHANGED <<result, claim, slot, active, lease, world>>

\* Mutant: the authorization is settled at accept whatever the mode.
MutAcceptIndex(p) ==
  /\ pc[p] = "index"
  /\ active' = active \cup {on[p]}
  /\ Step(p, "auth", copy[p])
  /\ UNCHANGED <<job, result, authKey, claim, slot, lease, world>>

\* ... then the index; in settle-first mode settleAtAccept follows, else 202.
AcceptIndex(p) ==
  /\ pc[p] = "index"
  /\ active' = active \cup {on[p]}
  /\ IF copy[p].first
       THEN Step(p, "auth", copy[p]) /\ UNCHANGED replied
       ELSE Stop(p) /\ replied' = replied \cup {on[p]}
  /\ UNCHANGED <<job, result, authKey, claim, slot, lease,
                 recon, chain, sent, now, faults>>

----------------------------------------------------------------------------
(* runJob, up to the settle. *)

\* Mutant: the lease is not looked at.
MutStart(p, j) ==
  /\ pc[p] = "idle"
  /\ j \in active \cup replied
  /\ job[j].status \in Runnable
  /\ lease' = [lease EXCEPT ![j] = p]
  /\ Goto(p, "load")
  /\ mode' = [mode EXCEPT ![p] = "run"]
  /\ on' = [on EXCEPT ![p] = j]
  /\ UNCHANGED <<job, result, authKey, claim, slot, active, world, copy, aged>>

\* A poll of the token holder, the invocation that answered 202 (after), or
\* the cron through jobs:active, takes the lease.  On any other status a run
\* changes nothing.
Start(p, j) ==
  /\ pc[p] = "idle"
  /\ j \in active \cup replied
  /\ job[j].status \in Runnable
  /\ lease[j] = NoProc
  /\ lease' = [lease EXCEPT ![j] = p]
  /\ Goto(p, "load")
  /\ mode' = [mode EXCEPT ![p] = "run"]
  /\ on' = [on EXCEPT ![p] = j]
  /\ UNCHANGED <<job, result, authKey, claim, slot, active, world, copy, aged>>

FailsWith(r, why) == [r EXCEPT !.status = "failed_uncharged",
                               !.charged = FALSE, !.failure = why]
FailsCharged(r, why) == [r EXCEPT !.status = "failed_charged", !.failure = why]

\* A job that cannot be delivered ends by failCharged if it was prepaid (with
\* a reconcile line), else by failUncharged.
GiveUp(p, r, why) ==
  /\ Step(p, "release", IF r.prepaid THEN FailsCharged(r, why)
                                     ELSE FailsWith(r, why))
  /\ recon' = IF r.prepaid THEN recon \cup {on[p]} ELSE recon

\* Mutant: the ten-minute budget is not checked when a job is resumed.
MutLoad(p) ==
  LET r == job[on[p]] IN
  /\ pc[p] = "load"
  /\ CASE r.status \in {"accepted", "running"} ->
            Step(p, "running", [r EXCEPT !.status = "running"]) /\ UNCHANGED lease
       [] r.status = "built" -> Step(p, "built", r) /\ UNCHANGED lease
       [] r.status = "settle_unconfirmed" -> Step(p, "probe", r) /\ UNCHANGED lease
       [] OTHER -> Release(p) /\ Stop(p)
  /\ UNCHANGED <<job, result, authKey, claim, slot, active, world>>

\* loadJob and the dispatch on its status.
Load(p) ==
  LET r == job[on[p]] IN
  /\ pc[p] = "load"
  /\ \/ /\ r.status \in Pending /\ now > r.created + Budget
        /\ GiveUp(p, r, "budget")
        /\ UNCHANGED lease
     \/ /\ r.status \in {"accepted", "running"} /\ now <= r.created + Budget
        /\ Step(p, "running", [r EXCEPT !.status = "running"])
        /\ UNCHANGED <<lease, recon>>
     \/ /\ r.status = "built" /\ now <= r.created + Budget
        /\ Step(p, "built", r)
        /\ UNCHANGED <<lease, recon>>
     \/ /\ r.status = "settle_unconfirmed"
        /\ Step(p, "probe", r)
        /\ UNCHANGED <<lease, recon>>
     \/ /\ r.status \notin Runnable
        /\ Release(p) /\ Stop(p)
        /\ UNCHANGED recon
  /\ UNCHANGED <<job, result, authKey, claim, slot, active,
                 replied, chain, sent, now, faults>>

SaveRunning(p) ==
  /\ pc[p] = "running"
  /\ SaveJob(p, copy[p])
  /\ Step(p, "work", copy[p])
  /\ UNCHANGED <<result, authKey, claim, slot, active, lease, world>>

\* Mutant: a checkpoint that is done is done again.
MutCheckpoint(p) ==
  LET r == [copy[p] EXCEPT !.steps = @ + 1] IN
  /\ pc[p] = "work"
  /\ SaveJob(p, r)
  /\ Step(p, "work", r)
  /\ UNCHANGED <<result, authKey, claim, slot, active, lease, world>>

\* One checkpoint of stepReport: its output, then its flag.  If the deadline
\* is near, the run stops here and a later one goes on from the flag.
Checkpoint(p) ==
  LET r == [copy[p] EXCEPT !.steps = @ + 1] IN
  /\ pc[p] = "work" /\ copy[p].steps < Steps
  /\ SaveJob(p, r)
  /\ \/ Step(p, "work", r) /\ UNCHANGED lease
     \/ Release(p) /\ Stop(p)
  /\ UNCHANGED <<result, authKey, claim, slot, active, world>>

\* All checkpoints done: the result is written, then the record is "built".
Build(p) ==
  /\ pc[p] = "work" /\ copy[p].steps = Steps
  /\ result' = [result EXCEPT ![on[p]] = TRUE]
  /\ Step(p, "compiled", [copy[p] EXCEPT !.status = "built"])
  /\ UNCHANGED <<job, authKey, claim, slot, active, lease, world>>

SaveBuilt(p) ==
  /\ pc[p] = "compiled"
  /\ SaveJob(p, copy[p])
  /\ Step(p, "built", copy[p])
  /\ UNCHANGED <<result, authKey, claim, slot, active, lease, world>>

\* Any exception of the work, a store error included.
WorkFails(p) ==
  /\ pc[p] = "work"
  /\ GiveUp(p, copy[p], "work_failed")
  /\ UNCHANGED <<job, result, authKey, claim, slot, active, lease,
                 replied, chain, sent, now, faults>>

\* A prepaid job is delivered; any other settles, unless less than the settle
\* reserve is left before the deadline.
AfterBuilt(p) ==
  /\ pc[p] = "built"
  /\ IF copy[p].prepaid
       THEN Step(p, "deliver", copy[p]) /\ UNCHANGED lease
       ELSE \/ Step(p, "auth", copy[p]) /\ UNCHANGED lease
            \/ Release(p) /\ Stop(p)
  /\ UNCHANGED <<job, result, authKey, claim, slot, active, world>>

----------------------------------------------------------------------------
(* settleJob, from runJob (under the lease) or settleAtAccept (without it). *)

\* The stored payload and the time left are read before anything is sent.
ReadAuth(p) ==
  /\ pc[p] = "auth"
  /\ \/ /\ ~HasAuth(on[p])
        /\ Step(p, "release", FailsWith(copy[p], "authorization_missing"))
     \/ /\ HasAuth(on[p]) /\ now >= ValidBefore[A(p)] - Margin
        /\ Step(p, "release", FailsWith(copy[p], "authorization_expired"))
     \/ /\ HasAuth(on[p]) /\ now < ValidBefore[A(p)] - Margin
        /\ Step(p, "send", [copy[p] EXCEPT !.status = "settling"])
  /\ UNCHANGED <<store, world>>

\* The record says "settling", then the facilitator gets the request.
SendSettle(p) ==
  /\ pc[p] = "send"
  /\ SaveJob(p, copy[p])
  /\ sent' = sent \cup {on[p]}
  /\ Step(p, "call", copy[p])
  /\ UNCHANGED <<result, authKey, claim, slot, active, lease,
                 replied, recon, chain, now, faults>>

Charged(r) == [r EXCEPT !.charged = TRUE]
Prepaid(r) == [r EXCEPT !.charged = TRUE, !.prepaid = TRUE,
                        !.status = "accepted"]

\* Mutant: any answer of the facilitator counts as a success.
MutSettleOk(p) ==
  /\ pc[p] = "call"
  /\ Step(p, "deliver", copy[p])
  /\ UNCHANGED <<store, world>>

\* success and a transaction: the transfer is on the chain.
SettleOk(p) ==
  /\ pc[p] = "call" /\ chain[A(p)] = "charged"
  /\ IF mode[p] = "accept" THEN Step(p, "prepay", Prepaid(copy[p]))
                           ELSE Step(p, "deliver", copy[p])
  /\ UNCHANGED <<store, world>>

\* Mutant: a failed settle fails the job at once.
MutSettleFails(p) ==
  /\ pc[p] = "call"
  /\ Step(p, "release", FailsWith(copy[p], "authorization_expired"))
  /\ UNCHANGED <<store, world>>

\* A timeout, or any answer that is neither: the transfer may have landed, may
\* still land, or never.  A reconcile line is written.
Unconfirmed(p) ==
  /\ recon' = recon \cup {on[p]}
  /\ Step(p, "hold", [copy[p] EXCEPT !.status = "settle_unconfirmed"])
SettleFails(p) ==
  /\ pc[p] = "call"
  /\ Unconfirmed(p)
  /\ UNCHANGED <<store, replied, chain, sent, now, faults>>

\* Mutant: the claim is left in its "job" state.
MutHoldClaim(p) ==
  /\ pc[p] = "hold"
  /\ Step(p, "save", copy[p])
  /\ active' = active \cup {on[p]}
  /\ UNCHANGED <<job, result, authKey, claim, slot, lease, world>>

\* The claim is held for 30 days; the job stays indexed for the cron.
HoldClaim(p) ==
  /\ pc[p] = "hold"
  /\ \E held \in ClaimState :
       /\ MoveClaim(p, "unconfirmed", held)
       /\ Step(p, "save", [copy[p] EXCEPT !.held = held])
  /\ active' = active \cup {on[p]}
  /\ UNCHANGED <<job, result, authKey, slot, lease, world>>

\* markPrepaid's second half: the job goes on as a paid one.
Prepay(p) ==
  /\ pc[p] = "prepay"
  /\ \E held \in ClaimState :
       /\ MoveClaim(p, "settled", held)
       /\ Step(p, "save", [copy[p] EXCEPT !.held = held])
  /\ authKey' = [authKey EXCEPT ![on[p]] = 0]
  /\ UNCHANGED <<job, result, slot, active, lease, world>>

\* deliver (report; the watch tier goes on as WatchDays): the claim, the
\* payload and the slot, then the index, then the record.
Deliver(p) ==
  /\ pc[p] = "deliver"
  /\ \E held \in ClaimState : MoveClaim(p, "settled", held)
  /\ authKey' = [authKey EXCEPT ![on[p]] = 0]
  /\ slot' = [slot EXCEPT ![on[p]] = 0]
  /\ Step(p, "unindex", [Charged(copy[p]) EXCEPT !.status = "delivered"])
  /\ UNCHANGED <<job, result, active, lease, world>>

\* Mutant: a job that failed keeps its open slot.
MutFailRelease(p) ==
  /\ pc[p] = "release"
  /\ authKey' = [authKey EXCEPT ![on[p]] = 0]
  /\ ReleaseClaim(p)
  /\ Step(p, "unindex", copy[p])
  /\ UNCHANGED <<job, result, slot, active, lease, world>>

\* The last run of a job that failed: failUncharged drops the payload and
\* releases the claim, the job whose settle never landed keeps its claim,
\* failCharged keeps both; all give the slot back.
FailRelease(p) ==
  /\ pc[p] = "release"
  /\ CASE copy[p].status = "failed_charged" -> UNCHANGED <<authKey, claim>>
       [] copy[p].failure = "never_landed" ->
            authKey' = [authKey EXCEPT ![on[p]] = 0] /\ UNCHANGED claim
       [] OTHER ->
            authKey' = [authKey EXCEPT ![on[p]] = 0] /\ ReleaseClaim(p)
  /\ slot' = [slot EXCEPT ![on[p]] = 0]
  /\ Step(p, "unindex", copy[p])
  /\ UNCHANGED <<job, result, active, lease, world>>

Unindex(p) ==
  /\ pc[p] = "unindex"
  /\ active' = active \ {on[p]}
  /\ Step(p, "save", copy[p])
  /\ UNCHANGED <<job, result, authKey, claim, slot, lease, world>>

\* The last saveJob; a run gives its lease back, an accept answers 202.
Save(p) ==
  /\ pc[p] = "save"
  /\ SaveJob(p, copy[p])
  /\ replied' = IF mode[p] = "accept" THEN replied \cup {on[p]} ELSE replied
  /\ Release(p) /\ Stop(p)
  /\ UNCHANGED <<result, authKey, claim, slot, active,
                 recon, chain, sent, now, faults>>

----------------------------------------------------------------------------
(* settle_unconfirmed: resolved from the chain. *)

\* Mutant: a used nonce counts as a charge, its log is not looked for.
MutProbe(p) ==
  /\ pc[p] = "probe"
  /\ IF chain[A(p)] # "unused"
       THEN IF copy[p].first /\ ~result[on[p]]
              THEN Step(p, "prepay", Prepaid(copy[p]))
              ELSE Step(p, "deliver", copy[p])
       ELSE Step(p, "not_landed", copy[p])
  /\ UNCHANGED <<store, world>>

\* settleLanded: the nonce state and, if it is used, the AuthorizationUsed
\* log (a cancelled authorization has none).  A settle-first job whose
\* deliverable is missing goes on prepaid, any other is delivered.
Probe(p) ==
  /\ pc[p] = "probe"
  /\ \/ /\ chain[A(p)] = "charged"
        /\ IF copy[p].first /\ ~result[on[p]]
             THEN Step(p, "prepay", Prepaid(copy[p]))
             ELSE Step(p, "deliver", copy[p])
        /\ UNCHANGED lease
     \/ /\ chain[A(p)] # "charged"
        /\ Step(p, "not_landed", copy[p])
        /\ UNCHANGED lease
     \/ Release(p) /\ Stop(p)      \* "unknown": nothing changes
  /\ UNCHANGED <<job, result, authKey, claim, slot, active, world>>

\* Mutant: a settle that never landed is asked about for ever.
MutNotLanded(p) ==
  /\ pc[p] = "not_landed"
  /\ Release(p) /\ Stop(p)
  /\ UNCHANGED <<job, result, authKey, claim, slot, active, world>>

\* The clock is read after the chain was.
NotLanded(p) ==
  /\ pc[p] = "not_landed"
  /\ IF now >= ValidBefore[A(p)]
       THEN /\ Step(p, "release", FailsWith(copy[p], "never_landed"))
            /\ UNCHANGED lease
       ELSE Release(p) /\ Stop(p)
  /\ UNCHANGED <<job, result, authKey, claim, slot, active, world>>

----------------------------------------------------------------------------
(* Faults. *)

Fault == faults < MaxFaults /\ faults' = faults + 1

\* The platform kills an invocation: its lease stays until it lapses.
Crash(p) ==
  /\ pc[p] # "idle" /\ Fault
  /\ Stop(p)
  /\ UNCHANGED <<store, replied, recon, chain, sent, now>>

\* A store command fails, applied or not (an applied one whose answer is lost
\* is the same failure one step later).  Outside the work (WorkFails) that ends
\* a run, which gives its lease back.
ThrowRun(p) ==
  /\ pc[p] \notin {"idle", "work", "call", "probe", "not_landed"}
  /\ mode[p] = "run"
  /\ Fault
  /\ Release(p) /\ Stop(p)
  /\ UNCHANGED <<job, result, authKey, claim, slot, active,
                 replied, recon, chain, sent, now>>

\* It ends an accept with 503, which gives the slot back; the job may already
\* be in the index.
ThrowAccept(p) ==
  /\ pc[p] \in {"claim", "verify", "create", "index"}
  /\ Fault
  /\ RefuseAccept(p)
  /\ \/ UNCHANGED active
     \/ pc[p] = "index" /\ active' = active \cup {on[p]}
  /\ UNCHANGED <<job, result, authKey, claim, lease,
                 replied, recon, chain, sent, now>>

\* Inside settleAtAccept it is caught: an unconfirmed settle.
ThrowSettleFirst(p) ==
  /\ pc[p] \notin {"idle", "call", "claim", "verify", "create", "index"}
  /\ mode[p] = "accept"
  /\ Fault
  /\ Unconfirmed(p)
  /\ UNCHANGED <<store, replied, chain, sent, now>>

----------------------------------------------------------------------------
(* The chain and the clock. *)

\* A request the facilitator holds may land while the authorization is valid.
Land(a) ==
  /\ chain[a] = "unused" /\ now < ValidBefore[a]
  /\ \E j \in sent : AuthOf[j] = a
  /\ chain' = [chain EXCEPT ![a] = "charged"]
  /\ UNCHANGED <<store, replied, recon, sent, now, faults, procs>>

\* The payer may cancel its authorization (cancelAuthorization).
Cancel(a) ==
  /\ chain[a] = "unused" /\ now < ValidBefore[a]
  /\ \E j \in Jobs : AuthOf[j] = a /\ job[j].status # "none"
  /\ chain' = [chain EXCEPT ![a] = "cancelled"]
  /\ UNCHANGED <<store, replied, recon, sent, now, faults, procs>>

\* An invocation that saw a tick ends before the next (it is short, or it is
\* killed); the lease of one that is gone lapses (55 s).
Holds(p, j) == pc[p] # "idle" /\ mode[p] = "run" /\ on[p] = j
Tick ==
  /\ now < MaxTime
  /\ \A p \in Procs : ~aged[p]
  /\ now' = now + 1
  /\ aged' = [p \in Procs |-> pc[p] # "idle"]
  /\ lease' = [j \in Jobs |-> IF lease[j] \in Procs /\ Holds(lease[j], j)
                                THEN lease[j] ELSE NoProc]
  /\ UNCHANGED <<job, result, authKey, claim, slot, active,
                 replied, recon, chain, sent, faults, pc, mode, on, copy>>

----------------------------------------------------------------------------
Accept(p) == \/ \E j \in Jobs, first \in SettleFirst : AcceptReserve(p, j, first)
             \/ AcceptClaim(p) \/ AcceptVerify(p)
             \/ AcceptCreate(p) \/ AcceptIndex(p)
Run(p) == \/ Load(p) \/ SaveRunning(p) \/ Checkpoint(p) \/ Build(p)
          \/ SaveBuilt(p) \/ AfterBuilt(p) \/ Probe(p) \/ NotLanded(p)
Settle(p) == \/ ReadAuth(p) \/ SendSettle(p) \/ SettleOk(p) \/ SettleFails(p)
             \/ HoldClaim(p) \/ Prepay(p) \/ Deliver(p)
             \/ FailRelease(p) \/ Unindex(p) \/ Save(p)

Next ==
  \/ \E p \in Procs : \/ Accept(p) \/ Run(p) \/ Settle(p)
                      \/ WorkFails(p) \/ Crash(p)
                      \/ ThrowRun(p) \/ ThrowAccept(p) \/ ThrowSettleFirst(p)
                      \/ \E j \in Jobs : Start(p, j)
  \/ \E a \in Auths : Land(a) \/ Cancel(a)
  \/ Tick

Spec == Init /\ [][Next]_vars

----------------------------------------------------------------------------
(* Properties. *)

\* Every variable has its type.
TypeOK ==
  /\ job \in [Jobs -> JobRec]
  /\ result \in [Jobs -> BOOLEAN]
  /\ authKey \in [Jobs -> Nat]
  /\ claim \in [Auths -> Claim]
  /\ slot \in [Jobs -> Nat]
  /\ active \subseteq Jobs /\ replied \subseteq Jobs
  /\ recon \subseteq Jobs /\ sent \subseteq Jobs
  /\ lease \in [Jobs -> Procs \cup {NoProc}]
  /\ chain \in [Auths -> {"unused", "charged", "cancelled"}]
  /\ now \in Nat /\ faults \in Nat
  /\ pc \in [Procs -> PC]
  /\ mode \in [Procs -> {"none", "accept", "run"}]
  /\ on \in [Procs -> Jobs \cup {NoJob}]
  /\ copy \in [Procs -> JobRec]
  /\ aged \in [Procs -> BOOLEAN]

\* "Nothing readable before settle succeeds" (jobs.ts:3): a delivered job has
\* its deliverable, and its authorization was charged on the chain.
NothingReadableUnpaid ==
  \A j \in Jobs : job[j].status = "delivered" =>
                    chain[AuthOf[j]] = "charged" /\ result[j]

\* One authorization pays for one job: two requests that carry the same
\* (from, nonce) are never both delivered.
OneDeliveryPerAuthorization ==
  \A j, k \in Jobs : /\ AuthOf[j] = AuthOf[k]
                     /\ job[j].status = "delivered"
                     /\ job[k].status = "delivered"
                     => j = k

\* The terms (copy.ts:104): a job that ends as failed_uncharged never had its
\* authorization submitted, unless it failed because the settle it did submit
\* was found never to have landed.
FailedNeverSubmitted ==
  \A j \in Jobs : /\ job[j].status = "failed_uncharged"
                  /\ job[j].failure # "never_landed"
                  => j \notin sent

\* The terms (copy.ts:104): outside settle-first mode the authorization is
\* submitted only once the first deliverable exists.
ChargedAfterBuild ==
  \A j \in sent : ~job[j].first => result[j]

\* copy.ts:104: nothing is charged but for work that was done: the authorization
\* goes out after the deliverable, and never for a job that fails uncharged.
ChargedForWork == ChargedAfterBuild /\ FailedNeverSubmitted

\* While a settle request is out, its job owns the authorization's claim, so
\* nobody else can have been accepted on it.
ClaimCoversSettle ==
  \A p \in Procs : pc[p] = "call" => OwnsClaim(p)

\* An unconfirmed settle keeps its authorization claimed for good (jobs.ts:382:
\* "it cannot expire at the 20-min job TTL while the authorization is live").
UnconfirmedHoldsClaim ==
  \A j \in Jobs : job[j].status = "settle_unconfirmed" =>
    /\ claim[AuthOf[j]].owner = j
    /\ claim[AuthOf[j]].s \in {"unconfirmed", "settled"}

\* claim.ts:3: whoever submitted an authorization holds its claim, from the
\* request to the facilitator until what became of it is known (jobs.ts:382).
ClaimHeld == ClaimCoversSettle /\ UnconfirmedHoldsClaim

\* A job at its end holds no open slot.
FinalFreesSlot ==
  \A j \in Jobs : job[j].status \in Final => slot[j] = 0

\* Outside settle-first mode the jobs implement what the terms promise of a
\* purchase: among the rest, a final status is never overwritten.
Outcome(r) ==
  CASE r.status = "none"             -> "none"
    [] r.status = "delivered"        -> "delivered"
    [] r.status = "failed_uncharged" ->
         IF r.failure = "never_landed" THEN "lost" ELSE "failed"
    [] r.status = "failed_charged"   -> "failed"
    [] OTHER                         -> "open"
Contract == INSTANCE PurchaseContract
              WITH outcome <- [j \in Jobs |-> Outcome(job[j])],
                   built <- {j \in Jobs : result[j]}, asked <- sent
ImplementsContract == Contract!Spec

Busy(j) == \E p \in Procs : pc[p] # "idle" /\ on[p] = j

\* A charge is never lost: some job that submitted the authorization was
\* delivered, has a reconcile line, is being worked on, or will be resumed.
ChargeAccounted ==
  \A a \in Auths : chain[a] = "charged" =>
    \E j \in sent : /\ AuthOf[j] = a
                    /\ \/ job[j].status = "delivered"
                       \/ j \in recon
                       \/ Busy(j)
                       \/ job[j].status \in Runnable

\* The charged flag of the status link is true only of a charge that is on
\* the chain, and a job that ended failed_charged has its refund line.
ChargedFlagTrue ==
  \A j \in Jobs :
    /\ job[j].charged => chain[AuthOf[j]] = "charged"
    /\ job[j].status = "failed_charged" => job[j].charged /\ j \in recon

\* The terms (copy.ts:104): a settle-first job that fails after its charge ends
\* as failed_charged.  It does not hold: the cron may run the job beside
\* settleAtAccept, which holds no lease (README, section 7).
SettleFirstFailsCharged ==
  \A j \in Jobs : /\ job[j].first
                  /\ job[j].status = "failed_uncharged"
                  /\ job[j].failure # "never_landed"
                  /\ ~Busy(j)
                  => chain[AuthOf[j]] # "charged"

\* jobs.ts:430: settle_never_landed means the settle is confirmed failed.  It
\* does not hold: Probe reads the chain before the clock (README, section 7).
NeverLandedIsConfirmed ==
  \A j \in sent : job[j].failure = "never_landed" =>
                    chain[AuthOf[j]] # "charged"

\* jobs.ts:7: a job the buyer holds a status link for is worked to its end,
\* unless an invocation was killed or the store failed.
Resolved(j) == job[j].status \in Final
EveryJobResolves ==
  \A j \in Jobs : j \in replied ~> Resolved(j) \/ faults > 0

\* The fairness: a live invocation goes on, the clock moves, a job that may
\* run is run (daily cron), and the chain's answer is not unknown forever.
Progress(p) == \/ AcceptClaim(p) \/ AcceptVerify(p) \/ AcceptCreate(p)
               \/ AcceptIndex(p) \/ Run(p) \/ Settle(p)
Fairness == /\ \A p \in Procs : WF_vars(Progress(p))
            /\ \A j \in Jobs : SF_vars(\E p \in Procs : Start(p, j))
            /\ \A p \in Procs : SF_vars(Probe(p) /\ pc'[p] # "idle")
            /\ WF_vars(Tick)
FairSpec == Spec /\ Fairness

============================================================================
