------------------------- MODULE PremiumJobsProofs -------------------------
(* Theorems about PremiumJobs, for all values of its constants. *)
EXTENDS PremiumJobs, TLAPS

----------------------------------------------------------------------------
(* Type correctness: of the store, of the world, of the invocations. *)

StoreOK ==
  /\ job \in [Jobs -> JobRec]
  /\ result \in [Jobs -> BOOLEAN]
  /\ authKey \in [Jobs -> Nat]
  /\ claim \in [Auths -> Claim]
  /\ slot \in [Jobs -> Nat]
  /\ active \subseteq Jobs
  /\ lease \in [Jobs -> Procs \cup {NoProc}]
WorldOK ==
  /\ replied \subseteq Jobs /\ recon \subseteq Jobs /\ sent \subseteq Jobs
  /\ chain \in [Auths -> {"unused", "charged", "cancelled"}]
  /\ now \in Nat /\ faults \in Nat
\* Every invocation that is not idle works on a job.
ProcsOK ==
  /\ pc \in [Procs -> PC]
  /\ mode \in [Procs -> {"none", "accept", "run"}]
  /\ on \in [Procs -> Jobs \cup {NoJob}]
  /\ copy \in [Procs -> JobRec]
  /\ aged \in [Procs -> BOOLEAN]
  /\ \A p \in Procs : pc[p] # "idle" => on[p] \in Jobs
TypeInv == StoreOK /\ WorldOK /\ ProcsOK

LEMMA TypeInvType == TypeInv => TypeOK
  BY DEF TypeInv, StoreOK, WorldOK, ProcsOK, TypeOK

\* What the updates of a record keep.
LEMMA RecTypes ==
  /\ NoRec \in JobRec
  /\ \A r \in JobRec :
       /\ \A s \in Status : [r EXCEPT !.status = s] \in JobRec
       /\ \A b \in BOOLEAN : [r EXCEPT !.first = b] \in JobRec
       /\ \A h \in ClaimState : [r EXCEPT !.held = h] \in JobRec
       /\ r.steps < Steps => [r EXCEPT !.steps = @ + 1] \in JobRec
       /\ \A s \in Status, n \in Nat :
            [r EXCEPT !.status = s, !.created = n] \in JobRec
       /\ \A f \in Failure : FailsWith(r, f) \in JobRec
                             /\ FailsCharged(r, f) \in JobRec
       /\ Charged(r) \in JobRec /\ Prepaid(r) \in JobRec
       /\ [Charged(r) EXCEPT !.status = "delivered"] \in JobRec
<1> USE ConstantsAssumption
<1> USE DEF JobRec, Status, Final, Runnable, Pending
<1>1. NoRec \in JobRec
  BY DEF NoRec, ClaimState, Failure
<1>2. ASSUME NEW r \in JobRec, r.steps < Steps
      PROVE  [r EXCEPT !.steps = @ + 1] \in JobRec
  BY <1>2
<1>3. ASSUME NEW r \in JobRec, NEW f \in Failure
      PROVE  FailsWith(r, f) \in JobRec /\ FailsCharged(r, f) \in JobRec
  BY DEF FailsWith, FailsCharged
<1>4. ASSUME NEW r \in JobRec
      PROVE  /\ Charged(r) \in JobRec /\ Prepaid(r) \in JobRec
             /\ [Charged(r) EXCEPT !.status = "delivered"] \in JobRec
  BY DEF Charged, Prepaid
<1>5. ASSUME NEW r \in JobRec
      PROVE  /\ \A s \in Status : [r EXCEPT !.status = s] \in JobRec
             /\ \A b \in BOOLEAN : [r EXCEPT !.first = b] \in JobRec
             /\ \A h \in ClaimState : [r EXCEPT !.held = h] \in JobRec
             /\ \A s \in Status, n \in Nat :
                  [r EXCEPT !.status = s, !.created = n] \in JobRec
  OBVIOUS
<1> HIDE DEF JobRec, Status, Final, Runnable, Pending
<1> QED BY <1>1, <1>2, <1>3, <1>4, <1>5

\* The steps of one invocation.
LEMMA StepType ==
  ASSUME ProcsOK, NEW p \in Procs, pc[p] # "idle",
         NEW l \in PC, NEW r \in JobRec, Step(p, l, r)
  PROVE  ProcsOK'
  BY DEF ProcsOK, Step, Goto, SetCopy, Stay

LEMMA StopType ==
  ASSUME ProcsOK, NEW p \in Procs, Stop(p)
  PROVE  ProcsOK'
  BY RecTypes DEF ProcsOK, Stop, Goto, SetCopy, PC

LEMMA StayType ==
  ASSUME ProcsOK, UNCHANGED procs
  PROVE  ProcsOK'
  BY DEF ProcsOK, procs

LEMMA ReleaseType ==
  ASSUME StoreOK, NEW p \in Procs, Release(p)
  PROVE  lease' \in [Jobs -> Procs \cup {NoProc}]
  BY DEF StoreOK, Release

LEMMA ClaimType ==
  ASSUME StoreOK, ProcsOK, NEW p \in Procs, pc[p] # "idle",
         \/ ReleaseClaim(p)
         \/ \E s, held \in ClaimState : MoveClaim(p, s, held)
  PROVE  claim' \in [Auths -> Claim]
<1>1. A(p) \in Auths
  BY ConstantsAssumption DEF A, ProcsOK
<1>2. NoClaim \in Claim /\ \A s \in ClaimState :
         MovedClaim(p, s) \in [Auths -> Claim]
  BY <1>1 DEF MovedClaim, StoreOK, ProcsOK, Claim, NoClaim, ClaimState
<1> QED BY <1>1, <1>2 DEF ReleaseClaim, MoveClaim, StoreOK

LEMMA FreshStepType ==
  ASSUME ProcsOK, NEW p \in Procs, NEW j \in Jobs, NEW l \in PC,
         NEW m \in {"accept", "run"},
         pc' = [pc EXCEPT ![p] = l], mode' = [mode EXCEPT ![p] = m],
         on' = [on EXCEPT ![p] = j], copy' \in [Procs -> JobRec], aged' = aged
  PROVE  ProcsOK'
  BY DEF ProcsOK

LEMMA AcceptType ==
  ASSUME TypeInv, NEW p \in Procs, Accept(p)
  PROVE  TypeInv'
<1> USE DEF TypeInv
<1>1. CASE \E j \in Jobs, first \in SettleFirst : AcceptReserve(p, j, first)
  <2>1. PICK j \in Jobs, first \in SettleFirst : AcceptReserve(p, j, first)
    BY <1>1
  <2>2. [NoRec EXCEPT !.first = first] \in JobRec
    BY RecTypes, ConstantsAssumption
  <2>3. ProcsOK'
    BY <2>1, <2>2, FreshStepType
    DEF AcceptReserve, Goto, SetCopy, ProcsOK, PC
  <2>4. StoreOK' /\ WorldOK'
    BY <2>1, ConstantsAssumption DEF AcceptReserve, StoreOK, WorldOK, world
  <2> QED BY <2>3, <2>4
<1>2. CASE AcceptClaim(p)
  <2>1. on[p] \in Jobs /\ A(p) \in Auths /\ copy[p] \in JobRec
        /\ pc[p] # "idle"
    BY <1>2, ConstantsAssumption DEF AcceptClaim, A, ProcsOK
  <2>2. [copy[p] EXCEPT !.held = "job"] \in JobRec
    BY <2>1, RecTypes DEF ClaimState
  <2>3. ProcsOK'
    BY <1>2, <2>1, <2>2, StepType, StopType
    DEF AcceptClaim, RefuseAccept, PC
  <2>4. claim' \in [Auths -> Claim] /\ slot' \in [Jobs -> Nat]
    <3>1. [s |-> "job", owner |-> on[p], exp |-> now + ClaimTTL] \in Claim
      BY <2>1, ConstantsAssumption DEF Claim, ClaimState, WorldOK
    <3> QED BY <1>2, <2>1, <3>1 DEF AcceptClaim, RefuseAccept, StoreOK
  <2>5. StoreOK' /\ WorldOK'
    BY <1>2, <2>4 DEF AcceptClaim, StoreOK, WorldOK, world
  <2> QED BY <2>3, <2>5
<1>3. CASE AcceptVerify(p)
  <2>1. on[p] \in Jobs /\ copy[p] \in JobRec /\ pc[p] # "idle"
    BY <1>3 DEF AcceptVerify, ProcsOK
  <2>2. claim' \in [Auths -> Claim]
    BY <1>3, <2>1, ClaimType DEF AcceptVerify, StoreOK, ClaimState
  <2>3. ProcsOK'
    BY <1>3, <2>1, StepType, StopType DEF AcceptVerify, RefuseAccept, PC
  <2>4. StoreOK' /\ WorldOK'
    BY <1>3, <2>1, <2>2 DEF AcceptVerify, RefuseAccept, StoreOK, WorldOK, world
  <2> QED BY <2>3, <2>4
<1>4. CASE AcceptCreate(p)
  <2> DEFINE r == [copy[p] EXCEPT !.status = "accepted", !.created = now]
  <2>1. on[p] \in Jobs /\ copy[p] \in JobRec /\ pc[p] # "idle"
    BY <1>4 DEF AcceptCreate, ProcsOK
  <2>2. r \in JobRec
    BY <2>1, RecTypes DEF WorldOK, Status, Runnable, Pending
  <2>3. ProcsOK'
    BY <1>4, <2>1, <2>2, StepType DEF AcceptCreate, PC
  <2>4. StoreOK' /\ WorldOK'
    BY <1>4, <2>1, <2>2, ConstantsAssumption
    DEF AcceptCreate, SaveJob, StoreOK, WorldOK, world
  <2> QED BY <2>3, <2>4
<1>5. CASE AcceptIndex(p)
  <2>1. on[p] \in Jobs /\ copy[p] \in JobRec /\ pc[p] # "idle"
    BY <1>5 DEF AcceptIndex, ProcsOK
  <2>2. ProcsOK'
    BY <1>5, <2>1, StepType, StopType DEF AcceptIndex, PC
  <2>3. StoreOK' /\ WorldOK'
    BY <1>5, <2>1 DEF AcceptIndex, StoreOK, WorldOK
  <2> QED BY <2>2, <2>3
<1> QED BY <1>1, <1>2, <1>3, <1>4, <1>5 DEF Accept

\* The record an active invocation gives up, and the reconcile line.
LEMMA GiveUpType ==
  ASSUME TypeInv, NEW p \in Procs, pc[p] # "idle", NEW r \in JobRec,
         NEW why \in Failure, GiveUp(p, r, why)
  PROVE  ProcsOK' /\ recon' \subseteq Jobs
<1>1. (IF r.prepaid THEN FailsCharged(r, why) ELSE FailsWith(r, why)) \in JobRec
  BY RecTypes
<1>2. ProcsOK'
  BY <1>1, StepType DEF GiveUp, TypeInv, PC
<1> QED BY <1>2 DEF GiveUp, TypeInv, ProcsOK, WorldOK

LEMMA RunType ==
  ASSUME TypeInv, NEW p \in Procs, Run(p)
  PROVE  TypeInv'
<1> USE DEF TypeInv
<1>0. /\ pc[p] # "idle" /\ on[p] \in Jobs /\ copy[p] \in JobRec
      /\ job[on[p]] \in JobRec
  BY DEF Run, Load, SaveRunning, Checkpoint, Build, SaveBuilt, AfterBuilt,
         Probe, NotLanded, ProcsOK, StoreOK
<1>1. CASE Load(p)
  <2> DEFINE r == job[on[p]]
  <2>1. lease' \in [Jobs -> Procs \cup {NoProc}]
    BY <1>1, ReleaseType DEF Load, StoreOK
  <2>2. StoreOK'
    BY <1>1, <2>1 DEF Load, StoreOK
  <2>3. ProcsOK' /\ recon' \subseteq Jobs
    <3>1. CASE GiveUp(p, r, "budget")
      BY <1>0, <3>1, GiveUpType DEF Failure
    <3>2. CASE Step(p, "running", [r EXCEPT !.status = "running"]) /\ recon' = recon
      <4>1. [r EXCEPT !.status = "running"] \in JobRec
        BY <1>0, RecTypes DEF Status, Runnable, Pending
      <4> QED BY <1>0, <3>2, <4>1, StepType DEF PC, WorldOK
    <3>3. CASE (Step(p, "built", r) \/ Step(p, "probe", r)) /\ recon' = recon
      BY <1>0, <3>3, StepType DEF PC, WorldOK
    <3>4. CASE Stop(p) /\ recon' = recon
      BY <3>4, StopType DEF WorldOK
    <3> QED BY <1>1, <3>1, <3>2, <3>3, <3>4 DEF Load
  <2>4. WorldOK'
    BY <1>1, <2>3 DEF Load, WorldOK
  <2> QED BY <2>2, <2>3, <2>4
<1>2. CASE SaveRunning(p)
  <2>1. ProcsOK'
    BY <1>0, <1>2, StepType DEF SaveRunning, PC
  <2> QED BY <1>0, <1>2, <2>1 DEF SaveRunning, SaveJob, StoreOK, WorldOK, world
<1>3. CASE Checkpoint(p)
  <2>1. [copy[p] EXCEPT !.steps = @ + 1] \in JobRec
    BY <1>0, <1>3, RecTypes DEF Checkpoint
  <2>2. ProcsOK'
    BY <1>0, <1>3, <2>1, StepType, StopType DEF Checkpoint, PC
  <2>3. lease' \in [Jobs -> Procs \cup {NoProc}]
    BY <1>3, ReleaseType DEF Checkpoint, StoreOK
  <2> QED BY <1>0, <1>3, <2>1, <2>2, <2>3
          DEF Checkpoint, SaveJob, StoreOK, WorldOK, world
<1>4. CASE Build(p)
  <2>1. [copy[p] EXCEPT !.status = "built"] \in JobRec
    BY <1>0, RecTypes DEF Status, Runnable, Pending
  <2>2. ProcsOK'
    BY <1>0, <1>4, <2>1, StepType DEF Build, PC
  <2> QED BY <1>0, <1>4, <2>2 DEF Build, StoreOK, WorldOK, world
<1>5. CASE SaveBuilt(p)
  <2>1. ProcsOK'
    BY <1>0, <1>5, StepType DEF SaveBuilt, PC
  <2> QED BY <1>0, <1>5, <2>1 DEF SaveBuilt, SaveJob, StoreOK, WorldOK, world
<1>6. CASE AfterBuilt(p)
  <2>1. ProcsOK'
    BY <1>0, <1>6, StepType, StopType DEF AfterBuilt, PC
  <2>2. lease' \in [Jobs -> Procs \cup {NoProc}]
    BY <1>6, ReleaseType DEF AfterBuilt, StoreOK
  <2> QED BY <1>6, <2>1, <2>2 DEF AfterBuilt, StoreOK, WorldOK, world
<1>7. CASE Probe(p)
  <2>1. Prepaid(copy[p]) \in JobRec
    BY <1>0, RecTypes
  <2>2. ProcsOK'
    BY <1>0, <1>7, <2>1, StepType, StopType DEF Probe, PC
  <2>3. lease' \in [Jobs -> Procs \cup {NoProc}]
    BY <1>7, ReleaseType DEF Probe, StoreOK
  <2> QED BY <1>7, <2>2, <2>3 DEF Probe, StoreOK, WorldOK, world
<1>8. CASE NotLanded(p)
  <2>1. FailsWith(copy[p], "never_landed") \in JobRec
    BY <1>0, RecTypes DEF Failure
  <2>2. ProcsOK'
    BY <1>0, <1>8, <2>1, StepType, StopType DEF NotLanded, PC
  <2>3. lease' \in [Jobs -> Procs \cup {NoProc}]
    BY <1>8, ReleaseType DEF NotLanded, StoreOK
  <2> QED BY <1>8, <2>2, <2>3 DEF NotLanded, StoreOK, WorldOK, world
<1> QED BY <1>1, <1>2, <1>3, <1>4, <1>5, <1>6, <1>7, <1>8 DEF Run

LEMMA SettleType ==
  ASSUME TypeInv, NEW p \in Procs, Settle(p)
  PROVE  TypeInv'
<1> USE DEF TypeInv
<1>0. pc[p] # "idle" /\ on[p] \in Jobs /\ copy[p] \in JobRec
  BY DEF Settle, ReadAuth, SendSettle, SettleOk, SettleFails, HoldClaim,
         Prepay, Deliver, FailRelease, Unindex, Save, ProcsOK
<1>1. CASE ReadAuth(p)
  <2>1. /\ FailsWith(copy[p], "authorization_missing") \in JobRec
        /\ FailsWith(copy[p], "authorization_expired") \in JobRec
        /\ [copy[p] EXCEPT !.status = "settling"] \in JobRec
    BY <1>0, RecTypes DEF Failure, Status
  <2>2. ProcsOK'
    BY <1>0, <1>1, <2>1, StepType DEF ReadAuth, PC
  <2> QED BY <1>1, <2>2 DEF ReadAuth, store, StoreOK, WorldOK, world
<1>2. CASE SendSettle(p)
  <2>1. ProcsOK'
    BY <1>0, <1>2, StepType DEF SendSettle, PC
  <2> QED BY <1>0, <1>2, <2>1 DEF SendSettle, SaveJob, StoreOK, WorldOK
<1>3. CASE SettleOk(p)
  <2>1. Prepaid(copy[p]) \in JobRec
    BY <1>0, RecTypes
  <2>2. ProcsOK'
    BY <1>0, <1>3, <2>1, StepType DEF SettleOk, PC
  <2> QED BY <1>3, <2>2 DEF SettleOk, store, StoreOK, WorldOK, world
<1>4. CASE SettleFails(p)
  <2>1. [copy[p] EXCEPT !.status = "settle_unconfirmed"] \in JobRec
    BY <1>0, RecTypes DEF Status, Runnable
  <2>2. ProcsOK'
    BY <1>0, <1>4, <2>1, StepType DEF SettleFails, Unconfirmed, PC
  <2> QED BY <1>0, <1>4, <2>2
          DEF SettleFails, Unconfirmed, store, StoreOK, WorldOK
<1>5. CASE HoldClaim(p)
  <2>1. PICK held \in ClaimState :
          /\ MoveClaim(p, "unconfirmed", held)
          /\ Step(p, "save", [copy[p] EXCEPT !.held = held])
    BY <1>5 DEF HoldClaim
  <2>2. claim' \in [Auths -> Claim]
    BY <1>0, <2>1, ClaimType DEF ClaimState
  <2>3. ProcsOK'
    BY <1>0, <2>1, RecTypes, StepType DEF PC
  <2> QED BY <1>0, <1>5, <2>2, <2>3 DEF HoldClaim, StoreOK, WorldOK, world
<1>6. CASE Prepay(p)
  <2>1. PICK held \in ClaimState :
          /\ MoveClaim(p, "settled", held)
          /\ Step(p, "save", [copy[p] EXCEPT !.held = held])
    BY <1>6 DEF Prepay
  <2>2. claim' \in [Auths -> Claim]
    BY <1>0, <2>1, ClaimType DEF ClaimState
  <2>3. ProcsOK'
    BY <1>0, <2>1, RecTypes, StepType DEF PC
  <2> QED BY <1>0, <1>6, <2>2, <2>3 DEF Prepay, StoreOK, WorldOK, world
<1>7. CASE Deliver(p)
  <2>1. claim' \in [Auths -> Claim]
    BY <1>0, <1>7, ClaimType DEF Deliver, ClaimState
  <2>2. ProcsOK'
    BY <1>0, <1>7, RecTypes, StepType DEF Deliver, PC
  <2> QED BY <1>0, <1>7, <2>1, <2>2 DEF Deliver, StoreOK, WorldOK, world
<1>8. CASE FailRelease(p)
  <2>1. claim' \in [Auths -> Claim]
    BY <1>0, <1>8, ClaimType DEF FailRelease, StoreOK
  <2>2. authKey' \in [Jobs -> Nat] /\ slot' \in [Jobs -> Nat]
    BY <1>0, <1>8 DEF FailRelease, StoreOK
  <2>3. ProcsOK'
    BY <1>0, <1>8, StepType DEF FailRelease, PC
  <2> QED BY <1>8, <2>1, <2>2, <2>3 DEF FailRelease, StoreOK, WorldOK, world
<1>9. CASE Unindex(p)
  <2>1. ProcsOK'
    BY <1>0, <1>9, StepType DEF Unindex, PC
  <2> QED BY <1>9, <2>1 DEF Unindex, StoreOK, WorldOK, world
<1>10. CASE Save(p)
  <2>1. ProcsOK'
    BY <1>10, StopType DEF Save
  <2>2. lease' \in [Jobs -> Procs \cup {NoProc}]
    BY <1>10, ReleaseType DEF Save
  <2> QED BY <1>0, <1>10, <2>1, <2>2 DEF Save, SaveJob, StoreOK, WorldOK
<1> QED BY <1>1, <1>2, <1>3, <1>4, <1>5, <1>6, <1>7, <1>8, <1>9, <1>10
        DEF Settle

LEMMA FaultType ==
  ASSUME TypeInv, NEW p \in Procs,
         Crash(p) \/ ThrowRun(p) \/ ThrowAccept(p) \/ ThrowSettleFirst(p)
  PROVE  TypeInv'
<1> USE DEF TypeInv, Fault
<1>0. pc[p] # "idle" /\ on[p] \in Jobs /\ copy[p] \in JobRec
  BY DEF Crash, ThrowRun, ThrowAccept, ThrowSettleFirst, ProcsOK
<1>1. CASE Crash(p)
  BY <1>1, StopType DEF Crash, store, StoreOK, WorldOK
<1>2. CASE ThrowRun(p)
  <2>1. lease' \in [Jobs -> Procs \cup {NoProc}]
    BY <1>2, ReleaseType DEF ThrowRun
  <2> QED BY <1>2, <2>1, StopType DEF ThrowRun, StoreOK, WorldOK
<1>3. CASE ThrowAccept(p)
  BY <1>0, <1>3, StopType DEF ThrowAccept, RefuseAccept, StoreOK, WorldOK
<1>4. CASE ThrowSettleFirst(p)
  <2>1. [copy[p] EXCEPT !.status = "settle_unconfirmed"] \in JobRec
    BY <1>0, RecTypes DEF Status, Runnable
  <2>2. ProcsOK'
    BY <1>0, <1>4, <2>1, StepType DEF ThrowSettleFirst, Unconfirmed, PC
  <2> QED BY <1>0, <1>4, <2>2
          DEF ThrowSettleFirst, Unconfirmed, store, StoreOK, WorldOK
<1> QED BY <1>1, <1>2, <1>3, <1>4

LEMMA NextType == TypeInv /\ [Next]_vars => TypeInv'
<1> SUFFICES ASSUME TypeInv, [Next]_vars PROVE TypeInv'
  OBVIOUS
<1> USE DEF TypeInv
<1>1. CASE UNCHANGED vars
  BY <1>1 DEF vars, store, world, procs, StoreOK, WorldOK, ProcsOK
<1>2. ASSUME NEW p \in Procs, Accept(p) \/ Run(p) \/ Settle(p)
      PROVE  TypeInv'
  BY <1>2, AcceptType, RunType, SettleType
<1>3. ASSUME NEW p \in Procs, NEW j \in Jobs, Start(p, j)
      PROVE  TypeInv'
  <2>1. ProcsOK'
    BY <1>3, FreshStepType DEF Start, Goto, ProcsOK, PC
  <2> QED BY <1>3, <2>1 DEF Start, StoreOK, WorldOK, world
<1>4. ASSUME NEW p \in Procs, WorkFails(p)
      PROVE  TypeInv'
  <2>1. ProcsOK' /\ recon' \subseteq Jobs
    BY <1>4, GiveUpType DEF WorkFails, ProcsOK, Failure
  <2> QED BY <1>4, <2>1 DEF WorkFails, StoreOK, WorldOK
<1>5. ASSUME NEW p \in Procs,
             Crash(p) \/ ThrowRun(p) \/ ThrowAccept(p) \/ ThrowSettleFirst(p)
      PROVE  TypeInv'
  BY <1>5, FaultType
<1>6. ASSUME NEW a \in Auths, Land(a) \/ Cancel(a)
      PROVE  TypeInv'
  BY <1>6 DEF Land, Cancel, store, procs, StoreOK, WorldOK, ProcsOK
<1>7. CASE Tick
  BY <1>7 DEF Tick, StoreOK, WorldOK, ProcsOK
<1> QED BY <1>1, <1>2, <1>3, <1>4, <1>5, <1>6, <1>7 DEF Next

LEMMA InitType == Init => TypeInv
<1> SUFFICES ASSUME Init PROVE TypeInv
  OBVIOUS
<1>1. NoClaim \in Claim
  BY DEF NoClaim, Claim, ClaimState
<1>2. StoreOK
  BY <1>1, RecTypes DEF Init, StoreOK
<1>3. WorldOK
  BY DEF Init, WorldOK
<1>4. ProcsOK
  BY RecTypes DEF Init, ProcsOK, PC
<1> QED BY <1>2, <1>3, <1>4 DEF TypeInv

LEMMA AlwaysTypeInv == Spec => []TypeInv
  BY InitType, NextType, PTL DEF Spec

\* Every variable has its type in every reachable state.
THEOREM TypeCorrect == Spec => []TypeOK
  BY AlwaysTypeInv, TypeInvType, PTL

----------------------------------------------------------------------------
(* The safety invariant. *)

Paid(j) == chain[AuthOf[j]] = "charged"
Early == {"claim", "verify", "create", "index"}

\* What a record, stored or held by an invocation, says truly of its job.
Honest(j, r) ==
  /\ r.prepaid => r.charged
  /\ r.charged => Paid(j)
  /\ r.status = "built" => result[j]
  /\ r.status \in {"settling", "settle_unconfirmed"} => result[j] \/ r.first
  /\ r.status = "delivered" => Paid(j) /\ result[j]
  /\ r.status = "failed_charged" => r.charged /\ j \in recon

StoreInv == \A j \in Jobs : /\ Honest(j, job[j])
                            /\ job[j].status \in Final => slot[j] = 0

\* An invocation at l, in mode m, with the record r of job j: what it has seen
\* to get there.
At(j, m, l, r) ==
  /\ Honest(j, r)
  /\ l \in Early => m = "accept"
  /\ l \notin Early /\ m = "accept" => r.first
  /\ l \in Early \cup {"auth", "not_landed"} => ~r.prepaid
  /\ l \in {"compiled", "built", "deliver"} => result[j]
  /\ l \in {"auth", "send", "call"} => result[j] \/ m = "accept"
  /\ l = "probe" => result[j] \/ r.first
  /\ l \in {"prepay", "deliver"} => Paid(j)
  /\ r.status \in Final => l \in {"release", "unindex", "save"}
  /\ r.status \in Final /\ l # "release" => slot[j] = 0

Stands(p) == /\ pc[p] \notin {"idle", "load"} =>
                  At(on[p], mode[p], pc[p], copy[p])
             /\ pc[p] = "load" => mode[p] = "run"
ProcInv == \A p \in Procs : Stands(p)

SafeInv == StoreInv /\ ProcInv

\* A payment on the chain stays there, so does a result and a reconcile line;
\* a slot given back is not taken again.
Grow == \A j \in Jobs : /\ Paid(j) => Paid(j)'
                        /\ result[j] => result'[j]
                        /\ j \in recon => j \in recon'
                        /\ slot[j] = 0 => slot'[j] = 0

LEMMA HonestGrows ==
  ASSUME Grow, NEW j \in Jobs, NEW r, Honest(j, r)
  PROVE  Honest(j, r)'
  BY DEF Grow, Honest, Paid

LEMMA AtGrows ==
  ASSUME Grow, NEW j \in Jobs, NEW m, NEW l, NEW r, At(j, m, l, r)
  PROVE  At(j, m, l, r)'
  BY HonestGrows DEF Grow, At, Paid

\* The record of one job is written, or none.
LEMMA StoreGrows ==
  ASSUME StoreOK, StoreInv, Grow,
         \/ job' = job
         \/ \E j \in Jobs, r \in JobRec :
              /\ job' = [job EXCEPT ![j] = r]
              /\ Honest(j, r)'
              /\ r.status \in Final => slot'[j] = 0
  PROVE  StoreInv'
<1>1. ASSUME NEW k \in Jobs
      PROVE  Honest(k, job[k])' /\ (job[k].status \in Final => slot[k] = 0)'
  <2>1. CASE job'[k] = job[k]
    BY <2>1 DEF StoreInv, Grow, Honest, Paid
  <2>2. CASE job'[k] # job[k]
    <3>1. PICK j \in Jobs, r \in JobRec :
            /\ job' = [job EXCEPT ![j] = r]
            /\ Honest(j, r)'
            /\ r.status \in Final => slot'[j] = 0
      BY <2>2
    <3>2. k = j /\ job'[k] = r
      BY <2>2, <3>1 DEF StoreOK
    <3> QED BY <3>1, <3>2 DEF Honest, Paid
  <2> QED BY <2>1, <2>2
<1> QED BY <1>1 DEF StoreInv

\* The invocations that do not move stand where they stood.
LEMMA OthersStand ==
  ASSUME ProcsOK, ProcInv, Grow, NEW q \in Procs,
         pc'[q] = pc[q], mode'[q] = mode[q], on'[q] = on[q], copy'[q] = copy[q]
  PROVE  Stands(q)'
  BY AtGrows DEF ProcsOK, ProcInv, Stands, At, Honest, Paid, Grow

LEMMA ProcStep ==
  ASSUME ProcsOK, ProcInv, Grow, NEW p \in Procs,
         NEW j \in Jobs, j = on[p], NEW m, m = mode[p],
         NEW l \in PC \ {"load"}, NEW r \in JobRec, Step(p, l, r),
         At(j, m, l, r)'
  PROVE  ProcInv'
<1>1. /\ pc'[p] = l /\ mode'[p] = mode[p] /\ on'[p] = on[p] /\ copy'[p] = r
      /\ \A q \in Procs \ {p} : /\ pc'[q] = pc[q] /\ mode'[q] = mode[q]
                               /\ on'[q] = on[q] /\ copy'[q] = copy[q]
  BY DEF ProcsOK, Step, Goto, SetCopy, Stay
<1>2. Stands(p)'
  BY <1>1 DEF Stands, At, Honest, Paid
<1> QED BY <1>1, <1>2, OthersStand DEF ProcInv

LEMMA ProcStop ==
  ASSUME ProcsOK, ProcInv, Grow, NEW p \in Procs, Stop(p)
  PROVE  ProcInv'
<1>1. /\ pc'[p] = "idle"
      /\ \A q \in Procs \ {p} : /\ pc'[q] = pc[q] /\ mode'[q] = mode[q]
                               /\ on'[q] = on[q] /\ copy'[q] = copy[q]
  BY DEF ProcsOK, Stop, Goto, SetCopy
<1>2. Stands(p)'
  BY <1>1 DEF Stands
<1> QED BY <1>1, <1>2, OthersStand DEF ProcInv

LEMMA GrowSame ==
  ASSUME UNCHANGED <<chain, result, recon, slot>>
  PROVE  Grow
  BY DEF Grow, Paid

\* A step that keeps the store's records and has shown where it leads to.
LEMMA SafeStep ==
  ASSUME TypeInv, SafeInv, Grow, job' = job, NEW p \in Procs,
         NEW j \in Jobs, j = on[p], NEW m, m = mode[p],
         \/ \E l \in PC \ {"load"}, r \in JobRec :
              Step(p, l, r) /\ At(j, m, l, r)'
         \/ Stop(p)
  PROVE  SafeInv'
<1>1. StoreInv'
  BY StoreGrows DEF TypeInv, SafeInv
<1>2. ProcInv'
  BY ProcStep, ProcStop DEF TypeInv, SafeInv
<1> QED BY <1>1, <1>2 DEF SafeInv

\* A step that saves a record of its job.
LEMMA SafeSave ==
  ASSUME TypeInv, SafeInv, Grow, NEW p \in Procs,
         NEW j \in Jobs, j = on[p], NEW m, m = mode[p],
         NEW s \in JobRec, SaveJob(p, s), Honest(j, s)',
         s.status \in Final => slot'[j] = 0,
         \/ \E l \in PC \ {"load"}, r \in JobRec :
              Step(p, l, r) /\ At(j, m, l, r)'
         \/ Stop(p)
  PROVE  SafeInv'
<1>1. StoreInv'
  BY StoreGrows DEF TypeInv, SafeInv, SaveJob
<1>2. ProcInv'
  BY ProcStep, ProcStop DEF TypeInv, SafeInv
<1> QED BY <1>1, <1>2 DEF SafeInv

LEMMA AcceptSafe ==
  ASSUME TypeInv, SafeInv, NEW p \in Procs, Accept(p)
  PROVE  SafeInv'
<1>1. ASSUME NEW j \in Jobs, NEW first \in SettleFirst,
             AcceptReserve(p, j, first)
      PROVE  SafeInv'
  <2> DEFINE r == [NoRec EXCEPT !.first = first]
  <2>1. /\ UNCHANGED <<job, chain, result, recon>>
        /\ \A k \in Jobs \ {j} : slot'[k] = slot[k]
        /\ job[j].status = "none" /\ \A q \in Procs : on[q] # j
    BY <1>1 DEF AcceptReserve, Fresh, world, TypeInv, StoreOK
  <2>2. StoreInv'
    BY <2>1 DEF SafeInv, StoreInv, Honest, Paid, Final
  <2>3. /\ pc'[p] = "claim" /\ mode'[p] = "accept" /\ on'[p] = j /\ copy'[p] = r
        /\ \A q \in Procs \ {p} : /\ pc'[q] = pc[q] /\ mode'[q] = mode[q]
                                 /\ on'[q] = on[q] /\ copy'[q] = copy[q]
    BY <1>1 DEF AcceptReserve, Goto, SetCopy, TypeInv, ProcsOK
  <2>4. Stands(p)'
    BY <2>3 DEF Stands, At, Honest, Paid, NoRec, Early, Final
  <2>5. ASSUME NEW q \in Procs \ {p} PROVE Stands(q)'
    BY <2>1, <2>3 DEF SafeInv, ProcInv, Stands, At, Honest, Paid, TypeInv, ProcsOK
  <2> QED BY <2>2, <2>4, <2>5 DEF SafeInv, ProcInv
<1>2. CASE AcceptClaim(p) \/ AcceptVerify(p) \/ AcceptCreate(p) \/ AcceptIndex(p)
  <2>1. PICK j \in Jobs, m \in {"none", "accept", "run"}, r \in JobRec :
          /\ j = on[p] /\ m = mode[p] /\ r = copy[p]
          /\ pc[p] \in Early /\ At(j, m, pc[p], r)
    BY <1>2 DEF AcceptClaim, AcceptVerify, AcceptCreate, AcceptIndex, Early,
       SafeInv, ProcInv, Stands, TypeInv, ProcsOK
  <2>2. Grow
    BY <1>2, <2>1 DEF AcceptClaim, AcceptVerify, AcceptCreate, AcceptIndex,
       RefuseAccept, Grow, Paid, world, TypeInv, StoreOK
  <2>3. CASE AcceptClaim(p)
    <3>1. [r EXCEPT !.held = "job"] \in JobRec
      BY <2>1, RecTypes DEF ClaimState
    <3>2. At(j, m, "verify", [r EXCEPT !.held = "job"])'
      BY <2>1, <2>2 DEF At, Honest, Paid, Grow, Early, Final, JobRec
    <3> QED BY <2>1, <2>2, <2>3, <3>1, <3>2, SafeStep DEF AcceptClaim, RefuseAccept, PC
  <2>4. CASE AcceptVerify(p)
    <3>1. At(j, m, "create", r)'
      BY <2>1, <2>2 DEF At, Honest, Paid, Grow, Early, Final
    <3> QED BY <2>1, <2>2, <2>4, <3>1, SafeStep DEF AcceptVerify, RefuseAccept, PC
  <2>5. CASE AcceptCreate(p)
    <3>1. PICK s \in JobRec :
            s = [r EXCEPT !.status = "accepted", !.created = now]
      BY RecTypes DEF Status, Runnable, Pending, TypeInv, WorldOK
    <3>2. At(j, m, "index", s)' /\ s.status \notin Final
      BY <2>1, <2>2, <3>1 DEF At, Honest, Paid, Grow, Early, Final, JobRec
    <3>3. Honest(j, s)'
      BY <3>2 DEF At, Honest, Paid
    <3> QED BY <2>1, <2>2, <2>5, <3>1, <3>2, <3>3, SafeSave DEF AcceptCreate, PC
  <2>6. CASE AcceptIndex(p)
    <3>1. r.first => At(j, m, "auth", r)'
      BY <2>1, <2>2 DEF At, Honest, Paid, Grow, Early, Final
    <3> QED BY <2>1, <2>2, <2>6, <3>1, SafeStep DEF AcceptIndex, PC
  <2> QED BY <1>2, <2>3, <2>4, <2>5, <2>6
<1> QED BY <1>1, <1>2 DEF Accept

\* A job that is given up at l has a truthful record to save.
LEMMA GiveUpSafe ==
  ASSUME TypeInv, SafeInv, NEW p \in Procs, pc[p] # "idle",
         NEW j \in Jobs, j = on[p], NEW m, m = mode[p],
         NEW r \in JobRec, Honest(j, r), m = "accept" => r.first,
         NEW why \in Failure, GiveUp(p, r, why),
         UNCHANGED <<job, chain, result, slot>>
  PROVE  SafeInv'
<1>1. Grow
  BY DEF GiveUp, Grow, Paid
<1>2. PICK s \in JobRec : s = IF r.prepaid THEN FailsCharged(r, why)
                                           ELSE FailsWith(r, why)
  BY RecTypes
<1>3. At(j, m, "release", s)'
  BY <1>1, <1>2
  DEF At, Honest, Paid, Grow, Early, Final, JobRec, FailsCharged, FailsWith,
      GiveUp
<1> QED BY <1>1, <1>2, <1>3, SafeStep DEF GiveUp, PC

LEMMA RunSafe ==
  ASSUME TypeInv, SafeInv, NEW p \in Procs, Run(p)
  PROVE  SafeInv'
<1>1. PICK j \in Jobs, m \in {"none", "accept", "run"}, r \in JobRec :
        j = on[p] /\ m = mode[p] /\ r = copy[p] /\ pc[p] # "idle"
  BY DEF Run, Load, SaveRunning, Checkpoint, Build, SaveBuilt, AfterBuilt,
         Probe, NotLanded, TypeInv, ProcsOK
<1>2. CASE Load(p)
  <2>1. PICK q \in JobRec : q = job[j] /\ Honest(j, q) /\ m = "run"
    BY <1>1, <1>2 DEF Load, TypeInv, StoreOK, SafeInv, StoreInv, ProcInv, Stands
  <2>2. CASE GiveUp(p, q, "budget")
    BY <1>1, <1>2, <2>1, <2>2, GiveUpSafe DEF Load, Failure
  <2>3. CASE recon' = recon
    <3>1. Grow
      BY <1>2, <2>3, GrowSame DEF Load
    <3>2. CASE /\ q.status \in {"accepted", "running"}
               /\ Step(p, "running", [q EXCEPT !.status = "running"])
      <4>1. PICK s \in JobRec : s = [q EXCEPT !.status = "running"]
        BY RecTypes DEF Status, Runnable, Pending
      <4>2. At(j, m, "running", s)'
        BY <2>1, <3>1, <4>1 DEF At, Honest, Paid, Grow, Early, Final, JobRec
      <4> QED BY <1>1, <1>2, <3>1, <3>2, <4>1, <4>2, SafeStep DEF Load, PC
    <3>3. CASE q.status = "built" /\ Step(p, "built", q)
      <4>1. At(j, m, "built", q)'
        BY <2>1, <3>1, <3>3 DEF At, Honest, Paid, Grow, Early, Final
      <4> QED BY <1>1, <1>2, <3>1, <3>3, <4>1, SafeStep DEF Load, PC
    <3>4. CASE q.status = "settle_unconfirmed" /\ Step(p, "probe", q)
      <4>1. At(j, m, "probe", q)'
        BY <2>1, <3>1, <3>4 DEF At, Honest, Paid, Grow, Early, Final
      <4> QED BY <1>1, <1>2, <3>1, <3>4, <4>1, SafeStep DEF Load, PC
    <3>5. CASE Stop(p)
      BY <1>1, <1>2, <3>1, <3>5, SafeStep DEF Load
    <3> QED BY <1>1, <1>2, <2>1, <2>2, <3>2, <3>3, <3>4, <3>5 DEF Load
  <2> QED BY <1>1, <1>2, <2>1, <2>2, <2>3 DEF Load
<1>3. ASSUME ~Load(p) PROVE At(j, m, pc[p], r)
  BY <1>1, <1>3 DEF Run, SaveRunning, Checkpoint, Build, SaveBuilt, AfterBuilt,
     Probe, NotLanded, SafeInv, ProcInv, Stands
<1>4. CASE SaveRunning(p)
  <2>1. Grow
    BY <1>4, GrowSame DEF SaveRunning, world
  <2>2. At(j, m, "work", r)' /\ Honest(j, r)' /\ r.status \notin Final
    BY <1>1, <1>3, <1>4, <2>1
    DEF SaveRunning, Load, At, Honest, Paid, Grow, Early, Final
  <2> QED BY <1>1, <1>4, <2>1, <2>2, SafeSave DEF SaveRunning, PC
<1>5. CASE Checkpoint(p)
  <2>1. Grow
    BY <1>5, GrowSame DEF Checkpoint, world
  <2>2. PICK s \in JobRec : s = [r EXCEPT !.steps = @ + 1]
    BY <1>1, <1>5, RecTypes DEF Checkpoint
  <2>3. At(j, m, "work", s)' /\ Honest(j, s)' /\ s.status \notin Final
    BY <1>1, <1>3, <1>5, <2>1, <2>2
    DEF Checkpoint, Load, At, Honest, Paid, Grow, Early, Final, JobRec
  <2> QED BY <1>1, <1>5, <2>1, <2>2, <2>3, SafeSave DEF Checkpoint, PC
<1>6. CASE Build(p)
  <2>1. Grow /\ result'[j]
    BY <1>1, <1>6 DEF Build, Grow, Paid, world, TypeInv, StoreOK
  <2>2. PICK s \in JobRec : s = [r EXCEPT !.status = "built"]
    BY RecTypes DEF Status, Runnable, Pending
  <2>3. At(j, m, "compiled", s)'
    BY <1>1, <1>3, <1>6, <2>1, <2>2
    DEF Build, Load, At, Honest, Paid, Grow, Early, Final, JobRec
  <2> QED BY <1>1, <1>6, <2>1, <2>2, <2>3, SafeStep DEF Build, PC
<1>7. CASE SaveBuilt(p)
  <2>1. Grow
    BY <1>7, GrowSame DEF SaveBuilt, world
  <2>2. At(j, m, "built", r)' /\ Honest(j, r)' /\ r.status \notin Final
    BY <1>1, <1>3, <1>7, <2>1
    DEF SaveBuilt, Load, At, Honest, Paid, Grow, Early, Final
  <2> QED BY <1>1, <1>7, <2>1, <2>2, SafeSave DEF SaveBuilt, PC
<1>8. CASE AfterBuilt(p)
  <2>1. Grow
    BY <1>8, GrowSame DEF AfterBuilt, world
  <2>2. /\ r.prepaid => At(j, m, "deliver", r)'
        /\ ~r.prepaid => At(j, m, "auth", r)'
    BY <1>1, <1>3, <1>8, <2>1
    DEF AfterBuilt, Load, At, Honest, Paid, Grow, Early, Final
  <2> QED BY <1>1, <1>8, <2>1, <2>2, SafeStep DEF AfterBuilt, PC
<1>9. CASE Probe(p)
  <2>1. Grow
    BY <1>9, GrowSame DEF Probe, world
  <2>2. PICK s \in JobRec : s = Prepaid(r)
    BY RecTypes
  <2>3. ASSUME chain[A(p)] = "charged"
        PROVE  /\ r.first => At(j, m, "prepay", s)'
               /\ result[j] \/ ~r.first => At(j, m, "deliver", r)'
    BY <1>1, <1>3, <1>9, <2>1, <2>2, <2>3
    DEF Probe, Load, A, At, Honest, Paid, Grow, Early, Final, JobRec, Prepaid
  <2>4. ASSUME chain[A(p)] # "charged"
        PROVE  At(j, m, "not_landed", r)'
    BY <1>1, <1>3, <1>9, <2>1, <2>4
    DEF Probe, Load, A, At, Honest, Paid, Grow, Early, Final
  <2> QED BY <1>1, <1>9, <2>1, <2>2, <2>3, <2>4, SafeStep DEF Probe, PC
<1>10. CASE NotLanded(p)
  <2>1. Grow
    BY <1>10, GrowSame DEF NotLanded, world
  <2>2. PICK s \in JobRec : s = FailsWith(r, "never_landed")
    BY RecTypes DEF Failure
  <2>3. At(j, m, "release", s)'
    BY <1>1, <1>3, <1>10, <2>1, <2>2
    DEF NotLanded, Load, At, Honest, Paid, Grow, Early, Final, JobRec, FailsWith
  <2> QED BY <1>1, <1>10, <2>1, <2>2, <2>3, SafeStep DEF NotLanded, PC
<1> QED BY <1>2, <1>4, <1>5, <1>6, <1>7, <1>8, <1>9, <1>10 DEF Run

LEMMA SettleSafe ==
  ASSUME TypeInv, SafeInv, NEW p \in Procs, Settle(p)
  PROVE  SafeInv'
<1>1. PICK j \in Jobs, m \in {"none", "accept", "run"}, r \in JobRec :
        j = on[p] /\ m = mode[p] /\ r = copy[p] /\ pc[p] # "idle"
  BY DEF Settle, ReadAuth, SendSettle, SettleOk, SettleFails, HoldClaim,
         Prepay, Deliver, FailRelease, Unindex, Save, TypeInv, ProcsOK
<1>2. At(j, m, pc[p], r)
  BY <1>1 DEF Settle, ReadAuth, SendSettle, SettleOk, SettleFails, HoldClaim,
     Prepay, Deliver, FailRelease, Unindex, Save, SafeInv, ProcInv, Stands
<1>3. CASE ReadAuth(p)
  <2>1. Grow
    BY <1>3, GrowSame DEF ReadAuth, store, world
  <2>2. PICK s1, s2, s3 \in JobRec :
          /\ s1 = FailsWith(r, "authorization_missing")
          /\ s2 = FailsWith(r, "authorization_expired")
          /\ s3 = [r EXCEPT !.status = "settling"]
    BY RecTypes DEF Failure, Status
  <2>3. At(j, m, "release", s1)' /\ At(j, m, "release", s2)'
    BY <1>1, <1>2, <1>3, <2>1, <2>2
    DEF ReadAuth, At, Honest, Paid, Grow, Early, Final, JobRec, FailsWith
  <2>4. At(j, m, "send", s3)'
    BY <1>1, <1>2, <1>3, <2>1, <2>2
    DEF ReadAuth, At, Honest, Paid, Grow, Early, Final, JobRec
  <2> QED BY <1>1, <1>3, <2>1, <2>2, <2>3, <2>4, SafeStep DEF ReadAuth, PC, store
<1>4. CASE SendSettle(p)
  <2>1. Grow
    BY <1>4, GrowSame DEF SendSettle
  <2>2. At(j, m, "call", r)' /\ Honest(j, r)' /\ r.status \notin Final
    BY <1>1, <1>2, <1>4, <2>1
    DEF SendSettle, At, Honest, Paid, Grow, Early, Final
  <2> QED BY <1>1, <1>4, <2>1, <2>2, SafeSave DEF SendSettle, PC
<1>5. CASE SettleOk(p)
  <2>1. Grow
    BY <1>5, GrowSame DEF SettleOk, store, world
  <2>2. PICK s \in JobRec : s = Prepaid(r)
    BY RecTypes
  <2>3. /\ m = "accept" => At(j, m, "prepay", s)'
        /\ m # "accept" => At(j, m, "deliver", r)'
    BY <1>1, <1>2, <1>5, <2>1, <2>2
    DEF SettleOk, A, At, Honest, Paid, Grow, Early, Final, JobRec, Prepaid
  <2> QED BY <1>1, <1>5, <2>1, <2>2, <2>3, SafeStep DEF SettleOk, PC, store
<1>6. CASE SettleFails(p)
  <2>1. Grow
    BY <1>6 DEF SettleFails, Unconfirmed, store, Grow, Paid
  <2>2. PICK s \in JobRec : s = [r EXCEPT !.status = "settle_unconfirmed"]
    BY RecTypes DEF Status, Runnable
  <2>3. At(j, m, "hold", s)'
    BY <1>1, <1>2, <1>6, <2>1, <2>2
    DEF SettleFails, At, Honest, Paid, Grow, Early, Final, JobRec
  <2> QED BY <1>1, <1>6, <2>1, <2>2, <2>3, SafeStep
          DEF SettleFails, Unconfirmed, PC, store
<1>7. ASSUME NEW held \in ClaimState, pc[p] \in {"hold", "prepay"},
             Step(p, "save", [copy[p] EXCEPT !.held = held]),
             UNCHANGED <<job, chain, result, recon, slot>>
      PROVE  SafeInv'
  <2>1. Grow
    BY <1>7, GrowSame
  <2>2. PICK s \in JobRec : s = [r EXCEPT !.held = held]
    BY RecTypes
  <2>3. At(j, m, "save", s)'
    BY <1>1, <1>2, <1>7, <2>1, <2>2
    DEF At, Honest, Paid, Grow, Early, Final, JobRec
  <2> QED BY <1>1, <1>7, <2>1, <2>2, <2>3, SafeStep DEF PC
<1>8. CASE HoldClaim(p) \/ Prepay(p)
  BY <1>7, <1>8 DEF HoldClaim, Prepay, world
<1>9. CASE Deliver(p)
  <2>1. Grow /\ slot'[j] = 0
    BY <1>1, <1>9 DEF Deliver, Grow, Paid, world, TypeInv, StoreOK
  <2>2. PICK s \in JobRec : s = [Charged(r) EXCEPT !.status = "delivered"]
    BY RecTypes
  <2>3. At(j, m, "unindex", s)'
    BY <1>1, <1>2, <1>9, <2>1, <2>2
    DEF Deliver, At, Honest, Paid, Grow, Early, Final, JobRec, Charged
  <2> QED BY <1>1, <1>9, <2>1, <2>2, <2>3, SafeStep DEF Deliver, PC
<1>10. CASE FailRelease(p)
  <2>1. Grow /\ slot'[j] = 0
    BY <1>1, <1>10 DEF FailRelease, Grow, Paid, world, TypeInv, StoreOK
  <2>2. At(j, m, "unindex", r)'
    BY <1>1, <1>2, <1>10, <2>1
    DEF FailRelease, At, Honest, Paid, Grow, Early, Final
  <2> QED BY <1>1, <1>10, <2>1, <2>2, SafeStep DEF FailRelease, PC
<1>11. CASE Unindex(p)
  <2>1. Grow
    BY <1>11, GrowSame DEF Unindex, world
  <2>2. At(j, m, "save", r)'
    BY <1>1, <1>2, <1>11, <2>1
    DEF Unindex, At, Honest, Paid, Grow, Early, Final
  <2> QED BY <1>1, <1>11, <2>1, <2>2, SafeStep DEF Unindex, PC
<1>12. CASE Save(p)
  <2>1. Grow
    BY <1>12, GrowSame DEF Save
  <2>2. Honest(j, r)' /\ (r.status \in Final => slot'[j] = 0)
    BY <1>1, <1>2, <1>12, <2>1 DEF Save, At, Honest, Paid, Grow, Final
  <2> QED BY <1>1, <1>2, <1>12, <2>1, <2>2, SafeSave DEF Save
<1> QED BY <1>3, <1>4, <1>5, <1>6, <1>8, <1>9, <1>10, <1>11, <1>12 DEF Settle

LEMMA FaultSafe ==
  ASSUME TypeInv, SafeInv, NEW p \in Procs,
         Crash(p) \/ ThrowRun(p) \/ ThrowAccept(p) \/ ThrowSettleFirst(p)
  PROVE  SafeInv'
<1>1. PICK j \in Jobs, m \in {"none", "accept", "run"}, r \in JobRec :
        j = on[p] /\ m = mode[p] /\ r = copy[p] /\ pc[p] # "idle"
  BY DEF Crash, ThrowRun, ThrowAccept, ThrowSettleFirst, TypeInv, ProcsOK
<1>2. CASE Crash(p) \/ ThrowRun(p) \/ ThrowAccept(p)
  <2>1. Grow /\ Stop(p) /\ job' = job
    BY <1>1, <1>2 DEF Crash, ThrowRun, ThrowAccept, RefuseAccept, store, Grow,
       Paid, TypeInv, StoreOK
  <2> QED BY <1>1, <2>1, SafeStep
<1>3. CASE ThrowSettleFirst(p)
  <2>1. Grow
    BY <1>3 DEF ThrowSettleFirst, Unconfirmed, store, Grow, Paid
  <2>2. PICK s \in JobRec : s = [r EXCEPT !.status = "settle_unconfirmed"]
    BY RecTypes DEF Status, Runnable
  <2>3. At(j, m, "hold", s)'
    BY <1>1, <1>3, <2>1, <2>2
    DEF ThrowSettleFirst, SafeInv, ProcInv, Stands, At, Honest, Paid, Grow,
        Early, Final, JobRec
  <2> QED BY <1>1, <1>3, <2>1, <2>2, <2>3, SafeStep
          DEF ThrowSettleFirst, Unconfirmed, PC, store
<1> QED BY <1>2, <1>3

LEMMA NextSafe == TypeInv /\ SafeInv /\ [Next]_vars => SafeInv'
<1> SUFFICES ASSUME TypeInv, SafeInv, [Next]_vars PROVE SafeInv'
  OBVIOUS
<1>1. CASE UNCHANGED vars
  BY <1>1 DEF vars, store, world, procs, SafeInv, StoreInv, ProcInv, Stands,
     At, Honest, Paid
<1>2. ASSUME NEW p \in Procs, Accept(p) \/ Run(p) \/ Settle(p)
      PROVE  SafeInv'
  BY <1>2, AcceptSafe, RunSafe, SettleSafe
<1>3. ASSUME NEW p \in Procs, NEW j \in Jobs, Start(p, j)
      PROVE  SafeInv'
  <2>1. Grow /\ job' = job
    BY <1>3, GrowSame DEF Start, world
  <2>2. StoreInv'
    BY <2>1, StoreGrows DEF TypeInv, SafeInv
  <2>3. /\ pc'[p] = "load" /\ mode'[p] = "run"
        /\ \A q \in Procs \ {p} : /\ pc'[q] = pc[q] /\ mode'[q] = mode[q]
                                 /\ on'[q] = on[q] /\ copy'[q] = copy[q]
    BY <1>3 DEF Start, Goto, TypeInv, ProcsOK
  <2>4. Stands(p)'
    BY <2>3 DEF Stands
  <2> QED BY <2>1, <2>2, <2>3, <2>4, OthersStand DEF TypeInv, SafeInv, ProcInv
<1>4. ASSUME NEW p \in Procs, WorkFails(p)
      PROVE  SafeInv'
  <2>1. PICK j \in Jobs, m \in {"none", "accept", "run"}, r \in JobRec :
          j = on[p] /\ m = mode[p] /\ r = copy[p] /\ At(j, m, "work", r)
    BY <1>4 DEF WorkFails, TypeInv, ProcsOK, SafeInv, ProcInv, Stands
  <2> QED BY <1>4, <2>1, GiveUpSafe DEF WorkFails, At, Early, Failure
<1>5. ASSUME NEW p \in Procs,
             Crash(p) \/ ThrowRun(p) \/ ThrowAccept(p) \/ ThrowSettleFirst(p)
      PROVE  SafeInv'
  BY <1>5, FaultSafe
<1>6. ASSUME Tick \/ \E a \in Auths : Land(a) \/ Cancel(a)
      PROVE  SafeInv'
  <2>1. /\ UNCHANGED <<job, result, slot, recon, pc, mode, on, copy>>
        /\ \A b \in Auths : chain[b] = "charged" => chain'[b] = "charged"
    BY <1>6 DEF Tick, Land, Cancel, store, procs, TypeInv, WorldOK
  <2>2. Grow
    BY <2>1, ConstantsAssumption DEF Grow, Paid
  <2>3. StoreInv'
    BY <2>1, <2>2, StoreGrows DEF TypeInv, SafeInv
  <2> QED BY <2>1, <2>2, <2>3, OthersStand DEF TypeInv, SafeInv, ProcInv
<1> QED BY <1>1, <1>2, <1>3, <1>4, <1>5, <1>6 DEF Next

LEMMA InitSafe == Init => SafeInv
  BY DEF Init, SafeInv, StoreInv, ProcInv, Stands, Honest, NoRec, Final

LEMMA AlwaysSafeInv == Spec => []SafeInv
  BY AlwaysTypeInv, InitSafe, NextSafe, PTL DEF Spec

\* Nothing is readable before the settle succeeded (jobs.ts:3), in either
\* mode, whatever crashes, fails or is lost: a delivered job has its
\* deliverable and was paid for on the chain.
THEOREM PaidBeforeReadable == Spec => []NothingReadableUnpaid
<1>1. SafeInv => NothingReadableUnpaid
  BY DEF SafeInv, StoreInv, Honest, Paid, NothingReadableUnpaid
<1> QED BY <1>1, AlwaysSafeInv, PTL

\* The charged flag a status link shows is true only of a charge that is on
\* the chain, and a charged failure has its refund line.
THEOREM ChargedIsTrue == Spec => []ChargedFlagTrue
<1>1. SafeInv => ChargedFlagTrue
  BY DEF SafeInv, StoreInv, Honest, Paid, ChargedFlagTrue
<1> QED BY <1>1, AlwaysSafeInv, PTL

\* A job at its end holds none of the open slots (2 per payer, 10 in all).
THEOREM FinalSlotFree == Spec => []FinalFreesSlot
<1>1. SafeInv => FinalFreesSlot
  BY DEF SafeInv, StoreInv, FinalFreesSlot
<1> QED BY <1>1, AlwaysSafeInv, PTL

=============================================================================
