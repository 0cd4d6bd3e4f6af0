----------------------- MODULE PremiumJobsClaimProofs -----------------------
(* Theorems about PremiumJobs outside settle-first mode: who works on a job,  *)
(* who holds its authorization, and the contract the jobs implement.         *)
EXTENDS PremiumJobsProofs

\* The breaker is closed: no accept settles first.
SettleLast == SettleFirst \subseteq {FALSE}

----------------------------------------------------------------------------
(* One invocation works on a job at a time, and what it and the store say of  *)
(* the job agrees with what was asked of the facilitator.                    *)

\* A record of j, stored or held.
Told(j, r) ==
  /\ ~r.first /\ ~r.prepaid /\ r.status # "failed_charged"
  /\ r.status \in Pending \cup {"none"} => j \notin sent
  /\ r.status = "failed_uncharged" =>
       (j \in sent <=> r.failure = "never_landed")
  /\ r.status \in {"settle_unconfirmed", "delivered"} => j \in sent

\* The stored record s of the job that an invocation at l holds as r.
Agree(l, s, r) ==
  \/ /\ l \in {"claim", "verify", "create"}
     /\ s.status = "none" /\ r.status = "none"
  \/ l = "index" /\ s.status = "accepted" /\ r.status = "accepted"
  \/ /\ l \in {"running", "work"}
     /\ s.status \in {"accepted", "running"} /\ r.status = "running"
  \/ l = "compiled" /\ s.status \in {"accepted", "running"} /\ r.status = "built"
  \/ l \in {"built", "auth"} /\ s.status = "built" /\ r.status = "built"
  \/ l = "send" /\ s.status = "built" /\ r.status = "settling"
  \/ l = "call" /\ s.status = "settling" /\ r.status = "settling"
  \/ l = "hold" /\ s.status = "settling" /\ r.status = "settle_unconfirmed"
  \/ /\ l \in {"probe", "not_landed"}
     /\ s.status = "settle_unconfirmed" /\ r.status = "settle_unconfirmed"
  \/ /\ l = "deliver" /\ s.status = r.status
     /\ r.status \in {"settling", "settle_unconfirmed"}
  \/ /\ l = "release" /\ r.status = "failed_uncharged"
     /\ s.status \in Pending \cup {"settle_unconfirmed"}
  \/ /\ l \in {"unindex", "save"} /\ s.status \in Runnable \cup {"settling"}
     /\ r.status \in {"failed_uncharged", "delivered"}
  \/ /\ l = "save" /\ s.status \in Runnable \cup {"settling"}
     /\ r.status = "settle_unconfirmed"

JobFact(j) ==
  /\ Told(j, job[j])
  /\ job[j].status = "settling" => j \in sent
  /\ j \in active \cup replied => job[j].status # "none"

ProcFact(p) ==
  /\ pc[p] = "idle" => on[p] = NoJob
  /\ pc[p] \in Early =>
       mode[p] = "accept" /\ on[p] \notin active \cup replied
  /\ pc[p] \notin Early \cup {"idle"} =>
       mode[p] = "run" /\ lease[on[p]] = p
  /\ pc[p] = "load" => job[on[p]].status \in Runnable
  /\ pc[p] = "send" => on[p] \notin sent
  /\ pc[p] \notin {"idle", "load"} =>
       Told(on[p], copy[p]) /\ Agree(pc[p], job[on[p]], copy[p])

OneEach == \A p, q \in Procs : on[p] \in Jobs /\ on[p] = on[q] => p = q

SoloInv == /\ \A j \in Jobs : JobFact(j)
           /\ \A p \in Procs : ProcFact(p)
           /\ OneEach

\* A step of one invocation at work, and what it leaves alone.
Moves(p) ==
  \/ AcceptClaim(p) \/ AcceptVerify(p) \/ AcceptCreate(p) \/ AcceptIndex(p)
  \/ Run(p) \/ Settle(p) \/ WorkFails(p)
  \/ Crash(p) \/ ThrowRun(p) \/ ThrowAccept(p) \/ ThrowSettleFirst(p)

Elsewhere(p) ==
  /\ \A k \in Jobs \ {on[p]} :
       /\ job'[k] = job[k] /\ lease'[k] = lease[k] /\ authKey'[k] = authKey[k]
       /\ result'[k] = result[k]
       /\ k \in sent' <=> k \in sent
       /\ k \in active' \cup replied' <=> k \in active \cup replied
  /\ \A q \in Procs \ {p} :
       /\ pc'[q] = pc[q] /\ mode'[q] = mode[q] /\ on'[q] = on[q]
       /\ copy'[q] = copy[q] /\ aged'[q] = aged[q]
  /\ UNCHANGED <<now, chain>>

LEMMA OthersUntouched ==
  ASSUME TypeInv, NEW p \in Procs, Moves(p)
  PROVE  pc[p] # "idle" /\ on[p] \in Jobs /\ Elsewhere(p)
<1> USE DEF Elsewhere, TypeInv, StoreOK, WorldOK, ProcsOK, Step, Stop, Goto,
            SetCopy, Stay, SaveJob, Release, store, world
<1>1. CASE AcceptClaim(p) \/ AcceptVerify(p) \/ AcceptCreate(p) \/ AcceptIndex(p)
  BY <1>1 DEF AcceptClaim, AcceptVerify, AcceptCreate, AcceptIndex, RefuseAccept
<1>2. CASE Load(p)
  BY <1>2 DEF Load, GiveUp
<1>3. CASE SaveRunning(p) \/ Checkpoint(p) \/ Build(p) \/ SaveBuilt(p)
  BY <1>3 DEF SaveRunning, Checkpoint, Build, SaveBuilt
<1>4. CASE AfterBuilt(p) \/ Probe(p) \/ NotLanded(p)
  BY <1>4 DEF AfterBuilt, Probe, NotLanded
<1>5. CASE ReadAuth(p) \/ SendSettle(p) \/ SettleOk(p) \/ SettleFails(p)
  BY <1>5 DEF ReadAuth, SendSettle, SettleOk, SettleFails, Unconfirmed
<1>6. CASE HoldClaim(p) \/ Prepay(p) \/ Deliver(p)
  BY <1>6 DEF HoldClaim, Prepay, Deliver
<1>7. CASE FailRelease(p) \/ Unindex(p) \/ Save(p)
  BY <1>7 DEF FailRelease, Unindex, Save
<1>8. CASE WorkFails(p)
  BY <1>8 DEF WorkFails, GiveUp
<1>9. CASE Crash(p) \/ ThrowRun(p) \/ ThrowAccept(p) \/ ThrowSettleFirst(p)
  BY <1>9 DEF Crash, ThrowRun, ThrowAccept, ThrowSettleFirst, RefuseAccept,
     Unconfirmed, Fault
<1> QED BY <1>1, <1>2, <1>3, <1>4, <1>5, <1>6, <1>7, <1>8, <1>9
        DEF Moves, Run, Settle

\* The other jobs and invocations keep their facts.
LEMMA SoloElsewhere ==
  ASSUME TypeInv, SoloInv, NEW p \in Procs, on[p] \in Jobs, Elsewhere(p)
  PROVE  /\ \A k \in Jobs \ {on[p]} : JobFact(k)'
         /\ \A q \in Procs \ {p} : ProcFact(q)'
<1>1. ASSUME NEW k \in Jobs \ {on[p]}
      PROVE  JobFact(k)'
  BY <1>1 DEF Elsewhere, SoloInv, JobFact, Told
<1>2. ASSUME NEW q \in Procs \ {p}
      PROVE  ProcFact(q)'
  <2>1. ProcFact(q) /\ on[q] # on[p]
    BY DEF SoloInv, OneEach
  <2>2. CASE pc[q] = "idle"
    BY <1>2, <2>1, <2>2 DEF Elsewhere, ProcFact, Early
  <2>3. CASE pc[q] # "idle"
    <3>1. on[q] \in Jobs \ {on[p]}
      BY <2>1, <2>3 DEF TypeInv, ProcsOK
    <3> QED BY <1>2, <2>1, <2>3, <3>1 DEF Elsewhere, ProcFact, Told
  <2> QED BY <2>2, <2>3
<1> QED BY <1>1, <1>2

\* An invocation that moved on to l, or stopped, with its job as it should be.
LEMMA SoloStep ==
  ASSUME TypeInv, SoloInv, NEW p \in Procs, NEW j \in Jobs, j = on[p],
         Elsewhere(p), JobFact(j)',
         \/ Stop(p)
         \/ \E l \in PC \ {"idle", "load"}, r \in JobRec :
              /\ Step(p, l, r)
              /\ l \in Early => mode[p] = "accept" /\ j \notin active' \cup replied'
              /\ l \notin Early => mode[p] = "run" /\ lease'[j] = p
              /\ l = "send" => j \notin sent'
              /\ Told(j, r)' /\ Agree(l, job'[j], r)
  PROVE  SoloInv'
<1>1. /\ \A k \in Jobs : JobFact(k)'
      /\ \A q \in Procs \ {p} : ProcFact(q)'
  BY SoloElsewhere
<1>2. ProcFact(p)' /\ on'[p] \in {j, NoJob}
  <2>1. CASE Stop(p)
    BY <2>1 DEF Stop, Goto, SetCopy, ProcFact, Early, TypeInv, ProcsOK
  <2>2. ASSUME NEW l \in PC \ {"idle", "load"}, NEW r \in JobRec,
               Step(p, l, r), Told(j, r)', Agree(l, job'[j], r),
               l \in Early => mode[p] = "accept" /\ j \notin active' \cup replied',
               l \notin Early => mode[p] = "run" /\ lease'[j] = p,
               l = "send" => j \notin sent'
        PROVE  ProcFact(p)' /\ on'[p] \in {j, NoJob}
    <3>1. pc'[p] = l /\ mode'[p] = mode[p] /\ on'[p] = j /\ copy'[p] = r
      BY <2>2 DEF Step, Goto, SetCopy, Stay, TypeInv, ProcsOK
    <3> QED BY <2>2, <3>1 DEF ProcFact, Told
  <2> QED BY <2>1, <2>2
<1>3. OneEach'
  <2>1. \A q \in Procs \ {p} : on'[q] = on[q]
    BY DEF Elsewhere
  <2> QED BY <1>2, <2>1, ConstantsAssumption DEF SoloInv, OneEach
<1> QED BY <1>1, <1>2, <1>3 DEF SoloInv

\* What an invocation at work, past the load, has in hand.
LEMMA SoloAt ==
  ASSUME TypeInv, SoloInv, NEW p \in Procs, pc[p] \notin {"idle", "load"}
  PROVE  \E j \in Jobs, q \in JobRec, r \in JobRec :
           /\ j = on[p] /\ q = job[j] /\ r = copy[p]
           /\ JobFact(j) /\ Told(j, r) /\ Agree(pc[p], q, r)
           /\ pc[p] \in Early => mode[p] = "accept" /\ j \notin active \cup replied
           /\ pc[p] \notin Early => mode[p] = "run" /\ lease[j] = p
           /\ pc[p] = "send" => j \notin sent
  BY DEF SoloInv, ProcFact, TypeInv, ProcsOK, StoreOK

LEMMA AcceptSolo ==
  ASSUME TypeInv, SoloInv, NEW p \in Procs,
         \/ AcceptClaim(p) \/ AcceptVerify(p) \/ AcceptCreate(p) \/ AcceptIndex(p)
  PROVE  SoloInv'
<1>0. Elsewhere(p)
  BY OthersUntouched DEF Moves
<1>1. PICK j \in Jobs, q \in JobRec, r \in JobRec :
        /\ j = on[p] /\ q = job[j] /\ r = copy[p]
        /\ JobFact(j) /\ Told(j, r) /\ Agree(pc[p], q, r)
        /\ mode[p] = "accept" /\ j \notin active \cup replied
  BY SoloAt DEF AcceptClaim, AcceptVerify, AcceptCreate, AcceptIndex, Early
<1>2. CASE AcceptClaim(p)
  <2>1. PICK s \in JobRec : s = [r EXCEPT !.held = "job"]
    BY RecTypes DEF ClaimState
  <2>2. JobFact(j)'
    BY <1>1, <1>2 DEF AcceptClaim, JobFact, Told, world
  <2>3. Told(j, s)' /\ Agree("verify", job'[j], s)
    BY <1>1, <1>2, <2>1 DEF AcceptClaim, Told, Agree, world, JobRec
  <2> QED BY <1>0, <1>1, <1>2, <2>1, <2>2, <2>3, SoloStep
          DEF AcceptClaim, RefuseAccept, PC, Early, world
<1>3. CASE AcceptVerify(p)
  <2>1. JobFact(j)'
    BY <1>1, <1>3 DEF AcceptVerify, JobFact, Told, world
  <2>2. Told(j, r)' /\ Agree("create", job'[j], r)
    BY <1>1, <1>3 DEF AcceptVerify, Told, Agree, world
  <2> QED BY <1>0, <1>1, <1>3, <2>1, <2>2, SoloStep
          DEF AcceptVerify, RefuseAccept, PC, Early, world
<1>4. CASE AcceptCreate(p)
  <2>1. PICK s \in JobRec :
          s = [r EXCEPT !.status = "accepted", !.created = now]
    BY RecTypes DEF Status, Runnable, Pending, TypeInv, WorldOK
  <2>2. job'[j] = s /\ Step(p, "index", s)
    BY <1>1, <1>4, <2>1 DEF AcceptCreate, SaveJob, TypeInv, StoreOK
  <2>3. Told(j, s)' /\ Agree("index", s, s)
    BY <1>1, <1>4, <2>1 DEF AcceptCreate, Told, Agree, world, Pending, JobRec
  <2>4. JobFact(j)'
    BY <2>1, <2>2, <2>3 DEF JobFact, Told, JobRec
  <2> QED BY <1>0, <1>1, <1>4, <2>2, <2>3, <2>4, SoloStep
          DEF AcceptCreate, PC, Early, world
<1>5. CASE AcceptIndex(p)
  <2>1. ~r.first /\ q.status = "accepted"
    BY <1>1, <1>5 DEF AcceptIndex, Told, Agree
  <2>2. JobFact(j)'
    BY <1>1, <1>5, <2>1 DEF AcceptIndex, JobFact, Told
  <2> QED BY <1>0, <1>1, <1>5, <2>1, <2>2, SoloStep DEF AcceptIndex
<1> QED BY <1>2, <1>3, <1>4, <1>5

\* A job given up at l: outside settle-first mode it fails uncharged.
LEMMA GiveUpSolo ==
  ASSUME TypeInv, SoloInv, NEW p \in Procs, Elsewhere(p),
         NEW j \in Jobs, j = on[p], mode[p] = "run", lease[j] = p,
         NEW r \in JobRec, Told(j, r), JobFact(j), job[j].status \in Pending,
         NEW why \in Failure \ {"never_landed"}, GiveUp(p, r, why),
         UNCHANGED <<job, sent, active, replied, lease>>
  PROVE  SoloInv'
<1>1. PICK s \in JobRec : s = FailsWith(r, why)
  BY RecTypes
<1>2. Step(p, "release", s)
  BY <1>1 DEF GiveUp, Told
<1>3. JobFact(j)'
  BY DEF JobFact, Told
<1>4. Told(j, s)' /\ Agree("release", job'[j], s)
  BY <1>1 DEF Told, Agree, FailsWith, JobFact, JobRec, Pending
<1> QED BY <1>2, <1>3, <1>4, SoloStep DEF PC, Early

LEMMA RunSolo ==
  ASSUME TypeInv, SoloInv, NEW p \in Procs, Run(p)
  PROVE  SoloInv'
<1>0. Elsewhere(p) /\ pc[p] # "idle"
  BY OthersUntouched DEF Moves
<1>1. CASE Load(p)
  <2>1. PICK j \in Jobs, q \in JobRec :
          /\ j = on[p] /\ q = job[j] /\ JobFact(j) /\ q.status \in Runnable
          /\ mode[p] = "run" /\ lease[j] = p
    BY <1>1 DEF Load, SoloInv, ProcFact, Early, TypeInv, ProcsOK, StoreOK
  <2>2. UNCHANGED <<job, sent, active, replied>>
    BY <1>1 DEF Load
  <2>3. JobFact(j)' /\ Told(j, q) /\ Told(j, q)'
    BY <2>1, <2>2 DEF JobFact, Told
  <2>4. CASE q.status \in Pending /\ GiveUp(p, q, "budget") /\ lease' = lease
    BY <1>0, <2>1, <2>2, <2>3, <2>4, GiveUpSolo DEF Failure
  <2>5. CASE /\ q.status \in {"accepted", "running"}
             /\ Step(p, "running", [q EXCEPT !.status = "running"])
             /\ lease' = lease
    <3>1. PICK s \in JobRec : s = [q EXCEPT !.status = "running"]
      BY RecTypes DEF Status, Runnable, Pending
    <3>2. Told(j, s)' /\ Agree("running", job'[j], s)
      BY <2>1, <2>2, <2>3, <2>5, <3>1 DEF Told, Agree, Pending, JobRec
    <3> QED BY <1>0, <2>1, <2>3, <2>5, <3>1, <3>2, SoloStep DEF PC, Early
  <2>6. CASE q.status = "built" /\ Step(p, "built", q) /\ lease' = lease
    <3>1. Agree("built", job'[j], q)
      BY <2>1, <2>2, <2>6 DEF Agree
    <3> QED BY <1>0, <2>1, <2>3, <2>6, <3>1, SoloStep DEF PC, Early
  <2>7. CASE /\ q.status = "settle_unconfirmed" /\ Step(p, "probe", q)
             /\ lease' = lease
    <3>1. Agree("probe", job'[j], q)
      BY <2>1, <2>2, <2>7 DEF Agree
    <3> QED BY <1>0, <2>1, <2>3, <2>7, <3>1, SoloStep DEF PC, Early
  <2> QED BY <1>1, <2>1, <2>4, <2>5, <2>6, <2>7 DEF Load
<1>2. ASSUME ~Load(p)
      PROVE  \E j \in Jobs, q \in JobRec, r \in JobRec :
               /\ j = on[p] /\ q = job[j] /\ r = copy[p]
               /\ JobFact(j) /\ Told(j, r) /\ Agree(pc[p], q, r)
               /\ mode[p] = "run" /\ lease[j] = p
  BY <1>0, <1>2, SoloAt DEF Run, SaveRunning, Checkpoint, Build, SaveBuilt,
     AfterBuilt, Probe, NotLanded, Early
<1>3. CASE SaveRunning(p)
  <2>1. PICK j \in Jobs, q \in JobRec, r \in JobRec :
          /\ j = on[p] /\ q = job[j] /\ r = copy[p]
          /\ JobFact(j) /\ Told(j, r) /\ Agree(pc[p], q, r)
          /\ mode[p] = "run" /\ lease[j] = p
    BY <1>2, <1>3 DEF SaveRunning, Load
  <2>2. job'[j] = r /\ UNCHANGED <<sent, active, replied, lease>>
    BY <1>3, <2>1 DEF SaveRunning, SaveJob, TypeInv, StoreOK, world
  <2>3. Told(j, r)' /\ Agree("work", r, r) /\ JobFact(j)'
    BY <1>3, <2>1, <2>2 DEF SaveRunning, Told, Agree, JobFact
  <2> QED BY <1>0, <1>3, <2>1, <2>2, <2>3, SoloStep DEF SaveRunning, PC, Early
<1>4. CASE Checkpoint(p)
  <2>1. PICK j \in Jobs, q \in JobRec, r \in JobRec :
          /\ j = on[p] /\ q = job[j] /\ r = copy[p]
          /\ JobFact(j) /\ Told(j, r) /\ Agree(pc[p], q, r)
          /\ mode[p] = "run" /\ lease[j] = p
    BY <1>2, <1>4 DEF Checkpoint, Load
  <2>2. PICK s \in JobRec : s = [r EXCEPT !.steps = @ + 1]
    BY <1>4, <2>1, RecTypes DEF Checkpoint
  <2>3. job'[j] = s /\ UNCHANGED <<sent, active, replied>>
    BY <1>4, <2>1, <2>2 DEF Checkpoint, SaveJob, TypeInv, StoreOK, world
  <2>4. Told(j, s)' /\ Agree("work", s, s) /\ JobFact(j)'
    BY <1>4, <2>1, <2>2, <2>3 DEF Checkpoint, Told, Agree, JobFact, JobRec
  <2> QED BY <1>0, <1>4, <2>1, <2>2, <2>3, <2>4, SoloStep
          DEF Checkpoint, PC, Early
<1>5. CASE Build(p)
  <2>1. PICK j \in Jobs, q \in JobRec, r \in JobRec :
          /\ j = on[p] /\ q = job[j] /\ r = copy[p]
          /\ JobFact(j) /\ Told(j, r) /\ Agree(pc[p], q, r)
          /\ mode[p] = "run" /\ lease[j] = p
    BY <1>2, <1>5 DEF Build, Load
  <2>2. PICK s \in JobRec : s = [r EXCEPT !.status = "built"]
    BY RecTypes DEF Status, Runnable, Pending
  <2>3. JobFact(j)' /\ UNCHANGED <<job, sent, active, replied, lease>>
    BY <1>5, <2>1 DEF Build, JobFact, Told, world
  <2>4. Told(j, s)' /\ Agree("compiled", job'[j], s)
    BY <1>5, <2>1, <2>2, <2>3 DEF Build, Told, Agree, Pending, JobRec
  <2> QED BY <1>0, <1>5, <2>1, <2>2, <2>3, <2>4, SoloStep DEF Build, PC, Early
<1>6. CASE SaveBuilt(p)
  <2>1. PICK j \in Jobs, q \in JobRec, r \in JobRec :
          /\ j = on[p] /\ q = job[j] /\ r = copy[p]
          /\ JobFact(j) /\ Told(j, r) /\ Agree(pc[p], q, r)
          /\ mode[p] = "run" /\ lease[j] = p
    BY <1>2, <1>6 DEF SaveBuilt, Load
  <2>2. job'[j] = r /\ UNCHANGED <<sent, active, replied, lease>>
    BY <1>6, <2>1 DEF SaveBuilt, SaveJob, TypeInv, StoreOK, world
  <2>3. Told(j, r)' /\ Agree("built", r, r) /\ JobFact(j)'
    BY <1>6, <2>1, <2>2 DEF SaveBuilt, Told, Agree, JobFact
  <2> QED BY <1>0, <1>6, <2>1, <2>2, <2>3, SoloStep DEF SaveBuilt, PC, Early
<1>7. CASE AfterBuilt(p)
  <2>1. PICK j \in Jobs, q \in JobRec, r \in JobRec :
          /\ j = on[p] /\ q = job[j] /\ r = copy[p]
          /\ JobFact(j) /\ Told(j, r) /\ Agree(pc[p], q, r)
          /\ mode[p] = "run" /\ lease[j] = p
    BY <1>2, <1>7 DEF AfterBuilt, Load
  <2>2. JobFact(j)' /\ UNCHANGED <<job, sent, active, replied>>
    BY <1>7, <2>1 DEF AfterBuilt, JobFact, Told, world
  <2>3. Told(j, r)' /\ Agree("auth", job'[j], r) /\ ~r.prepaid
    BY <1>7, <2>1, <2>2 DEF AfterBuilt, Told, Agree
  <2> QED BY <1>0, <1>7, <2>1, <2>2, <2>3, SoloStep DEF AfterBuilt, PC, Early
<1>8. CASE Probe(p)
  <2>1. PICK j \in Jobs, q \in JobRec, r \in JobRec :
          /\ j = on[p] /\ q = job[j] /\ r = copy[p]
          /\ JobFact(j) /\ Told(j, r) /\ Agree(pc[p], q, r)
          /\ mode[p] = "run" /\ lease[j] = p
    BY <1>2, <1>8 DEF Probe, Load
  <2>2. JobFact(j)' /\ UNCHANGED <<job, sent, active, replied>>
    BY <1>8, <2>1 DEF Probe, JobFact, Told, world
  <2>3. /\ Told(j, r)' /\ ~r.first
        /\ Agree("deliver", job'[j], r) /\ Agree("not_landed", job'[j], r)
    BY <1>8, <2>1, <2>2 DEF Probe, Told, Agree
  <2> QED BY <1>0, <1>8, <2>1, <2>2, <2>3, SoloStep DEF Probe, PC, Early
<1>9. CASE NotLanded(p)
  <2>1. PICK j \in Jobs, q \in JobRec, r \in JobRec :
          /\ j = on[p] /\ q = job[j] /\ r = copy[p]
          /\ JobFact(j) /\ Told(j, r) /\ Agree(pc[p], q, r)
          /\ mode[p] = "run" /\ lease[j] = p
    BY <1>2, <1>9 DEF NotLanded, Load
  <2>2. JobFact(j)' /\ UNCHANGED <<job, sent, active, replied>>
    BY <1>9, <2>1 DEF NotLanded, JobFact, Told, world
  <2>3. PICK s \in JobRec : s = FailsWith(r, "never_landed")
    BY RecTypes DEF Failure
  <2>4. Told(j, s)' /\ Agree("release", job'[j], s)
    BY <1>9, <2>1, <2>2, <2>3
    DEF NotLanded, Told, Agree, FailsWith, Pending, JobRec
  <2> QED BY <1>0, <1>9, <2>1, <2>2, <2>3, <2>4, SoloStep
          DEF NotLanded, PC, Early
<1> QED BY <1>1, <1>3, <1>4, <1>5, <1>6, <1>7, <1>8, <1>9 DEF Run

LEMMA SettleSolo ==
  ASSUME TypeInv, SoloInv, NEW p \in Procs, Settle(p)
  PROVE  SoloInv'
<1>0. Elsewhere(p)
  BY OthersUntouched DEF Moves
<1>1. PICK j \in Jobs, q \in JobRec, r \in JobRec :
        /\ j = on[p] /\ q = job[j] /\ r = copy[p]
        /\ JobFact(j) /\ Told(j, r) /\ Agree(pc[p], q, r)
        /\ mode[p] = "run" /\ lease[j] = p
        /\ pc[p] = "send" => j \notin sent
  BY SoloAt DEF Settle, ReadAuth, SendSettle, SettleOk, SettleFails, HoldClaim,
     Prepay, Deliver, FailRelease, Unindex, Save, Early
<1>2. CASE ReadAuth(p)
  <2>1. PICK s1, s2, s3 \in JobRec :
          /\ s1 = FailsWith(r, "authorization_missing")
          /\ s2 = FailsWith(r, "authorization_expired")
          /\ s3 = [r EXCEPT !.status = "settling"]
    BY RecTypes DEF Failure, Status
  <2>2. UNCHANGED <<job, sent, active, replied, lease>> /\ j \notin sent
    BY <1>1, <1>2 DEF ReadAuth, store, world, Told, Agree, Pending
  <2>3. JobFact(j)'
    BY <1>1, <2>2 DEF JobFact, Told
  <2>4. /\ Told(j, s1)' /\ Agree("release", job'[j], s1)
        /\ Told(j, s2)' /\ Agree("release", job'[j], s2)
        /\ Told(j, s3)' /\ Agree("send", job'[j], s3)
    BY <1>1, <1>2, <2>1, <2>2
    DEF ReadAuth, Told, Agree, FailsWith, Pending, JobRec
  <2> QED BY <1>0, <1>1, <1>2, <2>1, <2>2, <2>3, <2>4, SoloStep
          DEF ReadAuth, PC, Early
<1>3. CASE SendSettle(p)
  <2>1. /\ job'[j] = r /\ j \in sent'
        /\ UNCHANGED <<active, replied, lease>> /\ q.status = "built"
    BY <1>1, <1>3 DEF SendSettle, SaveJob, Agree, TypeInv, StoreOK
  <2>2. Told(j, r)' /\ Agree("call", r, r) /\ JobFact(j)'
    BY <1>1, <1>3, <2>1 DEF SendSettle, Told, Agree, JobFact, Pending
  <2> QED BY <1>0, <1>1, <1>3, <2>1, <2>2, SoloStep DEF SendSettle, PC, Early
<1>4. CASE SettleOk(p)
  <2>1. JobFact(j)' /\ UNCHANGED <<job, sent, active, replied, lease>>
    BY <1>1, <1>4 DEF SettleOk, store, world, JobFact, Told
  <2>2. Told(j, r)' /\ Agree("deliver", job'[j], r)
    BY <1>1, <1>4, <2>1 DEF SettleOk, Told, Agree
  <2> QED BY <1>0, <1>1, <1>4, <2>1, <2>2, SoloStep DEF SettleOk, PC, Early
<1>5. CASE SettleFails(p)
  <2>1. JobFact(j)' /\ UNCHANGED <<job, sent, active, replied, lease>>
    BY <1>1, <1>5 DEF SettleFails, Unconfirmed, store, JobFact, Told
  <2>2. PICK s \in JobRec : s = [r EXCEPT !.status = "settle_unconfirmed"]
    BY RecTypes DEF Status, Runnable
  <2>3. Told(j, s)' /\ Agree("hold", job'[j], s)
    BY <1>1, <1>5, <2>1, <2>2
    DEF SettleFails, Told, Agree, JobFact, Pending, JobRec
  <2> QED BY <1>0, <1>1, <1>5, <2>1, <2>2, <2>3, SoloStep
          DEF SettleFails, Unconfirmed, PC, Early
<1>6. CASE HoldClaim(p)
  <2>1. PICK held \in ClaimState : Step(p, "save", [r EXCEPT !.held = held])
    BY <1>1, <1>6 DEF HoldClaim
  <2>2. PICK s \in JobRec : s = [r EXCEPT !.held = held]
    BY RecTypes
  <2>3. UNCHANGED <<job, sent, replied, lease>>
    BY <1>6 DEF HoldClaim, world
  <2>4. Told(j, s)' /\ Agree("save", job'[j], s)
    BY <1>1, <1>6, <2>2, <2>3 DEF HoldClaim, Told, Agree, JobRec
  <2>5. JobFact(j)'
    BY <1>1, <1>6, <2>3 DEF HoldClaim, JobFact, Told, Agree
  <2> QED BY <1>0, <1>1, <2>1, <2>2, <2>3, <2>4, <2>5, SoloStep DEF PC, Early
<1>7. CASE Deliver(p)
  <2>1. JobFact(j)' /\ UNCHANGED <<job, sent, active, replied, lease>>
    BY <1>1, <1>7 DEF Deliver, world, JobFact, Told
  <2>2. PICK s \in JobRec : s = [Charged(r) EXCEPT !.status = "delivered"]
    BY RecTypes
  <2>3. Told(j, s)' /\ Agree("unindex", job'[j], s)
    BY <1>1, <1>7, <2>1, <2>2
    DEF Deliver, Told, Agree, JobFact, Charged, Runnable, Pending, JobRec
  <2> QED BY <1>0, <1>1, <1>7, <2>1, <2>2, <2>3, SoloStep
          DEF Deliver, PC, Early
<1>8. CASE FailRelease(p)
  <2>1. JobFact(j)' /\ UNCHANGED <<job, sent, active, replied, lease>>
    BY <1>1, <1>8 DEF FailRelease, world, JobFact, Told
  <2>2. Told(j, r)' /\ Agree("unindex", job'[j], r)
    BY <1>1, <1>8, <2>1 DEF FailRelease, Told, Agree, Runnable
  <2> QED BY <1>0, <1>1, <1>8, <2>1, <2>2, SoloStep
          DEF FailRelease, PC, Early
<1>9. CASE Unindex(p)
  <2>1. UNCHANGED <<job, sent, replied, lease>> /\ active' \subseteq active
    BY <1>9 DEF Unindex, world
  <2>2. JobFact(j)'
    BY <1>1, <2>1 DEF JobFact, Told
  <2>3. Told(j, r)' /\ Agree("save", job'[j], r)
    BY <1>1, <1>9, <2>1 DEF Unindex, Told, Agree
  <2> QED BY <1>0, <1>1, <1>9, <2>1, <2>2, <2>3, SoloStep
          DEF Unindex, PC, Early
<1>10. CASE Save(p)
  <2>1. job'[j] = r /\ UNCHANGED <<sent, active, replied>> /\ Stop(p)
    BY <1>1, <1>10 DEF Save, SaveJob, TypeInv, StoreOK
  <2>2. JobFact(j)'
    BY <1>1, <1>10, <2>1 DEF Save, Told, Agree, JobFact
  <2> QED BY <1>0, <1>1, <2>1, <2>2, SoloStep
<1>11. ~Prepay(p)
  BY <1>1 DEF Prepay, Agree
<1> QED BY <1>2, <1>3, <1>4, <1>5, <1>6, <1>7, <1>8, <1>9, <1>10, <1>11
        DEF Settle

LEMMA FaultSolo ==
  ASSUME TypeInv, SoloInv, NEW p \in Procs,
         \/ WorkFails(p) \/ Crash(p) \/ ThrowRun(p) \/ ThrowAccept(p)
         \/ ThrowSettleFirst(p)
  PROVE  SoloInv'
<1>0. Elsewhere(p) /\ pc[p] # "idle" /\ on[p] \in Jobs
  BY OthersUntouched DEF Moves
<1>1. PICK j \in Jobs : j = on[p] /\ JobFact(j)
  BY <1>0 DEF SoloInv
<1>2. CASE WorkFails(p)
  <2>1. PICK q \in JobRec, r \in JobRec :
          /\ q = job[j] /\ r = copy[p]
          /\ Told(j, r) /\ Agree(pc[p], q, r)
          /\ mode[p] = "run" /\ lease[j] = p
    BY <1>1, <1>2, SoloAt DEF WorkFails, Early
  <2>2. q.status \in Pending
    BY <1>2, <2>1 DEF WorkFails, Agree, Pending
  <2>3. GiveUp(p, r, "work_failed")
    BY <1>2, <2>1 DEF WorkFails
  <2>4. "work_failed" \in Failure \ {"never_landed"}
    BY DEF Failure
  <2>5. UNCHANGED <<job, sent, active, replied, lease>>
    BY <1>2 DEF WorkFails
  <2> QED BY <1>0, <1>1, <2>1, <2>2, <2>3, <2>4, <2>5, GiveUpSolo
<1>3. CASE Crash(p) \/ ThrowRun(p)
  <2>1. UNCHANGED <<job, sent, active, replied>> /\ Stop(p)
    BY <1>3 DEF Crash, ThrowRun, store
  <2>2. JobFact(j)'
    BY <1>1, <2>1 DEF JobFact, Told
  <2> QED BY <1>0, <1>1, <2>1, <2>2, SoloStep
<1>4. CASE ThrowAccept(p)
  <2>1. UNCHANGED <<job, sent, replied>> /\ Stop(p)
    BY <1>4 DEF ThrowAccept, RefuseAccept
  <2>2. pc[p] = "index" => job[j].status = "accepted"
    BY <1>1, SoloAt DEF Agree
  <2>3. JobFact(j)'
    BY <1>1, <1>4, <2>1, <2>2 DEF ThrowAccept, JobFact, Told
  <2> QED BY <1>0, <1>1, <2>1, <2>3, SoloStep
<1>5. ~ThrowSettleFirst(p)
  <2>1. pc[p] = "load" => mode[p] = "run"
    BY DEF SoloInv, ProcFact, Early
  <2> QED BY <2>1, SoloAt DEF ThrowSettleFirst, Early
<1> QED BY <1>2, <1>3, <1>4, <1>5

\* An idle invocation takes up a job nobody works on.
LEMMA BeginSolo ==
  ASSUME TypeInv, SoloInv, NEW p \in Procs, NEW j \in Jobs,
         \/ Start(p, j)
         \/ \E first \in SettleFirst : ~first /\ AcceptReserve(p, j, first)
  PROVE  SoloInv'
<1>1. /\ UNCHANGED <<job, sent, active, replied>>
      /\ on'[p] = j /\ pc[p] = "idle"
      /\ \A q \in Procs \ {p} : /\ pc'[q] = pc[q] /\ mode'[q] = mode[q]
                                /\ on'[q] = on[q] /\ copy'[q] = copy[q]
      /\ \A k \in Jobs \ {j} : lease'[k] = lease[k]
  BY DEF Start, AcceptReserve, Goto, SetCopy, world, TypeInv, StoreOK, ProcsOK
<1>2. \A k \in Jobs : JobFact(k)'
  BY <1>1 DEF SoloInv, JobFact, Told
<1>3. \A q \in Procs \ {p} : on[q] # j
  <2>1. CASE Start(p, j)
    BY <2>1, ConstantsAssumption DEF Start, SoloInv, ProcFact
  <2>2. CASE \E first \in SettleFirst : AcceptReserve(p, j, first)
    BY <2>2 DEF AcceptReserve, Fresh
  <2> QED BY <2>1, <2>2
<1>4. ASSUME NEW q \in Procs \ {p}
      PROVE  ProcFact(q)'
  <2>1. ProcFact(q) /\ on[q] \in Jobs \cup {NoJob} /\ on[q] # j
    BY <1>3 DEF SoloInv, TypeInv, ProcsOK
  <2>2. pc[q] # "idle" => on[q] \in Jobs \ {j}
    BY <2>1 DEF TypeInv, ProcsOK
  <2> QED BY <1>1, <1>4, <2>1, <2>2 DEF ProcFact, Told, Early
<1>5. ProcFact(p)'
  <2>1. CASE Start(p, j)
    <3>1. /\ pc'[p] = "load" /\ mode'[p] = "run" /\ lease'[j] = p
          /\ job[j].status \in Runnable
      BY <2>1 DEF Start, Goto, TypeInv, StoreOK, ProcsOK
    <3> QED BY <1>1, <3>1 DEF ProcFact, Early
  <2>2. ASSUME NEW first \in SettleFirst, ~first, AcceptReserve(p, j, first)
        PROVE  ProcFact(p)'
    <3>1. PICK r \in JobRec : r = [NoRec EXCEPT !.first = first]
      BY RecTypes, ConstantsAssumption
    <3>2. /\ pc'[p] = "claim" /\ mode'[p] = "accept" /\ copy'[p] = r
          /\ job[j].status = "none"
      BY <2>2, <3>1
      DEF AcceptReserve, Fresh, Goto, SetCopy, TypeInv, ProcsOK
    <3>3. ~r.first /\ ~r.prepaid /\ r.status = "none"
      BY <2>2, <3>1 DEF NoRec
    <3>4. JobFact(j)
      BY DEF SoloInv
    <3> QED BY <1>1, <3>2, <3>3, <3>4 DEF ProcFact, JobFact, Told, Agree, Early
  <2> QED BY <2>1, <2>2
<1>6. OneEach'
  BY <1>1, <1>3 DEF SoloInv, OneEach
<1> QED BY <1>2, <1>4, <1>5, <1>6 DEF SoloInv

LEMMA NextSolo ==
  ASSUME SettleLast
  PROVE  TypeInv /\ SoloInv /\ [Next]_vars => SoloInv'
<1> SUFFICES ASSUME TypeInv, SoloInv, [Next]_vars PROVE SoloInv'
  OBVIOUS
<1>1. CASE UNCHANGED vars
  BY <1>1 DEF vars, store, world, procs, SoloInv, JobFact, ProcFact, OneEach,
     Told
<1>2. ASSUME NEW p \in Procs,
             \/ AcceptClaim(p) \/ AcceptVerify(p)
             \/ AcceptCreate(p) \/ AcceptIndex(p)
             \/ Run(p) \/ Settle(p) \/ WorkFails(p)
             \/ Crash(p) \/ ThrowRun(p) \/ ThrowAccept(p) \/ ThrowSettleFirst(p)
      PROVE  SoloInv'
  BY <1>2, AcceptSolo, RunSolo, SettleSolo, FaultSolo
<1>3. ASSUME NEW p \in Procs, NEW j \in Jobs,
             \/ Start(p, j)
             \/ \E first \in SettleFirst : AcceptReserve(p, j, first)
      PROVE  SoloInv'
  BY <1>3, BeginSolo DEF SettleLast
<1>4. CASE \E a \in Auths : Land(a) \/ Cancel(a)
  BY <1>4 DEF Land, Cancel, store, procs, SoloInv, JobFact, ProcFact, OneEach,
     Told
<1>5. CASE Tick
  <2>1. UNCHANGED <<job, sent, active, replied, pc, mode, on, copy>>
    BY <1>5 DEF Tick
  <2>2. ASSUME NEW q \in Procs
        PROVE  ProcFact(q)'
    <3>1. CASE pc[q] \notin Early \cup {"idle"}
      <4>1. ProcFact(q) /\ on[q] \in Jobs /\ mode[q] = "run" /\ lease[on[q]] = q
        BY <3>1 DEF SoloInv, ProcFact, TypeInv, ProcsOK
      <4>2. lease'[on[q]] = q
        BY <1>5, <3>1, <4>1 DEF Tick, Holds
      <4> QED BY <2>1, <4>1, <4>2 DEF ProcFact, Told
    <3>2. CASE pc[q] \in Early \cup {"idle"}
      BY <2>1, <3>2 DEF SoloInv, ProcFact, Told
    <3> QED BY <3>1, <3>2
  <2> QED BY <2>1, <2>2 DEF SoloInv, JobFact, OneEach, Told
<1> QED BY <1>1, <1>2, <1>3, <1>4, <1>5 DEF Next, Accept

LEMMA AlwaysSoloInv ==
  ASSUME SettleLast
  PROVE  Spec => []SoloInv
<1>1. Init => SoloInv
  BY ConstantsAssumption
  DEF Init, SoloInv, JobFact, ProcFact, OneEach, Told, NoRec, Early, Pending
<1>2. TypeInv /\ SoloInv /\ [Next]_vars => SoloInv'
  BY NextSolo
<1> QED BY <1>1, <1>2, AlwaysTypeInv, PTL DEF Spec

----------------------------------------------------------------------------
(* Charged for work. *)

\* The steps that write a record, a result or a request, and the chain's.
Writes(p) == \/ AcceptCreate(p) \/ SaveRunning(p) \/ Checkpoint(p) \/ Build(p)
             \/ SaveBuilt(p) \/ SendSettle(p) \/ Save(p)

LEMMA WhoWrites ==
  ASSUME [Next]_vars
  PROVE  \/ UNCHANGED <<job, result, sent, chain>>
         \/ \E p \in Procs : Writes(p) /\ UNCHANGED chain
         \/ (\E a \in Auths : Land(a) \/ Cancel(a))
            /\ UNCHANGED <<job, result, sent>>
<1>1. CASE UNCHANGED vars
  BY <1>1 DEF vars, store, world
<1>2. ASSUME NEW p \in Procs,
             Accept(p) \/ (\E j \in Jobs : Start(p, j)) \/ ThrowAccept(p)
      PROVE  UNCHANGED <<job, result, sent, chain>> \/ AcceptCreate(p)
  BY <1>2 DEF Accept, AcceptReserve, AcceptClaim, AcceptVerify, AcceptIndex,
     RefuseAccept, Start, ThrowAccept, world
<1>3. ASSUME NEW p \in Procs, Run(p)
      PROVE  UNCHANGED <<job, result, sent, chain>> \/ Writes(p)
  BY <1>3 DEF Run, Load, AfterBuilt, Probe, NotLanded, world, Writes
<1>4. ASSUME NEW p \in Procs, Settle(p)
      PROVE  UNCHANGED <<job, result, sent, chain>> \/ Writes(p)
  BY <1>4 DEF Settle, ReadAuth, SettleOk, SettleFails, HoldClaim, Prepay,
     Deliver, FailRelease, Unindex, store, world, Writes
<1>5. ASSUME NEW p \in Procs, Writes(p)
      PROVE  UNCHANGED chain
  BY <1>5 DEF Writes, AcceptCreate, SaveRunning, Checkpoint, Build, SaveBuilt,
     SendSettle, Save, world
<1>6. ASSUME NEW p \in Procs,
             WorkFails(p) \/ Crash(p) \/ ThrowRun(p) \/ ThrowSettleFirst(p)
      PROVE  UNCHANGED <<job, result, sent, chain>>
  BY <1>6 DEF WorkFails, Crash, ThrowRun, ThrowSettleFirst, store
<1>7. CASE \E a \in Auths : Land(a) \/ Cancel(a)
  BY <1>7 DEF Land, Cancel, store
<1>8. CASE Tick
  BY <1>8 DEF Tick
<1> QED BY <1>1, <1>2, <1>3, <1>4, <1>5, <1>6, <1>7, <1>8 DEF Next, Writes

\* What was asked for had its deliverable.
SentBuilt == \A j \in sent : result[j]

LEMMA NextSent ==
  TypeInv /\ SafeInv /\ SoloInv /\ SentBuilt /\ [Next]_vars => SentBuilt'
<1> SUFFICES ASSUME TypeInv, SafeInv, SoloInv, SentBuilt, [Next]_vars
             PROVE  SentBuilt'
  OBVIOUS
<1>1. CASE UNCHANGED <<result, sent>>
  BY <1>1 DEF SentBuilt
<1>2. ASSUME NEW p \in Procs, Build(p)
      PROVE  SentBuilt'
  BY <1>2 DEF Build, world, SentBuilt, TypeInv, StoreOK, WorldOK
<1>3. ASSUME NEW p \in Procs, SendSettle(p)
      PROVE  SentBuilt'
  <2>1. mode[p] = "run"
    BY <1>3, SoloAt DEF SendSettle, Early
  <2>2. result[on[p]]
    BY <1>3, <2>1 DEF SendSettle, SafeInv, ProcInv, Stands, At
  <2> QED BY <1>3, <2>2 DEF SendSettle, SentBuilt
<1> QED BY <1>1, <1>2, <1>3, WhoWrites
        DEF Writes, AcceptCreate, SaveRunning, Checkpoint, SaveBuilt, Save, world

\* copy.ts:104, the mode without settle-first: whatever crashes, fails or is
\* late, the authorization goes to the facilitator only once the deliverable
\* exists, and never for a job that fails uncharged by itself.
THEOREM ChargedOnlyForWork ==
  ASSUME SettleLast
  PROVE  Spec => []ChargedForWork
<1>1. SoloInv /\ SentBuilt => ChargedForWork
  BY DEF SoloInv, JobFact, Told, SentBuilt, ChargedForWork, ChargedAfterBuild,
         FailedNeverSubmitted
<1>2. Init => SentBuilt
  BY DEF Init, SentBuilt
<1> QED BY <1>1, <1>2, NextSent, AlwaysTypeInv, AlwaysSafeInv, AlwaysSoloInv,
           PTL DEF Spec

----------------------------------------------------------------------------
(* Who holds an authorization's claim. *)

\* The store does what it answers: no compare-and-set fails unnoticed.
CasHolds == CasFaults = FALSE

\* An invocation is at most one tick older than its last look at the clock.
Age(p) == IF aged[p] THEN 1 ELSE 0
Term(r) == r.created + ClaimTTL - 1
InTime(r, age) == now <= r.created + Budget + age

\* Job j holds its authorization's claim up to tick e, or for good.
Secured(j, e) == /\ claim[AuthOf[j]].owner = j /\ claim[AuthOf[j]].s = "job"
                 /\ claim[AuthOf[j]].exp >= e
Kept(j) == /\ claim[AuthOf[j]].owner = j
           /\ claim[AuthOf[j]].s \in {"unconfirmed", "settled"}
Secure(j, r, age) == InTime(r, age) /\ r.held = "job" /\ Secured(j, Term(r))

ClaimJob(j) ==
  /\ job[j].status \in Pending /\ authKey[j] > 0 /\ now < Term(job[j])
       => Secured(j, Term(job[j])) /\ job[j].held = "job"
  /\ job[j].status \in {"settle_unconfirmed", "delivered"} => Kept(j)

ClaimAt(j, l, r, age) ==
  /\ l \in {"verify", "create"} =>
       Secured(j, now + ClaimTTL - age) /\ r.held = "job"
  /\ l \in {"running", "work", "compiled", "built", "auth"} =>
       r.created = job[j].created /\ r.held = job[j].held /\ InTime(r, age)
  /\ l \in {"send", "call", "hold"} => Secure(j, r, age)
  /\ l = "deliver" => Kept(j) \/ Secure(j, r, age)
  /\ l \in {"unindex", "save"}
     /\ r.status \in {"delivered", "settle_unconfirmed"} => Kept(j)

ClaimProc(p) == pc[p] # "idle" => ClaimAt(on[p], pc[p], copy[p], Age(p))
ClaimInv == (\A j \in Jobs : ClaimJob(j)) /\ (\A p \in Procs : ClaimProc(p))

\* What a step of p leaves of the claims of other jobs.
ClaimsKept(p) ==
  \A k \in Jobs \ {on[p]} :
    /\ Kept(k) => Kept(k)'
    /\ \A e \in Int : e > now /\ Secured(k, e) => Secured(k, e)'

\* tryClaim takes no live claim, moveClaim and releaseClaim only their own.
LEMMA ClaimMoves ==
  ASSUME CasHolds, TypeInv, NEW p \in Procs, on[p] \in Jobs,
         \/ claim' = claim
         \/ ReleaseClaim(p)
         \/ \E s, held \in ClaimState : MoveClaim(p, s, held)
         \/ /\ ~LiveClaim(A(p))
            /\ \E c \in Claim : claim' = [claim EXCEPT ![A(p)] = c]
  PROVE  ClaimsKept(p)
<1>1. A(p) \in Auths /\ claim \in [Auths -> Claim]
  BY ConstantsAssumption DEF A, TypeInv, StoreOK
<1>2. \/ claim' = claim
      \/ OwnsClaim(p) /\ \E c \in Claim : claim' = [claim EXCEPT ![A(p)] = c]
      \/ ~LiveClaim(A(p)) /\ \E c \in Claim : claim' = [claim EXCEPT ![A(p)] = c]
  <2>1. NoClaim \in Claim
    BY DEF NoClaim, Claim, ClaimState
  <2>2. ASSUME NEW s \in ClaimState
        PROVE  [s |-> s, owner |-> on[p], exp |-> 0] \in Claim
    BY DEF Claim
  <2>3. CASE ReleaseClaim(p)
    BY <2>1, <2>3 DEF ReleaseClaim, CasHolds
  <2>4. CASE \E s, held \in ClaimState : MoveClaim(p, s, held)
    BY <2>2, <2>4 DEF MoveClaim, MovedClaim, CasHolds
  <2> QED BY <2>3, <2>4
<1>3. ASSUME NEW k \in Jobs \ {on[p]}, claim'[AuthOf[k]] # claim[AuthOf[k]]
      PROVE  ~Kept(k) /\ \A e \in Int : e > now => ~Secured(k, e)
  <2>1. AuthOf[k] = A(p) /\ (OwnsClaim(p) \/ ~LiveClaim(A(p)))
    BY <1>1, <1>2, <1>3, ConstantsAssumption
  <2>2. claim[A(p)].exp \in Nat /\ now \in Nat
    BY <1>1 DEF Claim, TypeInv, WorldOK
  <2> QED BY <1>3, <2>1, <2>2 DEF OwnsClaim, LiveClaim, Kept, Secured
<1> QED BY <1>3 DEF ClaimsKept, Kept, Secured

\* The other jobs and invocations keep their claims.
LEMMA ClaimElsewhere ==
  ASSUME TypeInv, SoloInv, ClaimInv, NEW p \in Procs, on[p] \in Jobs,
         Elsewhere(p), ClaimsKept(p)
  PROVE  /\ \A k \in Jobs \ {on[p]} : ClaimJob(k)'
         /\ \A q \in Procs \ {p} : ClaimProc(q)'
<1>0. now \in Nat /\ now' = now
  BY DEF TypeInv, WorldOK, Elsewhere
<1>1. ASSUME NEW k \in Jobs \ {on[p]}
      PROVE  ClaimJob(k)'
  <2>1. /\ job'[k] = job[k] /\ authKey'[k] = authKey[k]
        /\ Term(job[k]) \in Int /\ job[k] \in JobRec /\ ClaimJob(k)
    BY <1>1, ConstantsAssumption
    DEF Elsewhere, TypeInv, StoreOK, Term, JobRec, ClaimInv
  <2>2. Term(job[k])' = Term(job[k])
    BY <2>1 DEF Term
  <2>3. /\ Kept(k) => Kept(k)'
        /\ now < Term(job[k]) /\ Secured(k, Term(job[k]))
             => Secured(k, Term(job[k]))'
    <3> DEFINE e == Term(job[k])
    <3>1. e \in Int /\ e' = e
      BY <2>1, <2>2
    <3> HIDE DEF e
    <3>2. e > now /\ Secured(k, e) => Secured(k, e)'
      BY <1>1, <3>1 DEF ClaimsKept, Secured
    <3>3. Kept(k) => Kept(k)'
      BY <1>1 DEF ClaimsKept
    <3> QED BY <1>0, <3>1, <3>2, <3>3 DEF e
  <2> QED BY <1>0, <2>1, <2>2, <2>3 DEF ClaimJob
<1>2. ASSUME NEW q \in Procs \ {p}, pc[q] # "idle"
      PROVE  ClaimProc(q)'
  <2>1. PICK k \in Jobs \ {on[p]}, l \in PC, r \in JobRec, age \in {0, 1} :
          /\ k = on[q] /\ l = pc[q] /\ r = copy[q] /\ age = Age(q)
          /\ ClaimAt(k, l, r, age)
    BY <1>2 DEF TypeInv, ProcsOK, SoloInv, OneEach, ClaimInv, ClaimProc, Age
  <2>2. /\ pc'[q] = l /\ on'[q] = k /\ copy'[q] = r /\ Age(q)' = age
        /\ job'[k] = job[k]
    BY <1>2, <2>1 DEF Elsewhere, Age
  <2>3. /\ Kept(k) => Kept(k)'
        /\ \A e \in Int : e > now /\ Secured(k, e) => Secured(k, e)'
    BY <2>1 DEF ClaimsKept
  <2>4. /\ r.created \in Nat /\ ClaimTTL \in Nat /\ Budget \in Nat
        /\ Budget + 2 < ClaimTTL
    BY ConstantsAssumption, TimingAssumption DEF JobRec
  <2>5. Secured(k, now + ClaimTTL - age) => Secured(k, now + ClaimTTL - age)'
    BY <1>0, <2>3, <2>4 DEF Secured
  <2>6. Secure(k, r, age) => Secure(k, r, age)'
    BY <1>0, <2>3, <2>4 DEF Secure, InTime, Term, Secured
  <2>7. ClaimAt(k, l, r, age)'
    BY <1>0, <2>1, <2>2, <2>3, <2>5, <2>6 DEF ClaimAt, InTime
  <2> QED BY <2>2, <2>7 DEF ClaimProc
<1>3. ASSUME NEW q \in Procs \ {p}, pc[q] = "idle"
      PROVE  ClaimProc(q)'
  BY <1>3 DEF Elsewhere, ClaimProc
<1> QED BY <1>1, <1>2, <1>3

\* A step that moved its own claim, or none, and shows where it leads to.
LEMMA ClaimStep ==
  ASSUME TypeInv, SoloInv, ClaimInv, NEW p \in Procs,
         NEW j \in Jobs, j = on[p], NEW age, age = Age(p),
         Elsewhere(p), ClaimsKept(p), ClaimJob(j)',
         \/ Stop(p)
         \/ \E l \in PC, r \in JobRec : Step(p, l, r) /\ ClaimAt(j, l, r, age)'
  PROVE  ClaimInv'
<1>1. /\ \A k \in Jobs : ClaimJob(k)'
      /\ \A q \in Procs \ {p} : ClaimProc(q)'
  BY ClaimElsewhere
<1>2. CASE Stop(p)
  <2>1. pc'[p] = "idle"
    BY <1>2 DEF Stop, Goto, TypeInv, ProcsOK
  <2> QED BY <1>1, <2>1 DEF ClaimInv, ClaimProc
<1>3. ASSUME NEW l \in PC, NEW r \in JobRec, Step(p, l, r), ClaimAt(j, l, r, age)'
      PROVE  ClaimInv'
  <2>1. pc'[p] = l /\ on'[p] = j /\ copy'[p] = r /\ Age(p)' = age
    BY <1>3 DEF Step, Goto, SetCopy, Stay, TypeInv, ProcsOK, Age
  <2>2. ClaimProc(p)'
    BY <1>3, <2>1 DEF ClaimProc, ClaimAt, Secure, InTime
  <2> QED BY <1>1, <2>2 DEF ClaimInv
<1> QED BY <1>2, <1>3

LEMMA ClaimHead ==
  ASSUME TypeInv, SoloInv, ClaimInv, NEW p \in Procs,
         pc[p] \notin {"idle", "load"}
  PROVE  \E j \in Jobs, q \in JobRec, r \in JobRec, age \in {0, 1} :
           /\ j = on[p] /\ q = job[j] /\ r = copy[p] /\ age = Age(p)
           /\ Told(j, q) /\ Told(j, r) /\ Agree(pc[p], q, r)
           /\ ClaimJob(j) /\ ClaimAt(j, pc[p], r, age)
<1>1. PICK j \in Jobs, q \in JobRec, r \in JobRec :
           /\ j = on[p] /\ q = job[j] /\ r = copy[p]
           /\ JobFact(j) /\ Told(j, r) /\ Agree(pc[p], q, r)
  BY SoloAt
<1> QED BY <1>1 DEF JobFact, ClaimInv, ClaimProc, Age

LEMMA AcceptClaims ==
  ASSUME CasHolds, TypeInv, SoloInv, ClaimInv, NEW p \in Procs,
         \/ AcceptClaim(p) \/ AcceptVerify(p) \/ AcceptCreate(p) \/ AcceptIndex(p)
  PROVE  ClaimInv'
<1>0. Elsewhere(p)
  BY OthersUntouched DEF Moves
<1>1. PICK j \in Jobs, q \in JobRec, r \in JobRec, age \in {0, 1} :
        /\ j = on[p] /\ q = job[j] /\ r = copy[p] /\ age = Age(p)
        /\ Told(j, q) /\ Told(j, r) /\ Agree(pc[p], q, r)
        /\ ClaimJob(j) /\ ClaimAt(j, pc[p], r, age)
  BY ClaimHead DEF AcceptClaim, AcceptVerify, AcceptCreate, AcceptIndex
<1>2. now \in Nat /\ ClaimTTL \in Nat /\ A(p) = AuthOf[j] /\ A(p) \in Auths
  BY <1>1, ConstantsAssumption DEF TypeInv, WorldOK, A
<1>3. CASE AcceptClaim(p)
  <2>1. PICK s \in JobRec : s = [r EXCEPT !.held = "job"]
    BY RecTypes DEF ClaimState
  <2>2. PICK c \in Claim :
          c = [s |-> "job", owner |-> j, exp |-> now + ClaimTTL]
    <3>1. [s |-> "job", owner |-> j, exp |-> now + ClaimTTL] \in Claim
      BY <1>2 DEF Claim, ClaimState
    <3> QED BY <3>1
  <2>3. ClaimsKept(p)
    BY <1>1, <1>3, <2>2, ClaimMoves DEF AcceptClaim
  <2>4. ClaimJob(j)'
    BY <1>1, <1>3 DEF AcceptClaim, Agree, ClaimJob, Pending
  <2>5. claim'[A(p)] = c => ClaimAt(j, "verify", s, age)'
    BY <1>0, <1>1, <1>2, <2>1, <2>2
    DEF ClaimAt, Secured, Elsewhere, JobRec, Claim
  <2> QED BY <1>0, <1>1, <1>2, <1>3, <2>1, <2>2, <2>3, <2>4, <2>5, ClaimStep
          DEF AcceptClaim, RefuseAccept, PC, TypeInv, StoreOK
<1>4. CASE AcceptVerify(p)
  <2>1. ClaimsKept(p)
    BY <1>1, <1>4, ClaimMoves DEF AcceptVerify, ClaimState
  <2>2. ClaimJob(j)'
    BY <1>1, <1>4 DEF AcceptVerify, Agree, ClaimJob, Pending
  <2>3. claim' = claim => ClaimAt(j, "create", r, age)'
    BY <1>0, <1>1, <1>4 DEF AcceptVerify, ClaimAt, Secured, Elsewhere
  <2> QED BY <1>0, <1>1, <1>4, <2>1, <2>2, <2>3, ClaimStep
          DEF AcceptVerify, RefuseAccept, PC
<1>5. CASE AcceptCreate(p)
  <2>1. PICK s \in JobRec :
          s = [r EXCEPT !.status = "accepted", !.created = now]
    BY <1>2, RecTypes DEF Status, Runnable, Pending
  <2>2. /\ job'[j] = s /\ Step(p, "index", s) /\ claim' = claim
        /\ authKey'[j] = now + ClaimTTL
    BY <1>1, <1>5, <2>1 DEF AcceptCreate, SaveJob, TypeInv, StoreOK
  <2>3. ClaimsKept(p)
    BY <1>1, <2>2, ClaimMoves
  <2>4. Secured(j, now + ClaimTTL - 1) /\ r.held = "job"
    BY <1>1, <1>2, <1>5
    DEF AcceptCreate, ClaimAt, Secured, Claim, TypeInv, StoreOK
  <2>5. ClaimJob(j)'
    BY <2>1, <2>2, <2>4 DEF ClaimJob, Secured, Term, JobRec
  <2>6. ClaimAt(j, "index", s, age)'
    BY DEF ClaimAt
  <2> QED BY <1>0, <1>1, <2>2, <2>3, <2>5, <2>6, ClaimStep DEF PC
<1>6. CASE AcceptIndex(p)
  <2>1. ClaimsKept(p)
    BY <1>1, <1>6, ClaimMoves DEF AcceptIndex
  <2>2. ClaimJob(j)'
    BY <1>1, <1>6 DEF AcceptIndex, ClaimJob, Kept, Secured, Term
  <2> QED BY <1>0, <1>1, <1>6, <2>1, <2>2, ClaimStep DEF AcceptIndex, Told
<1> QED BY <1>3, <1>4, <1>5, <1>6

\* A run on its way to the settle keeps its job's claim.
LEMMA RunClaims ==
  ASSUME CasHolds, TypeInv, SoloInv, ClaimInv, NEW p \in Procs,
         Run(p) \/ WorkFails(p)
  PROVE  ClaimInv'
<1>0. Elsewhere(p) /\ pc[p] # "idle" /\ UNCHANGED <<claim, authKey, now>>
  BY OthersUntouched
  DEF Moves, Run, WorkFails, Load, SaveRunning, Checkpoint, Build, SaveBuilt,
      AfterBuilt, Probe, NotLanded, Elsewhere
<1>1. PICK j \in Jobs, q \in JobRec, age \in {0, 1} :
        j = on[p] /\ q = job[j] /\ age = Age(p) /\ ClaimJob(j)
  BY <1>0 DEF TypeInv, ProcsOK, StoreOK, ClaimInv, Age
<1>2. ClaimsKept(p)
  BY <1>0, <1>1, ClaimMoves
<1>3. job'[j] = job[j] => ClaimJob(j)'
  BY <1>0, <1>1 DEF ClaimJob, Kept, Secured, Term
<1>4. CASE Load(p)
  <2>1. job' = job
    BY <1>4 DEF Load
  <2>2. CASE GiveUp(p, q, "budget")
    <3>1. PICK s \in JobRec : Step(p, "release", s)
      BY <2>2, RecTypes DEF GiveUp, Failure
    <3> QED BY <1>0, <1>1, <1>2, <1>3, <2>1, <3>1, ClaimStep DEF ClaimAt, PC
  <2>3. CASE /\ now <= q.created + Budget
             /\ \/ Step(p, "running", [q EXCEPT !.status = "running"])
                \/ Step(p, "built", q)
    <3>1. PICK s \in JobRec : s = [q EXCEPT !.status = "running"]
      BY RecTypes DEF Status, Runnable, Pending
    <3>2. ASSUME NEW c \in {s, q}, NEW l \in {"running", "built"}
          PROVE  ClaimAt(j, l, c, age)'
      <4>1. c.created = q.created /\ c.held = q.held /\ q.created \in Nat
        BY <3>1 DEF JobRec
      <4> QED BY <1>0, <1>1, <2>1, <2>3, <4>1, ConstantsAssumption
              DEF ClaimAt, InTime, TypeInv, WorldOK
    <3> QED BY <1>0, <1>1, <1>2, <1>3, <2>1, <2>3, <3>1, <3>2, ClaimStep DEF PC
  <2>4. CASE Step(p, "probe", q)
    BY <1>0, <1>1, <1>2, <1>3, <2>1, <2>4, ClaimStep DEF ClaimAt, PC
  <2>5. CASE Stop(p)
    BY <1>0, <1>1, <1>2, <1>3, <2>1, <2>5, ClaimStep
  <2> QED BY <1>1, <1>4, <2>2, <2>3, <2>4, <2>5 DEF Load
<1>5. ASSUME ~Load(p)
      PROVE  \E r \in JobRec :
               /\ r = copy[p] /\ Told(j, q) /\ Told(j, r)
               /\ Agree(pc[p], q, r) /\ ClaimAt(j, pc[p], r, age)
  BY <1>0, <1>1, <1>5, ClaimHead
  DEF Run, WorkFails, SaveRunning, Checkpoint, Build, SaveBuilt,
      AfterBuilt, Probe, NotLanded
<1>6. CASE SaveRunning(p) \/ SaveBuilt(p)
  <2>1. PICK r \in JobRec :
               /\ r = copy[p] /\ Agree(pc[p], q, r) /\ ClaimAt(j, pc[p], r, age)
    BY <1>5, <1>6 DEF SaveRunning, SaveBuilt, Load
  <2>2. job'[j] = r
    BY <1>1, <1>6, <2>1 DEF SaveRunning, SaveBuilt, SaveJob, TypeInv, StoreOK
  <2>3. /\ r.created = q.created /\ r.held = q.held /\ InTime(r, age)
        /\ q.status \in Pending /\ r.status \in Pending
    BY <1>1, <1>6, <2>1 DEF SaveRunning, SaveBuilt, ClaimAt, Agree, Pending
  <2>4. ClaimJob(j)'
    BY <1>0, <1>1, <2>2, <2>3 DEF ClaimJob, Kept, Secured, Term, Pending
  <2>5. ClaimAt(j, "work", r, age)' /\ ClaimAt(j, "built", r, age)'
    BY <1>0, <2>2, <2>3 DEF ClaimAt, InTime
  <2> QED BY <1>0, <1>1, <1>2, <1>6, <2>1, <2>4, <2>5, ClaimStep
          DEF SaveRunning, SaveBuilt, PC
<1>7. CASE Checkpoint(p)
  <2>1. PICK r \in JobRec :
               /\ r = copy[p] /\ Agree(pc[p], q, r) /\ ClaimAt(j, pc[p], r, age)
    BY <1>5, <1>7 DEF Checkpoint, Load
  <2>2. PICK s \in JobRec : s = [r EXCEPT !.steps = @ + 1]
    BY <1>7, <2>1, RecTypes DEF Checkpoint
  <2>3. job'[j] = s
    BY <1>1, <1>7, <2>1, <2>2 DEF Checkpoint, SaveJob, TypeInv, StoreOK
  <2>4. /\ s.created = q.created /\ s.held = q.held /\ InTime(s, age)
        /\ q.status \in Pending /\ s.status \in Pending
    BY <1>1, <1>7, <2>1, <2>2
    DEF Checkpoint, ClaimAt, Agree, Pending, JobRec, InTime
  <2>5. ClaimJob(j)'
    BY <1>0, <1>1, <2>3, <2>4 DEF ClaimJob, Kept, Secured, Term, Pending
  <2>6. ClaimAt(j, "work", s, age)'
    BY <1>0, <2>3, <2>4 DEF ClaimAt, InTime
  <2> QED BY <1>0, <1>1, <1>2, <1>7, <2>1, <2>2, <2>5, <2>6, ClaimStep
          DEF Checkpoint, PC
<1>8. CASE Build(p)
  <2>1. PICK r \in JobRec :
               /\ r = copy[p] /\ Agree(pc[p], q, r) /\ ClaimAt(j, pc[p], r, age)
    BY <1>5, <1>8 DEF Build, Load
  <2>2. PICK s \in JobRec : s = [r EXCEPT !.status = "built"]
    BY RecTypes DEF Status, Runnable, Pending
  <2>3. job' = job
    BY <1>8 DEF Build
  <2>4. ClaimAt(j, "compiled", s, age)'
    BY <1>0, <1>1, <1>8, <2>1, <2>2, <2>3 DEF Build, ClaimAt, InTime, JobRec
  <2> QED BY <1>0, <1>1, <1>2, <1>3, <1>8, <2>1, <2>2, <2>3, <2>4, ClaimStep
          DEF Build, PC
<1>9. CASE AfterBuilt(p)
  <2>1. PICK r \in JobRec :
               r = copy[p] /\ Told(j, r) /\ ClaimAt(j, pc[p], r, age)
    BY <1>5, <1>9 DEF AfterBuilt, Load
  <2>2. job' = job
    BY <1>9 DEF AfterBuilt
  <2>3. ClaimAt(j, "auth", r, age)' /\ ~r.prepaid
    BY <1>0, <1>1, <1>9, <2>1, <2>2 DEF AfterBuilt, ClaimAt, InTime, Told
  <2> QED BY <1>0, <1>1, <1>2, <1>3, <1>9, <2>1, <2>2, <2>3, ClaimStep
          DEF AfterBuilt, PC
<1>10. CASE Probe(p)
  <2>1. PICK r \in JobRec :
               r = copy[p] /\ Told(j, r) /\ Agree(pc[p], q, r)
    BY <1>5, <1>10 DEF Probe, Load
  <2>2. job' = job /\ Kept(j)'
    BY <1>0, <1>1, <1>10, <2>1 DEF Probe, Agree, ClaimJob, Kept
  <2>3. ClaimAt(j, "deliver", r, age)' /\ ClaimAt(j, "not_landed", r, age)'
    BY <2>2 DEF ClaimAt
  <2> QED BY <1>0, <1>1, <1>2, <1>3, <1>10, <2>1, <2>2, <2>3, ClaimStep
          DEF Probe, PC, Told
<1>11. CASE NotLanded(p)
  <2>1. PICK s \in JobRec : s = FailsWith(copy[p], "never_landed")
    BY RecTypes DEF Failure, TypeInv, ProcsOK
  <2>2. job' = job /\ ClaimAt(j, "release", s, age)'
    BY <1>11 DEF NotLanded, ClaimAt
  <2> QED BY <1>0, <1>1, <1>2, <1>3, <1>11, <2>1, <2>2, ClaimStep
          DEF NotLanded, PC
<1>12. CASE WorkFails(p)
  <2>1. PICK s \in JobRec : Step(p, "release", s)
    BY <1>12, RecTypes DEF WorkFails, GiveUp, Failure, TypeInv, ProcsOK
  <2>2. job' = job /\ ClaimAt(j, "release", s, age)'
    BY <1>12 DEF WorkFails, ClaimAt
  <2> QED BY <1>0, <1>1, <1>2, <1>3, <2>1, <2>2, ClaimStep DEF PC
<1> QED BY <1>4, <1>6, <1>7, <1>8, <1>9, <1>10, <1>11, <1>12 DEF Run

\* A claim that is there for the taking is moved.
LEMMA ClaimMoved ==
  ASSUME CasHolds, TypeInv, NEW p \in Procs, NEW j \in Jobs, j = on[p],
         NEW age \in {0, 1}, NEW s \in {"unconfirmed", "settled"},
         NEW held \in ClaimState, MoveClaim(p, s, held),
         Kept(j) \/ Secure(j, copy[p], age)
  PROVE  Kept(j)'
<1>1. AuthOf[j] \in Auths /\ A(p) = AuthOf[j] /\ claim \in [Auths -> Claim]
  BY ConstantsAssumption DEF A, TypeInv, StoreOK
<1>2. OwnsClaim(p) => Kept(j)'
  BY <1>1 DEF OwnsClaim, MoveClaim, MovedClaim, Kept, CasHolds
<1>3. CASE ~OwnsClaim(p)
  <2>1. claim' = claim
    BY <1>3 DEF MoveClaim
  <2>2. ~Secure(j, copy[p], age)
    <3>1. /\ copy[p].created \in Nat /\ now \in Nat
          /\ ClaimTTL \in Nat /\ Budget \in Nat /\ Budget + 2 < ClaimTTL
          /\ claim[AuthOf[j]].exp \in Nat
      BY <1>1, ConstantsAssumption, TimingAssumption
      DEF TypeInv, ProcsOK, WorldOK, JobRec, Claim
    <3>2. Secure(j, copy[p], age) => claim[AuthOf[j]].exp > now
      BY <3>1 DEF Secure, InTime, Secured, Term
    <3> QED BY <1>1, <1>3, <3>2 DEF Secure, Secured, OwnsClaim, LiveClaim
  <2> QED BY <2>1, <2>2 DEF Kept
<1> QED BY <1>2, <1>3

LEMMA SettleClaims ==
  ASSUME CasHolds, TypeInv, SoloInv, ClaimInv, NEW p \in Procs, Settle(p)
  PROVE  ClaimInv'
<1>0. Elsewhere(p) /\ now' = now
  BY OthersUntouched DEF Moves, Elsewhere
<1>1. PICK j \in Jobs, q \in JobRec, r \in JobRec, age \in {0, 1} :
        /\ j = on[p] /\ q = job[j] /\ r = copy[p] /\ age = Age(p)
        /\ Told(j, q) /\ Told(j, r) /\ Agree(pc[p], q, r)
        /\ ClaimJob(j) /\ ClaimAt(j, pc[p], r, age)
  BY ClaimHead DEF Settle, ReadAuth, SendSettle, SettleOk, SettleFails,
     HoldClaim, Prepay, Deliver, FailRelease, Unindex, Save
<1>2. ASSUME UNCHANGED <<claim, authKey, job>>
      PROVE  ClaimsKept(p) /\ ClaimJob(j)'
  BY <1>0, <1>1, <1>2, ClaimMoves DEF ClaimJob, Kept, Secured, Term
<1>3. CASE ReadAuth(p)
  <2>1. UNCHANGED <<claim, authKey, job>>
    BY <1>3 DEF ReadAuth, store
  <2>2. PICK s1, s2, s3 \in JobRec :
          /\ s1 = FailsWith(r, "authorization_missing")
          /\ s2 = FailsWith(r, "authorization_expired")
          /\ s3 = [r EXCEPT !.status = "settling"]
    BY RecTypes DEF Failure, Status
  <2>3. ClaimAt(j, "release", s1, age)' /\ ClaimAt(j, "release", s2, age)'
    BY DEF ClaimAt
  <2>4. authKey[j] > now => Secure(j, r, age)
    <3>1. /\ authKey[j] \in Nat /\ now \in Nat /\ q.created \in Nat
          /\ ClaimTTL \in Nat /\ Budget \in Nat /\ Budget + 2 < ClaimTTL
      BY <1>1, ConstantsAssumption, TimingAssumption
      DEF TypeInv, StoreOK, WorldOK, JobRec
    <3>2. /\ r.created = q.created /\ r.held = q.held /\ InTime(r, age)
          /\ q.status \in Pending
      BY <1>1, <1>3 DEF ReadAuth, ClaimAt, Agree, Pending
    <3>3. now < Term(q) /\ Term(r) = Term(q)
      BY <3>1, <3>2 DEF Term, InTime
    <3> QED BY <1>1, <3>1, <3>2, <3>3 DEF ClaimJob, Secure
  <2>5. authKey[j] > now => ClaimAt(j, "send", s3, age)'
    BY <1>0, <2>1, <2>2, <2>4 DEF ClaimAt, Secure, InTime, Secured, Term, JobRec
  <2> QED BY <1>0, <1>1, <1>2, <1>3, <2>1, <2>2, <2>3, <2>5, ClaimStep
          DEF ReadAuth, HasAuth, PC
<1>4. CASE SendSettle(p)
  <2>1. job'[j] = r /\ UNCHANGED <<claim, authKey>> /\ Secure(j, r, age)
    BY <1>1, <1>4 DEF SendSettle, SaveJob, TypeInv, StoreOK, ClaimAt
  <2>2. ClaimJob(j)' /\ ClaimAt(j, "call", r, age)'
    BY <1>0, <1>1, <1>4, <2>1
    DEF SendSettle, Agree, ClaimJob, Pending, ClaimAt, Secure, InTime, Secured
  <2>3. ClaimsKept(p)
    BY <1>1, <2>1, ClaimMoves
  <2> QED BY <1>0, <1>1, <1>4, <2>2, <2>3, ClaimStep DEF SendSettle, PC
<1>5. CASE SettleOk(p)
  <2>1. UNCHANGED <<claim, authKey, job>> /\ mode[p] = "run"
    BY <1>5, SoloAt DEF SettleOk, store, Early
  <2>2. ClaimAt(j, "deliver", r, age)'
    BY <1>0, <1>1, <1>5, <2>1 DEF SettleOk, ClaimAt, Secure, InTime, Secured
  <2> QED BY <1>0, <1>1, <1>2, <1>5, <2>1, <2>2, ClaimStep DEF SettleOk, PC
<1>6. CASE SettleFails(p)
  <2>1. UNCHANGED <<claim, authKey, job>>
    BY <1>6 DEF SettleFails, store
  <2>2. PICK s \in JobRec : s = [r EXCEPT !.status = "settle_unconfirmed"]
    BY RecTypes DEF Status, Runnable
  <2>3. ClaimAt(j, "hold", s, age)'
    BY <1>0, <1>1, <1>6, <2>1, <2>2
    DEF SettleFails, ClaimAt, Secure, InTime, Secured, Term, JobRec
  <2> QED BY <1>0, <1>1, <1>2, <1>6, <2>1, <2>2, <2>3, ClaimStep
          DEF SettleFails, Unconfirmed, PC
<1>7. CASE HoldClaim(p)
  <2>1. PICK held \in ClaimState :
          MoveClaim(p, "unconfirmed", held) /\ Step(p, "save", [r EXCEPT !.held = held])
    BY <1>1, <1>7 DEF HoldClaim
  <2>2. PICK s \in JobRec : s = [r EXCEPT !.held = held]
    BY RecTypes
  <2>3. ClaimsKept(p)
    BY <1>1, <2>1, ClaimMoves DEF ClaimState
  <2>4. Kept(j)'
    BY <1>1, <1>7, <2>1, ClaimMoved DEF HoldClaim, ClaimAt
  <2>5. ClaimJob(j)'
    BY <1>1, <1>7, <2>4 DEF HoldClaim, Agree, ClaimJob, Pending
  <2>6. ClaimAt(j, "save", s, age)'
    BY <2>4 DEF ClaimAt
  <2> QED BY <1>0, <1>1, <2>1, <2>2, <2>3, <2>5, <2>6, ClaimStep DEF PC
<1>8. CASE Deliver(p)
  <2>1. PICK held \in ClaimState : MoveClaim(p, "settled", held)
    BY <1>8 DEF Deliver
  <2>2. PICK s \in JobRec : s = [Charged(r) EXCEPT !.status = "delivered"]
    BY RecTypes
  <2>3. ClaimsKept(p)
    BY <1>1, <2>1, ClaimMoves DEF ClaimState
  <2>4. Kept(j)'
    BY <1>1, <1>8, <2>1, ClaimMoved DEF Deliver, ClaimAt
  <2>5. ClaimJob(j)'
    BY <1>1, <1>8, <2>4 DEF Deliver, ClaimJob, TypeInv, StoreOK
  <2>6. ClaimAt(j, "unindex", s, age)'
    BY <2>4 DEF ClaimAt
  <2> QED BY <1>0, <1>1, <1>8, <2>2, <2>3, <2>5, <2>6, ClaimStep DEF Deliver, PC
<1>9. CASE FailRelease(p)
  <2>1. ClaimsKept(p)
    BY <1>1, <1>9, ClaimMoves DEF FailRelease
  <2>2. /\ r.status = "failed_uncharged"
        /\ q.status \in Pending \cup {"settle_unconfirmed"}
        /\ q.status = "settle_unconfirmed" => r.failure = "never_landed"
    BY <1>1, <1>9 DEF FailRelease, Agree, Told
  <2>3. authKey'[j] = 0 /\ job' = job
    BY <1>1, <1>9, <2>2 DEF FailRelease, TypeInv, StoreOK
  <2>4. q.status = "settle_unconfirmed" => Kept(j)'
    BY <1>1, <1>9, <2>2 DEF FailRelease, ClaimJob, Kept
  <2>5. ClaimJob(j)'
    BY <1>1, <2>2, <2>3, <2>4 DEF ClaimJob, Pending
  <2>6. ClaimAt(j, "unindex", r, age)'
    BY <2>2 DEF ClaimAt
  <2> QED BY <1>0, <1>1, <1>9, <2>1, <2>5, <2>6, ClaimStep DEF FailRelease, PC
<1>10. CASE Unindex(p)
  <2>1. UNCHANGED <<claim, authKey, job>>
    BY <1>10 DEF Unindex
  <2>2. ClaimAt(j, "save", r, age)'
    BY <1>0, <1>1, <1>10, <2>1 DEF Unindex, ClaimAt, Kept
  <2> QED BY <1>0, <1>1, <1>2, <1>10, <2>1, <2>2, ClaimStep DEF Unindex, PC
<1>11. CASE Save(p)
  <2>1. job'[j] = r /\ UNCHANGED <<claim, authKey>>
    BY <1>1, <1>11 DEF Save, SaveJob, TypeInv, StoreOK
  <2>2. ClaimsKept(p)
    BY <1>1, <2>1, ClaimMoves
  <2>3. ClaimJob(j)'
    BY <1>1, <1>11, <2>1
    DEF Save, Agree, ClaimAt, ClaimJob, Kept, Pending
  <2> QED BY <1>0, <1>1, <1>11, <2>2, <2>3, ClaimStep DEF Save
<1>12. ~Prepay(p)
  BY <1>1 DEF Prepay, Agree
<1> QED BY <1>3, <1>4, <1>5, <1>6, <1>7, <1>8, <1>9, <1>10, <1>11, <1>12
        DEF Settle

LEMMA NextClaims ==
  ASSUME SettleLast, CasHolds
  PROVE  TypeInv /\ SoloInv /\ ClaimInv /\ [Next]_vars => ClaimInv'
<1> SUFFICES ASSUME TypeInv, SoloInv, ClaimInv, [Next]_vars PROVE ClaimInv'
  OBVIOUS
<1>1. CASE UNCHANGED vars
  BY <1>1 DEF vars, store, world, procs, ClaimInv, ClaimProc,
     ClaimJob, ClaimAt, Kept, Secure, Secured, InTime, Term, Age
<1>2. ASSUME NEW p \in Procs,
             \/ AcceptClaim(p) \/ AcceptVerify(p)
             \/ AcceptCreate(p) \/ AcceptIndex(p)
             \/ Run(p) \/ Settle(p) \/ WorkFails(p)
      PROVE  ClaimInv'
  BY <1>2, AcceptClaims, RunClaims, SettleClaims
<1>3. ASSUME NEW p \in Procs, Crash(p) \/ ThrowRun(p) \/ ThrowAccept(p)
      PROVE  ClaimInv'
  <2>1. /\ Elsewhere(p) /\ on[p] \in Jobs /\ Stop(p)
        /\ UNCHANGED <<job, claim, authKey, now>>
    BY <1>3, OthersUntouched
    DEF Moves, Crash, ThrowRun, ThrowAccept, RefuseAccept, store
  <2>2. PICK j \in Jobs, age \in {0, 1} : j = on[p] /\ age = Age(p)
    BY <2>1 DEF Age
  <2>3. ClaimJob(j)'
    BY <2>1 DEF ClaimInv, ClaimJob, Kept, Secured, Term
  <2>4. ClaimsKept(p)
    BY <2>1, ClaimMoves
  <2> QED BY <2>1, <2>2, <2>3, <2>4, ClaimStep
<1>4. ASSUME NEW p \in Procs
      PROVE  ~ThrowSettleFirst(p)
  <2>1. pc[p] = "load" => mode[p] = "run"
    BY DEF SoloInv, ProcFact, Early
  <2> QED BY <2>1, SoloAt DEF ThrowSettleFirst, Early
<1>5. ASSUME NEW p \in Procs, NEW j \in Jobs,
             \/ Start(p, j)
             \/ \E first \in SettleFirst : AcceptReserve(p, j, first)
      PROVE  ClaimInv'
  <2>1. /\ pc'[p] \in {"load", "claim"}
        /\ UNCHANGED <<job, claim, authKey, now, aged>>
        /\ \A q \in Procs \ {p} : pc'[q] = pc[q] /\ on'[q] = on[q]
                                  /\ copy'[q] = copy[q]
    BY <1>5 DEF Start, AcceptReserve, Goto, SetCopy, world, TypeInv, ProcsOK
  <2> QED BY <2>1 DEF ClaimInv, ClaimProc,
          ClaimJob, ClaimAt, Kept, Secure, Secured, InTime, Term, Age
<1>6. CASE \E a \in Auths : Land(a) \/ Cancel(a)
  BY <1>6 DEF Land, Cancel, store, procs, ClaimInv, ClaimProc,
     ClaimJob, ClaimAt, Kept, Secure, Secured, InTime, Term, Age
<1>7. CASE Tick
  <2>1. /\ UNCHANGED <<job, claim, authKey, pc, on, copy>>
        /\ now \in Nat /\ now' = now + 1
    BY <1>7 DEF Tick, TypeInv, WorldOK
  <2>2. ASSUME NEW q \in Procs, pc[q] # "idle"
        PROVE  ClaimProc(q)'
    <3>1. PICK k \in Jobs, l \in PC, r \in JobRec :
            /\ k = on[q] /\ l = pc[q] /\ r = copy[q] /\ ClaimAt(k, l, r, 0)
            /\ job[k].created \in Nat /\ claim[AuthOf[k]].exp \in Nat
            /\ r.created \in Nat
      BY <1>7, <2>2, ConstantsAssumption
      DEF Tick, TypeInv, ProcsOK, StoreOK, ClaimInv, ClaimProc, JobRec, Claim,
          Age
    <3>2. Age(q)' = 1
      BY <1>7, <2>2 DEF Tick, Age
    <3>3. ClaimAt(k, l, r, 1)'
      BY <2>1, <3>1, ConstantsAssumption
      DEF ClaimAt, Kept, Secure, Secured, InTime, Term
    <3> QED BY <2>1, <3>1, <3>2, <3>3 DEF ClaimProc
  <2>3. ASSUME NEW k \in Jobs
        PROVE  ClaimJob(k)'
    <3>1. job[k].created \in Nat /\ ClaimJob(k)
      BY DEF ClaimInv, TypeInv, StoreOK, JobRec
    <3> QED BY <2>1, <3>1, ConstantsAssumption DEF ClaimJob, Kept, Secured, Term
  <2> QED BY <2>1, <2>2, <2>3 DEF ClaimInv, ClaimProc
<1> QED BY <1>1, <1>2, <1>3, <1>4, <1>5, <1>6, <1>7 DEF Next, Accept

LEMMA AlwaysClaimInv ==
  ASSUME SettleLast, CasHolds
  PROVE  Spec => []ClaimInv
<1>1. Init => ClaimInv
  BY DEF Init, ClaimInv, ClaimJob, ClaimProc, NoRec, Pending
<1>2. TypeInv /\ SoloInv /\ ClaimInv /\ [Next]_vars => ClaimInv'
  BY NextClaims
<1> QED BY <1>1, <1>2, AlwaysTypeInv, AlwaysSoloInv, PTL DEF Spec

\* claim.ts:3 and jobs.ts:382: while a settle request is out its job owns the
\* authorization's claim, and an unconfirmed settle keeps it for good; so
\* nobody else is accepted on an authorization that may be charged.
THEOREM ClaimAlwaysHeld ==
  ASSUME SettleLast, CasHolds
  PROVE  Spec => []ClaimHeld
<1>1. TypeInv /\ ClaimInv => ClaimHeld
  <2> SUFFICES ASSUME TypeInv, ClaimInv PROVE ClaimHeld
    OBVIOUS
  <2>1. ASSUME NEW p \in Procs, pc[p] = "call"
        PROVE  OwnsClaim(p)
    <3>1. Secure(on[p], copy[p], Age(p))
      BY <2>1 DEF ClaimInv, ClaimProc, ClaimAt
    <3>2. /\ copy[p].created \in Nat /\ now \in Nat
          /\ ClaimTTL \in Nat /\ Budget \in Nat /\ Budget + 2 < ClaimTTL
          /\ claim[AuthOf[on[p]]].exp \in Nat
      BY <2>1, ConstantsAssumption, TimingAssumption
      DEF TypeInv, ProcsOK, StoreOK, WorldOK, JobRec, Claim
    <3>3. claim[AuthOf[on[p]]].exp > now
      BY <3>1, <3>2 DEF Secure, Secured, InTime, Term, Age
    <3> QED BY <3>1, <3>3 DEF Secure, Secured, OwnsClaim, LiveClaim, A
  <2>2. UnconfirmedHoldsClaim
    BY DEF ClaimInv, ClaimJob, Kept, UnconfirmedHoldsClaim
  <2> QED BY <2>1, <2>2 DEF ClaimHeld, ClaimCoversSettle
<1> QED BY <1>1, AlwaysTypeInv, AlwaysClaimInv, PTL

\* One authorization pays for one job: of the requests that carry the same
\* (from, nonce) at most one is ever delivered (claim.ts:3).
THEOREM OneDelivery ==
  ASSUME SettleLast, CasHolds
  PROVE  Spec => []OneDeliveryPerAuthorization
<1>1. ClaimInv => OneDeliveryPerAuthorization
  BY DEF ClaimInv, ClaimJob, Kept, OneDeliveryPerAuthorization
<1> QED BY <1>1, AlwaysClaimInv, PTL

----------------------------------------------------------------------------
(* The jobs implement the contract of an asynchronous purchase. *)

Out == [j \in Jobs |-> Outcome(job[j])]
Built == {j \in Jobs : result[j]}

\* What a written record does to the outcomes.
LEMMA OutcomeMoves ==
  ASSUME TypeInv, NEW j \in Jobs, NEW r \in JobRec,
         job' = [job EXCEPT ![j] = r]
  PROVE  /\ Out' = [Out EXCEPT ![j] = Outcome(r)]
         /\ Outcome(r) = Outcome(job[j]) => Out' = Out
<1>1. \A k \in Jobs : job'[k] = IF k = j THEN r ELSE job[k]
  BY DEF TypeInv, StoreOK
<1>2. \A k \in Jobs : Out'[k] = IF k = j THEN Outcome(r) ELSE Out[k]
  BY <1>1 DEF Out, Outcome
<1>3. /\ Out = [k \in Jobs |-> Out[k]] /\ Out' = [k \in Jobs |-> Out'[k]]
      /\ Out[j] = Outcome(job[j])
  BY DEF Out
<1> QED BY <1>2, <1>3

\* A record that is neither none nor final is of an open purchase.
LEMMA OpenOutcome ==
  ASSUME NEW r, r.status \in Runnable \cup {"settling"}
  PROVE  Outcome(r) = "open"
  BY DEF Outcome, Runnable, Pending

\* The contract's actions, of the outcomes and results of the jobs.
LEMMA ContractActions ==
  ASSUME NEW j \in Jobs, UNCHANGED chain
  PROVE  /\ Built' = Built /\ sent' = sent /\ Out[j] = "none"
            /\ Out' = [Out EXCEPT ![j] = "open"] => Contract!Open(j)
         /\ Out' = Out /\ sent' = sent /\ Out[j] = "open"
            /\ Built' = Built \cup {j} => Contract!Build(j)
         /\ Out' = Out /\ Built' = Built /\ Out[j] = "open" /\ j \in Built
            /\ sent' = sent \cup {j} => Contract!Ask(j)
         /\ Built' = Built /\ sent' = sent /\ Out[j] = "open" /\ j \notin sent
            /\ Out' = [Out EXCEPT ![j] = "failed"] => Contract!Fail(j)
         /\ Built' = Built /\ sent' = sent /\ Out[j] = "open" /\ j \in sent
            /\ Out' = [Out EXCEPT ![j] = "lost"] => Contract!Lose(j)
         /\ Built' = Built /\ sent' = sent /\ Out[j] = "open"
            /\ j \in Built /\ chain[AuthOf[j]] = "charged"
            /\ (\A k \in Jobs : AuthOf[k] = AuthOf[j] => Out[k] # "delivered")
            /\ Out' = [Out EXCEPT ![j] = "delivered"] => Contract!Deliver(j)
<1>1. ASSUME NEW o,
             Out' = [Out EXCEPT ![j] = o] /\ Built' = Built /\ sent' = sent
      PROVE  Contract!Decide(j, o)
  BY <1>1 DEF Contract!Decide, Out, Built
<1>2. Out[j] = "none" /\ Contract!Decide(j, "open") => Contract!Open(j)
  BY DEF Contract!Open, Out
<1>3. Out[j] = "open" /\ Built' = Built \cup {j} /\ Out' = Out /\ sent' = sent
        => Contract!Build(j)
  BY DEF Contract!Build, Out, Built
<1>4. ASSUME Out[j] = "open", j \in Built, sent' = sent \cup {j},
             Out' = Out, Built' = Built
      PROVE  Contract!Ask(j)
  BY <1>4 DEF Contract!Ask, Out, Built
<1>5. /\ Out[j] = "open" /\ j \notin sent /\ Contract!Decide(j, "failed")
           => Contract!Fail(j)
      /\ Out[j] = "open" /\ j \in sent /\ Contract!Decide(j, "lost")
           => Contract!Lose(j)
  BY DEF Contract!Fail, Contract!Lose, Out
<1>6. ASSUME Out[j] = "open", j \in Built, chain[AuthOf[j]] = "charged",
             \A k \in Jobs : AuthOf[k] = AuthOf[j] => Out[k] # "delivered",
             Contract!Decide(j, "delivered")
      PROVE  Contract!Deliver(j)
  BY <1>6 DEF Contract!Deliver, Contract!Paid, Out, Built
<1> QED BY <1>1, <1>2, <1>3, <1>4, <1>5, <1>6

LEMMA WritesImplement ==
  ASSUME SettleLast, CasHolds, TypeInv, SafeInv, SoloInv, ClaimInv,
         NEW p \in Procs, Writes(p), UNCHANGED chain
  PROVE  Contract!Next \/ UNCHANGED Contract!contract
<1>1. PICK j \in Jobs, q \in JobRec, r \in JobRec, age \in {0, 1} :
        /\ j = on[p] /\ q = job[j] /\ r = copy[p] /\ age = Age(p)
        /\ Told(j, q) /\ Told(j, r) /\ Agree(pc[p], q, r)
        /\ ClaimJob(j) /\ ClaimAt(j, pc[p], r, age)
  BY ClaimHead DEF Writes, AcceptCreate, SaveRunning, Checkpoint, Build,
     SaveBuilt, SendSettle, Save
<1>2. At(j, mode[p], pc[p], r)
  BY <1>1 DEF Writes, AcceptCreate, SaveRunning, Checkpoint, Build,
     SaveBuilt, SendSettle, Save, SafeInv, ProcInv, Stands
<1>3. /\ Contract!contract = <<Out, Built, sent, chain>>
      /\ Contract!contract' = <<Out', Built', sent', chain'>>
  BY DEF Contract!contract, Out, Built
<1>4. CASE AcceptCreate(p)
  <2>1. PICK s \in JobRec :
          s = [r EXCEPT !.status = "accepted", !.created = now]
    BY RecTypes DEF Status, Runnable, Pending, TypeInv, WorldOK
  <2>2. job' = [job EXCEPT ![j] = s] /\ UNCHANGED <<result, sent>>
    BY <1>1, <1>4, <2>1 DEF AcceptCreate, SaveJob, world
  <2>3. Outcome(s) = "open" /\ Out[j] = "none"
    BY <1>1, <1>4, <2>1
    DEF AcceptCreate, Agree, Out, Outcome, JobRec
  <2>4. Contract!Open(j)
    BY <2>2, <2>3, OutcomeMoves, ContractActions DEF Built
  <2> QED BY <2>4 DEF Contract!Next
<1>5. CASE SaveRunning(p) \/ Checkpoint(p) \/ SaveBuilt(p)
  <2>1. PICK s \in JobRec :
          /\ job' = [job EXCEPT ![j] = s] /\ UNCHANGED <<result, sent>>
          /\ s.status \in {"running", "built"}
    <3>1. [r EXCEPT !.steps = @ + 1].status = r.status
      BY DEF JobRec
    <3>2. Checkpoint(p) => [r EXCEPT !.steps = @ + 1] \in JobRec
      BY <1>1, RecTypes DEF Checkpoint
    <3> QED BY <1>1, <1>5, <3>1, <3>2
            DEF SaveRunning, Checkpoint, SaveBuilt, SaveJob, world, Agree
  <2>2. q.status \in Pending
    BY <1>1, <1>5 DEF SaveRunning, Checkpoint, SaveBuilt, Agree, Pending
  <2>3. Outcome(q) = "open" /\ Outcome(s) = "open"
    BY <2>1, <2>2, OpenOutcome DEF Runnable, Pending
  <2>4. Out' = Out /\ Built' = Built
    BY <1>1, <2>1, <2>3, OutcomeMoves DEF Built
  <2> QED BY <1>3, <2>1, <2>4
<1>6. CASE Build(p)
  <2>1. result' = [result EXCEPT ![j] = TRUE] /\ UNCHANGED <<job, sent>>
    BY <1>1, <1>6 DEF Build, world
  <2>2. Out[j] = "open" /\ Out' = Out
    BY <1>1, <1>6, <2>1, OpenOutcome
    DEF Build, Agree, Out, Outcome, Runnable, Pending
  <2>3. Built' = Built \cup {j}
    BY <2>1 DEF Built, TypeInv, StoreOK
  <2>4. Contract!Build(j)
    BY <2>1, <2>2, <2>3, ContractActions
  <2> QED BY <2>4 DEF Contract!Next
<1>7. CASE SendSettle(p)
  <2>1. /\ job' = [job EXCEPT ![j] = r] /\ sent' = sent \cup {j}
        /\ result' = result
    BY <1>1, <1>7 DEF SendSettle, SaveJob
  <2>2. q.status = "built" /\ r.status = "settling"
    BY <1>1, <1>7 DEF SendSettle, Agree
  <2>3. Out' = Out /\ Out[j] = "open"
    BY <1>1, <2>1, <2>2, OutcomeMoves, OpenOutcome DEF Out, Runnable, Pending
  <2>4. j \in Built /\ Built' = Built
    <3>1. mode[p] = "run"
      BY <1>7, SoloAt DEF SendSettle, Early
    <3> QED BY <1>2, <1>7, <2>1, <3>1 DEF SendSettle, At, Built
  <2>5. Contract!Ask(j)
    BY <2>1, <2>3, <2>4, ContractActions
  <2> QED BY <2>5 DEF Contract!Next
<1>8. CASE Save(p)
  <2>1. job' = [job EXCEPT ![j] = r] /\ UNCHANGED <<result, sent>>
    BY <1>1, <1>8 DEF Save, SaveJob
  <2>2. /\ Out[j] = "open"
        /\ r.status \in {"failed_uncharged", "delivered", "settle_unconfirmed"}
    BY <1>1, <1>8, OpenOutcome DEF Save, Agree, Out
  <2>3. CASE r.status = "settle_unconfirmed"
    <3>1. Out' = Out /\ Built' = Built
      BY <1>1, <2>1, <2>2, <2>3, OutcomeMoves, OpenOutcome
      DEF Out, Built, Runnable
    <3> QED BY <1>3, <2>1, <3>1
  <2>4. CASE r.status = "failed_uncharged"
    <3>1. Outcome(r) = IF j \in sent THEN "lost" ELSE "failed"
      BY <1>1, <2>4 DEF Outcome, Told
    <3>2. Out' = [Out EXCEPT ![j] = Outcome(r)] /\ Built' = Built
      BY <2>1, OutcomeMoves DEF Built
    <3>3. Contract!Fail(j) \/ Contract!Lose(j)
      <4>1. CASE j \in sent
        BY <2>1, <2>2, <3>1, <3>2, <4>1, ContractActions
      <4>2. CASE j \notin sent
        BY <2>1, <2>2, <3>1, <3>2, <4>2, ContractActions
      <4> QED BY <4>1, <4>2
    <3> QED BY <3>3 DEF Contract!Next
  <2>5. CASE r.status = "delivered"
    <3>1. Outcome(r) = "delivered"
      BY <2>5 DEF Outcome
    <3>2. Paid(j) /\ result[j]
      BY <1>2, <2>5 DEF At, Honest
    <3>3. ASSUME NEW k \in Jobs, AuthOf[k] = AuthOf[j], Out[k] = "delivered"
          PROVE  FALSE
      <4>1. job[k].status = "delivered"
        BY <3>3 DEF Out, Outcome
      <4>2. Kept(j) /\ Kept(k)
        BY <1>1, <1>8, <2>5, <4>1 DEF Save, ClaimAt, ClaimInv, ClaimJob
      <4> QED BY <2>2, <3>3, <4>2 DEF Kept
    <3>4. Contract!Deliver(j)
      <4>1. /\ Out' = [Out EXCEPT ![j] = "delivered"] /\ Built' = Built
            /\ j \in Built
        BY <2>1, <3>1, <3>2, OutcomeMoves DEF Built
      <4> QED BY <2>1, <2>2, <3>2, <3>3, <4>1, ContractActions DEF Paid
    <3> QED BY <3>4 DEF Contract!Next
  <2> QED BY <2>2, <2>3, <2>4, <2>5
<1> QED BY <1>4, <1>5, <1>6, <1>7, <1>8 DEF Writes

LEMMA NextImplements ==
  ASSUME SettleLast, CasHolds
  PROVE  TypeInv /\ SafeInv /\ SoloInv /\ ClaimInv /\ [Next]_vars
           => [Contract!Next]_Contract!contract
<1> SUFFICES ASSUME TypeInv, SafeInv, SoloInv, ClaimInv, [Next]_vars
             PROVE  Contract!Next \/ UNCHANGED Contract!contract
  OBVIOUS
<1>1. CASE UNCHANGED <<job, result, sent, chain>>
  BY <1>1 DEF Contract!contract, Outcome
<1>2. ASSUME NEW a \in Auths, Land(a) \/ Cancel(a),
             UNCHANGED <<job, result, sent>>
      PROVE  Contract!Charge(a) \/ Contract!Cancel(a)
  BY <1>2 DEF Land, Cancel, Contract!Charge, Contract!Cancel, Outcome,
     TypeInv, WorldOK
<1> QED BY <1>1, <1>2, WhoWrites, WritesImplement DEF Contract!Next

\* The purchase contract (PurchaseContract) holds of the detailed program:
\* every step of it is a step of the contract or no step at all.
THEOREM ContractImplemented ==
  ASSUME SettleLast, CasHolds
  PROVE  Spec => ImplementsContract
<1>1. Init => Contract!Init
  BY DEF Init, Contract!Init, Outcome, NoRec
<1>2. TypeInv /\ SafeInv /\ SoloInv /\ ClaimInv /\ [Next]_vars
        => [Contract!Next]_Contract!contract
  BY NextImplements
<1> QED BY <1>1, <1>2, AlwaysTypeInv, AlwaysSafeInv, AlwaysSoloInv,
           AlwaysClaimInv, PTL DEF Spec, Contract!Spec, ImplementsContract
=============================================================================
