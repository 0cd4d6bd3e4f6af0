------------------------------ MODULE WatchDays ------------------------------
(***************************************************************************)
(* The thirty days of a paid seller watch: stepWatchDays and stopWatch of    *)
(* lib/premium/jobs.ts with dayWindow and watchRefundAtomic of watch.ts.     *)
(*                                                                         *)
(* It starts where PremiumJobs delivers a watch (time 0 is watch.t0).  The   *)
(* daily cron and the buyer's polls call runJob, which works under a lease;  *)
(* an early stop is the operator's call and takes none.  Every invocation    *)
(* walks the days from the first with its own copy of the record and writes  *)
(* it back whole at the end.                                               *)
(*                                                                         *)
(* An invocation sees at most one tick (it lives 60 s at most); a day is     *)
(* PerDay ticks.                                                           *)
(***************************************************************************)
EXTENDS Integers, Sequences, FiniteSets, FiniteSetsExt

CONSTANTS Days,         \* WATCH_DAYS
          PerDay,       \* ticks in DAY_MS
          CronPhase,    \* the tick of the day at which the cron is due
          Price,        \* job.amount
          RefundAfter,  \* the 3 of watchRefundAtomic
          Procs, NoProc,
          StopAlone,    \* is an early stop made while nothing else runs?
          MaxTime,      \* bound: last tick of the clock
          MaxFaults,    \* bound: crashes and store errors
          MaxLost,      \* bound: checks and cron runs that do not happen
          MaxPolls,     \* bound: polls of the buyer
          MaxStops      \* bound: early stops

ASSUME WatchAssumption ==
  /\ {Days, PerDay, RefundAfter} \subseteq Nat \ {0}
  /\ {Price, MaxTime, MaxFaults, MaxLost, MaxPolls, MaxStops} \subseteq Nat
  /\ CronPhase \in 0..(PerDay - 1)
  /\ StopAlone \in BOOLEAN
  /\ NoProc \notin Procs

VARIABLES
  rec,       \* the watch part of job:<id>, with its status
  day,       \* day:<id>:<n>
  active,    \* the job's score in jobs:active (NoScore: not a member)
  lease,     \* lease:<id>
  lines,     \* refund_owed reconcile lines: amount of each, in order
  inv,       \* of each invocation: what it is about to do and what it knows
  now,
  swept,     \* has the cron been due and served at this tick?
  stops,     \* early stops asked for: their reasons
  stopped,   \* an early stop has returned to the operator
  count      \* of faults, lost checks, polls and stops so far

record == <<rec, day, active, lease, lines>>
around == <<now, swept, stops, stopped, count>>
vars   == <<record, around, inv>>

DayNums == 1..Days
NoScore == -1
NoRefund == -1
Ended   == {"completed", "stopped"}
StopReason == {"none", "ours", "abuse"}
Rec == [status: {"watching"} \cup Ended, missed: 0..Days, recorded: 0..Days,
        stop: StopReason, refund: Int]
Start0 == [status |-> "watching", missed |-> 0, recorded |-> 0,
           stop |-> "none", refund |-> NoRefund]


\* pc: the next step; mode: runJob or stopWatch; copy, at: the record and the
\* clock as read at the start; n: the day it looks at; aged: a tick began in it.
Invocation ==
  [pc: {"idle", "load", "look", "miss", "record", "unindex", "line",
        "index", "save"},
   mode: {"none", "run", "stop"}, copy: Rec, at: Nat, n: 0..(Days + 1),
   missed: 0..Days, recorded: 0..Days, aged: BOOLEAN]
Idle == [pc |-> "idle", mode |-> "none", copy |-> Start0, at |-> 0, n |-> 0,
         missed |-> 0, recorded |-> 0, aged |-> FALSE]

----------------------------------------------------------------------------
\* dayWindow: the state of day k at time t.
dayWindow(k, t) == CASE t < k * PerDay -> "pending"
                     [] k * PerDay <= t /\ t < (k + 1) * PerDay -> "due"
                     [] OTHER -> "closed"

\* watchRefundAtomic: the approved refund.
watchRefund(gone, notRun, stop) ==
  LET undelivered == gone + notRun IN
  IF \/ stop = "abuse"
     \/ ~(gone >= RefundAfter \/ stop = "ours")
     \/ undelivered <= 0
    THEN 0
    ELSE (Price * Min({Days, undelivered})) \div Days

\* Where the index looks next: the next window that opens, a day ahead at most.
NextScore(t) ==
  Min({k * PerDay : k \in {m \in DayNums : m * PerDay > t}} \cup {t + PerDay})

----------------------------------------------------------------------------
Init ==
  /\ rec = Start0
  /\ day = [k \in DayNums |-> "none"]
  /\ active = PerDay
  /\ lease = NoProc
  /\ lines = <<>>
  /\ now = 0 /\ swept = FALSE /\ stops = {} /\ stopped = FALSE
  /\ count = [faults |-> 0, lost |-> 0, polls |-> 0, stops |-> 0]
  /\ inv = [p \in Procs |-> Idle]

Bump(c, max) == count[c] < max /\ count' = [count EXCEPT ![c] = @ + 1]
At(p, l) == inv[p].pc = l
Goto(p, l) == inv' = [inv EXCEPT ![p].pc = l]
Leave(p) == inv' = [inv EXCEPT ![p] = Idle]
Quiet == \A q \in Procs : At(q, "idle")
\* runJob's finally.
Release(p) ==
  lease' = IF inv[p].mode = "run" /\ lease = p THEN NoProc ELSE lease

\* stepWatchDays begins with the record r: the clock is read once.
Enter(p, r, how) ==
  inv' = [inv EXCEPT ![p] = [@ EXCEPT !.pc = "look", !.mode = how,
                                      !.copy = r, !.at = now, !.n = 1]]

----------------------------------------------------------------------------
(* Who calls. *)

Called(p) ==
  /\ At(p, "idle")
  /\ StopAlone => \A q \in Procs : inv[q].mode # "stop"
  /\ lease' = p
  /\ inv' = [inv EXCEPT ![p].pc = "load", ![p].mode = "run"]
  /\ UNCHANGED <<rec, day, active, lines, now, stops, stopped>>

\* Mutant: the lease is not looked at.
MutRun(p) == Called(p)

\* runJob: nothing happens while somebody else holds the lease.
Run(p) == lease = NoProc /\ Called(p)

\* A poll of the token holder while the record is "watching".
Poll(p) == /\ rec.status = "watching"
           /\ Bump("polls", MaxPolls)
           /\ Run(p) /\ UNCHANGED swept

CronDue == now % PerDay = CronPhase /\ ~swept
\* The sweep finds the job due in the index and runs it, or finds it not due
\* or leased to somebody else, or does not get to it.
Cron(p) == /\ CronDue /\ active # NoScore /\ active <= now
           /\ Run(p) /\ swept' = TRUE /\ UNCHANGED count
CronPass == /\ CronDue
            /\ \/ active = NoScore \/ active > now \/ lease # NoProc
            /\ swept' = TRUE
            /\ UNCHANGED <<record, now, stops, stopped, count, inv>>
CronLost == /\ CronDue /\ swept' = TRUE
            /\ Bump("lost", MaxLost)
            /\ UNCHANGED <<record, now, stops, stopped, inv>>

\* runJob loads the record: anything but "watching" is left alone.
Load(p) ==
  /\ At(p, "load")
  /\ IF rec.status = "watching"
       THEN Enter(p, rec, "run") /\ UNCHANGED lease
       ELSE Release(p) /\ Leave(p)
  /\ UNCHANGED <<rec, day, active, lines, around>>

\* stopWatch: no lease is taken.
StopWatch(p, why) ==
  /\ At(p, "idle") /\ rec.status = "watching"
  /\ StopAlone => Quiet
  /\ Bump("stops", MaxStops)
  /\ Enter(p, [rec EXCEPT !.stop = why], "stop")
  /\ stops' = stops \cup {why}
  /\ UNCHANGED <<record, now, swept, stopped>>

----------------------------------------------------------------------------
(* stepWatchDays: one day after another. *)

Window(p) == dayWindow(inv[p].n, inv[p].at)
\* A day whose window has begun, to be counted or judged.
Begun(p) == At(p, "look") /\ inv[p].n <= Days /\ Window(p) # "pending"
Tally(i, v) == [i EXCEPT !.missed = @ + (IF v = "missed" THEN 1 ELSE 0),
                         !.recorded = @ + (IF v = "recorded" THEN 1 ELSE 0)]
NextDay(i) == [i EXCEPT !.n = @ + 1, !.pc = "look"]

\* Mutant: a day that was counted is counted again.
MutCount(p) ==
  /\ Begun(p) /\ day[inv[p].n] # "none"
  /\ inv' = [inv EXCEPT ![p] = Tally(@, day[@.n])]
  /\ UNCHANGED <<record, around>>

\* A day with a verdict is counted.
Count(p) ==
  /\ Begun(p) /\ day[inv[p].n] # "none"
  /\ inv' = [inv EXCEPT ![p] = NextDay(Tally(@, day[@.n]))]
  /\ UNCHANGED <<record, around>>

\* A day without one: closed or stopped, it will be missed; due, it is checked.
Judge(p) ==
  /\ Begun(p) /\ day[inv[p].n] = "none"
  /\ Goto(p, IF Window(p) = "closed" \/ inv[p].copy.stop # "none"
               THEN "miss" ELSE "record")
  /\ UNCHANGED <<record, around>>

\* Paused, too close to the deadline, or the check or its SET NX threw: the day
\* is not counted now (the SET NX may have been applied).
Skip(p) ==
  /\ At(p, "record") /\ Bump("lost", MaxLost)
  /\ \/ UNCHANGED day
     \/ /\ day[inv[p].n] = "none"
        /\ day' = [day EXCEPT ![inv[p].n] = "recorded"]
  /\ inv' = [inv EXCEPT ![p] = NextDay(@)]
  /\ UNCHANGED <<rec, active, lease, lines, now, swept, stops, stopped>>

\* SET NX of the verdict; the loser of a race counts nothing.
Verdict(p, v) ==
  /\ IF day[inv[p].n] = "none"
       THEN /\ day' = [day EXCEPT ![inv[p].n] = v]
            /\ inv' = [inv EXCEPT ![p] = NextDay(Tally(@, v))]
       ELSE inv' = [inv EXCEPT ![p] = NextDay(@)] /\ UNCHANGED day
  /\ UNCHANGED <<rec, active, lease, lines, around>>
SetMissed(p)   == At(p, "miss") /\ Verdict(p, "missed")
SetRecorded(p) == At(p, "record") /\ Verdict(p, "recorded")

\* The watch is over: the last window closed, it is stopped, or all days count.
Over(p) == \/ inv[p].at >= (Days + 1) * PerDay
           \/ inv[p].copy.stop # "none"
           \/ inv[p].missed + inv[p].recorded >= Days
\* The totals; a watch that is over gets its refund and its last status.
Close(p, notRun) ==
  LET i    == inv[p]
      seen == [i.copy EXCEPT !.missed = i.missed, !.recorded = i.recorded]
      done == [seen EXCEPT
                !.refund = watchRefund(i.missed, notRun, seen.stop),
                !.status = IF seen.stop # "none" THEN "stopped" ELSE "completed"]
  IN /\ At(p, "look") /\ ~Begun(p)
     /\ inv' = [inv EXCEPT ![p] = IF Over(p)
                  THEN [i EXCEPT !.copy = done, !.pc = "unindex"]
                  ELSE [i EXCEPT !.copy = seen, !.pc = "index"]]
     /\ UNCHANGED <<record, around>>

\* Mutant: days that never ran are left out of the refund.
MutTotal(p) == Close(p, 0)

\* After the last day that has begun.
Total(p) == Close(p, Max({0, Days - inv[p].missed - inv[p].recorded}))

\* Out of the index, then the reconcile line of a refund that is owed.
Unindex(p) ==
  /\ At(p, "unindex")
  /\ active' = NoScore
  /\ Goto(p, IF inv[p].copy.refund = 0 THEN "save" ELSE "line")
  /\ UNCHANGED <<rec, day, lease, lines, around>>
Line(p) ==
  /\ At(p, "line")
  /\ lines' = Append(lines, inv[p].copy.refund)
  /\ Goto(p, "save")
  /\ UNCHANGED <<rec, day, active, lease, around>>

IndexAt(p, score) ==
  /\ At(p, "index")
  /\ active' = score
  /\ Goto(p, "save")
  /\ UNCHANGED <<rec, day, lease, lines, around>>

\* Mutant: the job comes up again a day after the window that opens next.
MutIndex(p) == IndexAt(p, NextScore(inv[p].at) + PerDay)

\* Mutant: nothing brings the job up again once its last window has opened.
MutIndexLast(p) ==
  IndexAt(p, IF inv[p].at >= Days * PerDay THEN NoScore ELSE NextScore(inv[p].at))

Index(p) == IndexAt(p, NextScore(inv[p].at))

Save(p) ==
  /\ At(p, "save")
  /\ rec' = inv[p].copy
  /\ stopped' = (stopped \/ inv[p].mode = "stop")
  /\ Release(p) /\ Leave(p)
  /\ UNCHANGED <<day, active, lines, now, swept, stops, count>>

----------------------------------------------------------------------------
(* Faults and the clock. *)

\* Killed: a run's lease stays until it lapses.
Crash(p) == /\ ~At(p, "idle") /\ Bump("faults", MaxFaults)
            /\ Leave(p)
            /\ UNCHANGED <<record, now, swept, stops, stopped>>
\* A store command throws: a run gives its lease back.  The check itself is
\* caught (Skip), and so is the SET NX after it.
Throw(p) == /\ inv[p].pc \notin {"idle", "record"} /\ Bump("faults", MaxFaults)
            /\ Release(p) /\ Leave(p)
            /\ UNCHANGED <<rec, day, active, lines, now, swept, stops, stopped>>

\* The cron is called once at its tick of the day; the lease of an invocation
\* that is gone lapses.
Tick == /\ now < MaxTime /\ ~CronDue
        /\ \A p \in Procs : ~inv[p].aged
        /\ now' = now + 1
        /\ swept' = FALSE
        /\ inv' = [p \in Procs |-> [inv[p] EXCEPT !.aged = ~At(p, "idle")]]
        /\ lease' = IF lease # NoProc /\ inv[lease].mode = "run"
                    THEN lease ELSE NoProc
        /\ UNCHANGED <<rec, day, active, lines, stops, stopped, count>>

----------------------------------------------------------------------------
Walk(p) == \/ Load(p) \/ Count(p) \/ Judge(p) \/ SetMissed(p) \/ SetRecorded(p)
           \/ Total(p) \/ Unindex(p) \/ Line(p) \/ Index(p) \/ Save(p)
Next == \/ \E p \in Procs : \/ Poll(p) \/ Cron(p) \/ Walk(p) \/ Skip(p)
                            \/ Crash(p) \/ Throw(p)
                            \/ \E why \in {"ours", "abuse"} : StopWatch(p, why)
        \/ CronPass \/ CronLost \/ Tick

Spec == Init /\ [][Next]_vars

----------------------------------------------------------------------------
(* Properties. *)

\* Every variable has its type.
TypeOK ==
  /\ rec \in Rec
  /\ day \in [DayNums -> {"none", "recorded", "missed"}]
  /\ active \in Nat \cup {NoScore}
  /\ lease \in Procs \cup {NoProc}
  /\ lines \in Seq(Nat)
  /\ now \in Nat /\ swept \in BOOLEAN /\ stopped \in BOOLEAN
  /\ stops \subseteq {"ours", "abuse"}
  /\ count \in [{"faults", "lost", "polls", "stops"} -> Nat]
  /\ inv \in [Procs -> Invocation]

\* The watch implements its terms: no day is judged twice, back-filled or
\* missed early, the watch ends once, and its refund is that of the verdicts.
Terms == INSTANCE WatchTerms
           WITH verdict <- day, outcome <- rec.status,
                refund <- IF rec.status \in Ended THEN rec.refund ELSE 0,
                stopping <- stops
ImplementsTerms == Terms!Spec

\* Until a stop is asked for, a day is missed only if a cron run or a check did
\* not happen or an invocation failed (watch.ts:5 "our failure"), one day for
\* each: the index brings the job up in every window.
MissedIsOurs ==
  stops = {} => Cardinality({k \in DayNums : day[k] = "missed"})
                  <= count.lost + count.faults

\* A refund in the record has its reconcile line, and there is one line, unless
\* an invocation that wrote it failed before it saved the record.
RefundHasLine ==
  /\ rec.status \in Ended /\ rec.refund > 0 =>
       \E i \in DOMAIN lines : lines[i] = rec.refund
  /\ Len(lines) <= 1 + count.faults

\* jobs.ts:489: an early stop ends the watch, for good, at its own refund.
StopIsKept == stopped => rec.status = "stopped"

\* jobs.ts:6: what a killed invocation left behind is found by the daily cron.
\* It does not hold between Unindex and Save (README, section 7).
CronFindsWatch == rec.status = "watching" /\ Quiet => active # NoScore

\* A watch ends, although checks and cron runs are lost: every invocation goes
\* on, and time passes (with the cron).  CronFindsWatch is why a fault may
\* prevent it.
WatchEnds == <>(rec.status \in Ended \/ count.faults > 0)
Fairness == /\ \A p \in Procs : WF_vars(Walk(p) \/ Skip(p))
            /\ WF_vars((\E p \in Procs : Cron(p)) \/ CronPass)
            /\ WF_vars(Tick)
FairSpec == Spec /\ Fairness
=============================================================================
