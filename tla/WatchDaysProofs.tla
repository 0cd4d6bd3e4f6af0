-------------------------- MODULE WatchDaysProofs --------------------------
(***************************************************************************)
(* Theorems about WatchDays, for any number of days, ticks, invocations and   *)
(* faults.  What they need of the cron's hour and of early stops is a         *)
(* hypothesis of those that need it.                                        *)
(***************************************************************************)
EXTENDS WatchDays, FiniteSetTheorems, TLAPS

----------------------------------------------------------------------------
(* Types, and what an invocation knows by where it is. *)

Walking == {"look", "miss", "record"}
Closing == {"unindex", "line", "index", "save"}
\* A record read, and a day of the walk that is over not yet written.
Loaded(i) == i.pc \in Walking \cup Closing

InvOK(i) ==
  /\ i \in Invocation
  /\ i.pc = "idle" <=> i.mode = "none"
  /\ i.pc = "load" => i.mode = "run"
  /\ i.pc \in {"idle", "load"} => i.missed = 0 /\ i.recorded = 0
  /\ i.pc \in Walking => i.n >= 1 /\ i.missed + i.recorded <= i.n - 1
  /\ i.pc \in {"miss", "record"} => i.n <= Days
  /\ i.pc \in {"unindex", "line"} => i.copy.refund \in Nat
TypeInv ==
  /\ rec \in Rec
  /\ day \in [DayNums -> {"none", "recorded", "missed"}]
  /\ active \in Nat \cup {NoScore}
  /\ lease \in Procs \cup {NoProc}
  /\ lines \in Seq(Nat)
  /\ now \in Nat /\ swept \in BOOLEAN /\ stopped \in BOOLEAN
  /\ stops \subseteq {"ours", "abuse"}
  /\ count \in [{"faults", "lost", "polls", "stops"} -> Nat]
  /\ inv \in [Procs -> Invocation] /\ \A p \in Procs : InvOK(inv[p])

(* What each step leaves in the record of its invocation. *)

Becomes(p, i) == inv' = [inv EXCEPT ![p] = i]
Started(i) == [i EXCEPT !.pc = "load", !.mode = "run"]
Entered(i, r, how, t) ==
  [i EXCEPT !.pc = "look", !.mode = how, !.copy = r, !.at = t, !.n = 1]
Sent(i, l) == [i EXCEPT !.pc = l]
Finished(i, notRun) ==
  [i.copy EXCEPT !.missed = i.missed, !.recorded = i.recorded,
                 !.refund = watchRefund(i.missed, notRun, i.copy.stop),
                 !.status = IF i.copy.stop # "none" THEN "stopped" ELSE "completed"]
Counted(i) == [i.copy EXCEPT !.missed = i.missed, !.recorded = i.recorded]
ClosedAs(i, r, l) == [i EXCEPT !.copy = r, !.pc = l]
NotRun(i) == Max({0, Days - i.missed - i.recorded})

LEMMA MaxMin ==
  ASSUME NEW a \in Int, NEW b \in Int
  PROVE  /\ Max({a, b}) = IF a >= b THEN a ELSE b
         /\ Min({a, b}) = IF a <= b THEN a ELSE b
<1>1. \A x \in {a, b} : (\A y \in {a, b} : x >= y) <=> x = IF a >= b THEN a ELSE b
  OBVIOUS
<1>2. \A x \in {a, b} : (\A y \in {a, b} : x <= y) <=> x = IF a <= b THEN a ELSE b
  OBVIOUS
<1> QED BY <1>1, <1>2 DEF Max, Min

\* A refund is a whole number of atomic units, of the price and no more.
LEMMA RefundType ==
  ASSUME NEW g \in Nat, NEW u \in Nat, NEW s \in StopReason
  PROVE  watchRefund(g, u, s) \in Nat
<1> DEFINE m == Min({Days, g + u})
<1>1. Days \in Nat /\ Days > 0 /\ Price \in Nat /\ g + u \in Nat
  BY WatchAssumption
<1>2. m \in Nat
  <2>1. Days \in Int /\ g + u \in Int
    BY <1>1
  <2>2. m = IF Days <= g + u THEN Days ELSE g + u
    BY <2>1, MaxMin, Zenon
  <2> HIDE DEF m
  <2> QED BY <1>1, <2>2
<1>3. Price * m \in Nat
  BY <1>1, <1>2
<1>4. (Price * m) \div Days \in Nat
  BY <1>1, <1>3
<1> QED BY <1>4 DEF watchRefund

\* The record each step leaves, and that it has the type it should.
LEMMA WalkMoves ==
  ASSUME TypeInv, NEW p \in Procs
  PROVE  LET i == inv[p] IN
         /\ Leave(p) => Becomes(p, Idle)
         /\ \A l : Goto(p, l) => Becomes(p, Sent(i, l))
         /\ \A r, how : Enter(p, r, how) => Becomes(p, Entered(i, r, how, now))
         /\ Called(p) => Becomes(p, Started(i))
         /\ inv' = [inv EXCEPT ![p] = NextDay(@)] => Becomes(p, NextDay(i))
         /\ Count(p) => Becomes(p, NextDay(Tally(i, day[i.n])))
         /\ \A v : inv' = [inv EXCEPT ![p] = NextDay(Tally(@, v))]
                     => Becomes(p, NextDay(Tally(i, v)))
         /\ \A m : Close(p, m) =>
              Becomes(p, IF Over(p) THEN ClosedAs(i, Finished(i, m), "unindex")
                                    ELSE ClosedAs(i, Counted(i), "index"))
<1> DEFINE i == inv[p]
<1>1. inv \in [Procs -> Invocation] /\ i \in Invocation /\ i.copy \in Rec
  BY DEF TypeInv, Invocation
<1>2. Leave(p) => Becomes(p, Idle)
  BY DEF Leave, Becomes
<1>3. \A l : Goto(p, l) => Becomes(p, Sent(i, l))
  BY <1>1 DEF Goto, Becomes, Sent
<1>4. \A r, how : Enter(p, r, how) => Becomes(p, Entered(i, r, how, now))
  BY <1>1 DEF Enter, Becomes, Entered
<1>5. Called(p) => Becomes(p, Started(i))
  BY <1>1 DEF Called, Becomes, Started, Invocation
<1>6. inv' = [inv EXCEPT ![p] = NextDay(@)] => Becomes(p, NextDay(i))
  BY DEF Becomes
<1>7. Count(p) => Becomes(p, NextDay(Tally(i, day[i.n])))
  BY DEF Count, Becomes
<1>8. \A v : inv' = [inv EXCEPT ![p] = NextDay(Tally(@, v))]
               => Becomes(p, NextDay(Tally(i, v)))
  BY DEF Becomes
<1>9. ASSUME NEW m, Close(p, m)
      PROVE  Becomes(p, IF Over(p) THEN ClosedAs(i, Finished(i, m), "unindex")
                                   ELSE ClosedAs(i, Counted(i), "index"))
  BY <1>1, <1>9 DEF Close, Becomes, ClosedAs, Finished, Counted, Invocation, Rec
<1> QED BY <1>2, <1>3, <1>4, <1>5, <1>6, <1>7, <1>8, <1>9

LEMMA NotRunIs ==
  ASSUME NEW i, InvOK(i), i.pc = "look"
  PROVE  /\ NotRun(i) = Days - i.missed - i.recorded
         /\ NotRun(i) \in Nat
<1> DEFINE m == Days - i.missed - i.recorded
<1>1. m \in Nat /\ m \in Int /\ 0 \in Int
  BY WatchAssumption DEF InvOK, Walking, Invocation
<1>2. Max({0, m}) = IF 0 >= m THEN 0 ELSE m
  BY <1>1, MaxMin, Zenon
<1> QED BY <1>1, <1>2 DEF NotRun

LEMMA RecordsOK ==
  ASSUME NEW i, InvOK(i)
  PROVE  /\ InvOK(Idle)
         /\ i.pc = "idle" => InvOK(Started(i))
         /\ \A r \in Rec, how \in {"run", "stop"}, t \in Nat :
              i.pc \in {"idle", "load"} => InvOK(Entered(i, r, how, t))
         /\ i.pc \in Walking /\ i.n <= Days =>
              /\ InvOK(NextDay(i))
              /\ \A v \in {"recorded", "missed"} : InvOK(NextDay(Tally(i, v)))
              /\ i.pc = "look" => InvOK(Sent(i, "miss")) /\ InvOK(Sent(i, "record"))
         /\ i.pc = "look" => /\ InvOK(ClosedAs(i, Counted(i), "index"))
                             /\ InvOK(ClosedAs(i, Finished(i, NotRun(i)), "unindex"))
         /\ i.pc = "unindex" => InvOK(Sent(i, "save")) /\ InvOK(Sent(i, "line"))
         /\ i.pc \in {"line", "index"} => InvOK(Sent(i, "save"))
<1>1. /\ i \in Invocation /\ Days \in Nat /\ Days > 0 /\ i.copy \in Rec
      /\ i.missed \in 0..Days /\ i.recorded \in 0..Days /\ i.n \in 0..(Days + 1)
      /\ i.copy.stop \in StopReason
  BY WatchAssumption DEF InvOK, Invocation, Rec
<1>2. InvOK(Idle)
  BY <1>1, WatchAssumption
  DEF Idle, InvOK, Invocation, Start0, Rec, Walking, NoRefund, StopReason
<1>3. i.pc = "idle" => InvOK(Started(i))
  BY DEF InvOK, Started, Invocation, Walking
<1>4. ASSUME NEW r \in Rec, NEW how \in {"run", "stop"}, NEW t \in Nat,
             i.pc \in {"idle", "load"}
      PROVE  InvOK(Entered(i, r, how, t))
  <2> DEFINE e == Entered(i, r, how, t)
  <2>1. e \in Invocation
    <3>1. 1 \in 0..(Days + 1)
      BY <1>1
    <3> QED BY <1>1, <3>1 DEF Invocation, Entered
  <2>2. /\ e.pc = "look" /\ e.mode = how /\ e.n = 1
        /\ e.missed = i.missed /\ e.recorded = i.recorded
    BY <1>1 DEF Invocation, Entered
  <2>3. i.missed = 0 /\ i.recorded = 0
    BY <1>4 DEF InvOK
  <2> HIDE DEF e
  <2>4. InvOK(e)
    BY <1>1, <2>1, <2>2, <2>3 DEF InvOK, Walking
  <2> QED BY <2>4 DEF e
<1>5. ASSUME i.pc \in Walking, i.n <= Days
      PROVE  /\ InvOK(NextDay(i))
             /\ \A v \in {"recorded", "missed"} : InvOK(NextDay(Tally(i, v)))
             /\ i.pc = "look" => InvOK(Sent(i, "miss")) /\ InvOK(Sent(i, "record"))
  <2>1. i.n >= 1 /\ i.missed + i.recorded <= i.n - 1 /\ i.mode # "none"
    BY <1>5 DEF InvOK, Walking
  <2>2. ASSUME NEW m \in 0..Days, NEW k \in 0..Days, m + k <= i.n
        PROVE  InvOK([[i EXCEPT !.missed = m, !.recorded = k]
                        EXCEPT !.n = i.n + 1, !.pc = "look"])
    <3> DEFINE e == [[i EXCEPT !.missed = m, !.recorded = k]
                        EXCEPT !.n = i.n + 1, !.pc = "look"]
    <3>1. e \in Invocation
      <4>1. i.n + 1 \in 0..(Days + 1)
        BY <1>1, <1>5
      <4> QED BY <1>1, <2>2, <4>1 DEF Invocation
    <3>2. /\ e.pc = "look" /\ e.mode = i.mode /\ e.n = i.n + 1
          /\ e.missed = m /\ e.recorded = k
      BY <1>1 DEF Invocation
    <3> HIDE DEF e
    <3>3. InvOK(e)
      BY <1>1, <2>1, <2>2, <3>1, <3>2 DEF InvOK, Walking
    <3> QED BY <3>3 DEF e
  <2>3. NextDay(i) = [[i EXCEPT !.missed = i.missed, !.recorded = i.recorded]
                        EXCEPT !.n = i.n + 1, !.pc = "look"]
    BY <1>1 DEF NextDay, Invocation
  <2>4. ASSUME NEW v \in {"recorded", "missed"}
        PROVE  InvOK(NextDay(Tally(i, v)))
    <3> DEFINE m == i.missed + (IF v = "missed" THEN 1 ELSE 0)
               k == i.recorded + (IF v = "recorded" THEN 1 ELSE 0)
    <3>1. m \in 0..Days /\ k \in 0..Days /\ m + k <= i.n
      BY <1>1, <1>5, <2>1
    <3>2. NextDay(Tally(i, v)) = [[i EXCEPT !.missed = m, !.recorded = k]
                                    EXCEPT !.n = i.n + 1, !.pc = "look"]
      BY <1>1 DEF NextDay, Tally, Invocation
    <3> HIDE DEF m, k
    <3>3. InvOK([[i EXCEPT !.missed = m, !.recorded = k]
                    EXCEPT !.n = i.n + 1, !.pc = "look"])
      BY <2>2, <3>1
    <3> QED BY <3>2, <3>3, Zenon
  <2>5. InvOK(NextDay(i))
    <3>0. /\ i.missed \in 0..Days /\ i.recorded \in 0..Days
          /\ i.missed + i.recorded <= i.n
      BY <1>1, <2>1
    <3>1. InvOK([[i EXCEPT !.missed = i.missed, !.recorded = i.recorded]
                    EXCEPT !.n = i.n + 1, !.pc = "look"])
      BY <2>2, <3>0, Zenon
    <3> QED BY <2>3, <3>1, Zenon
  <2>6. ASSUME i.pc = "look", NEW l \in {"miss", "record"} PROVE InvOK(Sent(i, l))
    BY <1>1, <1>5, <2>1, <2>6 DEF InvOK, Sent, Invocation, Walking
  <2> QED BY <2>4, <2>5, <2>6
<1>6. ASSUME i.pc = "look"
      PROVE  /\ InvOK(ClosedAs(i, Counted(i), "index"))
             /\ InvOK(ClosedAs(i, Finished(i, NotRun(i)), "unindex"))
  <2>1. Counted(i) \in Rec
    BY <1>1 DEF Counted, Rec
  <2>2. watchRefund(i.missed, NotRun(i), i.copy.stop) \in Nat
    <3>1. i.missed \in Nat /\ NotRun(i) \in Nat
      BY <1>1, <1>6, NotRunIs
    <3> QED BY <1>1, <3>1, RefundType
  <2>3. /\ Finished(i, NotRun(i)) \in Rec
        /\ Finished(i, NotRun(i)).refund \in Nat
    <3> DEFINE w == watchRefund(i.missed, NotRun(i), i.copy.stop)
    <3>1. w \in Nat /\ w \in Int
      BY <2>2
    <3> HIDE DEF w
    <3>2. Finished(i, NotRun(i))
            = [i.copy EXCEPT !.missed = i.missed, !.recorded = i.recorded, !.refund = w,
                 !.status = IF i.copy.stop # "none" THEN "stopped" ELSE "completed"]
      BY DEF Finished, w
    <3> QED BY <1>1, <3>1, <3>2 DEF Rec, Ended
  <2>4. i.mode # "none"
    BY <1>6 DEF InvOK
  <2> QED BY <1>1, <2>1, <2>3, <2>4 DEF InvOK, ClosedAs, Invocation, Walking
<1>7. ASSUME NEW l \in {"save", "line"}, i.pc \in {"unindex", "line", "index"},
             l = "line" => i.pc = "unindex"
      PROVE  InvOK(Sent(i, l))
  BY <1>1, <1>7 DEF InvOK, Sent, Invocation, Walking
<1> QED BY <1>2, <1>3, <1>4, <1>5, <1>6, <1>7

LEMMA OneTyped ==
  ASSUME TypeInv, NEW p \in Procs, NEW i, InvOK(i), Becomes(p, i)
  PROVE  inv' \in [Procs -> Invocation] /\ \A q \in Procs : InvOK(inv'[q])
  BY DEF TypeInv, Becomes, InvOK

LEMMA BumpTypes ==
  ASSUME TypeInv, NEW c \in {"faults", "lost", "polls", "stops"}, NEW m, Bump(c, m)
  PROVE  /\ count' \in [{"faults", "lost", "polls", "stops"} -> Nat]
         /\ count'[c] = count[c] + 1
         /\ \A d \in {"faults", "lost", "polls", "stops"} : d # c => count'[d] = count[d]
  BY DEF TypeInv, Bump

Acts(p) == \/ Poll(p) \/ Cron(p) \/ Walk(p) \/ Skip(p) \/ Crash(p) \/ Throw(p)
           \/ \E why \in {"ours", "abuse"} : StopWatch(p, why)
World == CronPass \/ CronLost \/ Tick

LEMMA NextIs == [Next]_vars => UNCHANGED vars \/ World \/ \E p \in Procs : Acts(p)
  BY DEF Next, Acts, World

LEMMA StartTypes ==
  ASSUME TypeInv, NEW p \in Procs,
         Poll(p) \/ Cron(p) \/ Load(p) \/ \E why \in {"ours", "abuse"} : StopWatch(p, why)
  PROVE  TypeInv'
<1>1. /\ InvOK(inv[p]) /\ rec \in Rec /\ now \in Nat /\ StopReason = {"none", "ours", "abuse"}
      /\ \A why \in {"ours", "abuse"} : [rec EXCEPT !.stop = why] \in Rec
  BY DEF TypeInv, Rec, StopReason
<1>2. CASE Poll(p) \/ Cron(p)
  <2>1. Called(p) /\ inv[p].pc = "idle"
    BY <1>2 DEF Poll, Cron, Run, Called, At
  <2>2. inv' \in [Procs -> Invocation] /\ \A q \in Procs : InvOK(inv'[q])
    BY <1>1, <2>1, RecordsOK, WalkMoves, OneTyped
  <2>3. count' \in [{"faults", "lost", "polls", "stops"} -> Nat] /\ swept' \in BOOLEAN
    BY <1>2, BumpTypes DEF Poll, Cron, TypeInv
  <2> QED BY <2>1, <2>2, <2>3 DEF Called, TypeInv
<1>3. CASE Load(p)
  <2>1. \/ Enter(p, rec, "run") \/ Leave(p)
    BY <1>3 DEF Load
  <2>2. inv' \in [Procs -> Invocation] /\ \A q \in Procs : InvOK(inv'[q])
    BY <1>1, <1>3, <2>1, RecordsOK, WalkMoves, OneTyped DEF Load, At
  <2> QED BY <1>3, <2>2 DEF Load, Release, around, TypeInv
<1>4. ASSUME NEW why \in {"ours", "abuse"}, StopWatch(p, why) PROVE TypeInv'
  <2>1. inv' \in [Procs -> Invocation] /\ \A q \in Procs : InvOK(inv'[q])
    BY <1>1, <1>4, RecordsOK, WalkMoves, OneTyped DEF StopWatch, At
  <2> QED BY <1>4, <2>1 DEF StopWatch, Bump, record, TypeInv
<1> QED BY <1>2, <1>3, <1>4

LEMMA DayTypes ==
  ASSUME TypeInv, NEW p \in Procs, Count(p) \/ Judge(p) \/ SetMissed(p) \/ SetRecorded(p)
                                   \/ Skip(p)
  PROVE  TypeInv'
<1> DEFINE i == inv[p]
<1>1. /\ InvOK(i) /\ i.pc \in Walking /\ i.n \in DayNums /\ i.n <= Days
  BY DEF TypeInv, InvOK, Invocation, Count, Judge, SetMissed, SetRecorded, Skip, Begun,
         At, Walking, DayNums
<1>2. CASE Count(p)
  <2>1. day[i.n] \in {"recorded", "missed"}
    BY <1>1, <1>2 DEF Count, TypeInv
  <2>2. inv' \in [Procs -> Invocation] /\ \A q \in Procs : InvOK(inv'[q])
    BY <1>1, <1>2, <2>1, RecordsOK, WalkMoves, OneTyped
  <2> QED BY <1>2, <2>2 DEF Count, record, around, TypeInv
<1>3. CASE Judge(p)
  <2>1. Goto(p, "miss") \/ Goto(p, "record")
    BY <1>3 DEF Judge
  <2>2. i.pc = "look"
    BY <1>3 DEF Judge, Begun, At
  <2>3. Becomes(p, Sent(i, "miss")) \/ Becomes(p, Sent(i, "record"))
    BY <2>1, WalkMoves
  <2>4. inv' \in [Procs -> Invocation] /\ \A q \in Procs : InvOK(inv'[q])
    BY <1>1, <2>2, <2>3, RecordsOK, OneTyped
  <2> QED BY <1>3, <2>4 DEF Judge, record, around, TypeInv
<1>4. ASSUME NEW v \in {"recorded", "missed"}, Verdict(p, v) PROVE TypeInv'
  <2>1. Becomes(p, NextDay(i)) \/ Becomes(p, NextDay(Tally(i, v)))
    BY <1>4, WalkMoves DEF Verdict
  <2>2. inv' \in [Procs -> Invocation] /\ \A q \in Procs : InvOK(inv'[q])
    BY <1>1, <2>1, RecordsOK, OneTyped
  <2> QED BY <1>1, <1>4, <2>2 DEF Verdict, around, TypeInv
<1>5. CASE Skip(p)
  <2>1. Becomes(p, NextDay(i))
    BY <1>5, WalkMoves DEF Skip
  <2>2. inv' \in [Procs -> Invocation] /\ \A q \in Procs : InvOK(inv'[q])
    BY <1>1, <2>1, RecordsOK, OneTyped
  <2> QED BY <1>1, <1>5, <2>2 DEF Skip, Bump, TypeInv
<1> QED BY <1>2, <1>3, <1>4, <1>5 DEF SetMissed, SetRecorded

\* Where the index looks next is in the next day at the latest.
LEMMA CloseTypes ==
  ASSUME TypeInv, NEW p \in Procs, NextScore(inv[p].at) \in Nat,
         \/ Total(p) \/ Unindex(p) \/ Line(p) \/ Index(p) \/ Save(p)
         \/ Crash(p) \/ Throw(p)
  PROVE  TypeInv'
<1> DEFINE i == inv[p]
<1>1. /\ InvOK(i) /\ i.copy \in Rec
  BY DEF TypeInv, InvOK, Invocation
<1>2. CASE Total(p)
  <2>1. Close(p, NotRun(i)) /\ i.pc = "look"
    BY <1>2 DEF Total, NotRun, Close, At
  <2>2. \/ Becomes(p, ClosedAs(i, Finished(i, NotRun(i)), "unindex"))
        \/ Becomes(p, ClosedAs(i, Counted(i), "index"))
    BY <2>1, WalkMoves
  <2>3. inv' \in [Procs -> Invocation] /\ \A q \in Procs : InvOK(inv'[q])
    BY <1>1, <2>1, <2>2, RecordsOK, OneTyped
  <2> QED BY <2>1, <2>3 DEF Close, record, around, TypeInv
<1>3. ASSUME NEW l \in {"save", "line"}, Goto(p, l),
             i.pc \in {"unindex", "line", "index"}, l = "line" => i.pc = "unindex"
      PROVE  inv' \in [Procs -> Invocation] /\ \A q \in Procs : InvOK(inv'[q])
  <2>1. Becomes(p, Sent(i, l))
    BY <1>3, WalkMoves
  <2> QED BY <1>1, <1>3, <2>1, RecordsOK, OneTyped
<1>4. CASE Unindex(p)
  <2>1. inv' \in [Procs -> Invocation] /\ \A q \in Procs : InvOK(inv'[q])
    BY <1>3, <1>4 DEF Unindex, At
  <2> QED BY <1>4, <2>1 DEF Unindex, around, TypeInv
<1>5. CASE Line(p)
  <2>1. inv' \in [Procs -> Invocation] /\ \A q \in Procs : InvOK(inv'[q])
    BY <1>3, <1>5 DEF Line, At
  <2>2. i.copy.refund \in Nat
    BY <1>1, <1>5 DEF Line, At, InvOK
  <2> QED BY <1>5, <2>1, <2>2 DEF Line, around, TypeInv
<1>6. CASE Index(p)
  <2>1. inv' \in [Procs -> Invocation] /\ \A q \in Procs : InvOK(inv'[q])
    BY <1>3, <1>6 DEF Index, IndexAt, At
  <2> QED BY <1>6, <2>1 DEF Index, IndexAt, around, TypeInv
<1>7. CASE Leave(p) /\ (Save(p) \/ Crash(p) \/ Throw(p))
  <2>1. inv' \in [Procs -> Invocation] /\ \A q \in Procs : InvOK(inv'[q])
    BY <1>1, <1>7, RecordsOK, WalkMoves, OneTyped
  <2>2. count' \in [{"faults", "lost", "polls", "stops"} -> Nat]
    BY <1>7, BumpTypes DEF Save, Crash, Throw, TypeInv
  <2>3. rec' \in Rec /\ stopped' \in BOOLEAN /\ lease' \in Procs \cup {NoProc}
    BY <1>1, <1>7 DEF Save, Crash, Throw, Release, record, TypeInv
  <2>4. UNCHANGED <<day, active, lines, now, swept, stops>>
    BY <1>7 DEF Save, Crash, Throw, record
  <2> QED BY <2>1, <2>2, <2>3, <2>4 DEF TypeInv
<1> QED BY <1>2, <1>4, <1>5, <1>6, <1>7 DEF Save, Crash, Throw

----------------------------------------------------------------------------
(* The days' windows. *)

Opens(k) == k * PerDay
During(k, t) == Opens(k) <= t /\ t < Opens(k + 1)

LEMMA DivMod ==
  ASSUME NEW t \in Nat
  PROVE  /\ t \div PerDay \in Nat /\ t % PerDay \in 0..(PerDay - 1)
         /\ t = (PerDay * (t \div PerDay)) + (t % PerDay)
<1>1. PerDay \in Nat /\ PerDay > 0
  BY WatchAssumption
<1> QED BY <1>1

LEMMA Windows ==
  /\ \A k \in Nat : Opens(k) \in Nat /\ Opens(k + 1) = Opens(k) + PerDay
  /\ \A j, k \in Nat : j < k => Opens(j + 1) <= Opens(k)
  /\ \A t \in Nat : \E w \in Nat : During(w, t)
  /\ Opens(1) = PerDay /\ PerDay \in Nat /\ PerDay > 0 /\ Days \in Nat /\ Days > 0
<1>0. PerDay \in Nat /\ PerDay > 0 /\ Days \in Nat /\ Days > 0
  BY WatchAssumption
<1>1. \A k \in Nat : Opens(k) \in Nat /\ Opens(k + 1) = Opens(k) + PerDay
  BY <1>0 DEF Opens
<1>2. ASSUME NEW j \in Nat, NEW k \in Nat, j < k
      PROVE  Opens(j + 1) <= Opens(k)
  <2>1. (k - (j + 1)) \in Nat
    BY <1>2
  <2>2. (k - (j + 1)) * PerDay >= 0
    BY <1>0, <2>1
  <2>3. (k - (j + 1)) * PerDay = k * PerDay - (j + 1) * PerDay
    BY <1>0
  <2> QED BY <1>0, <2>2, <2>3 DEF Opens
<1>3. ASSUME NEW t \in Nat
      PROVE  \E w \in Nat : During(w, t)
  <2> DEFINE w == t \div PerDay
  <2>1. /\ w \in Nat /\ t = (PerDay * w) + (t % PerDay)
        /\ t % PerDay \in 0..(PerDay - 1)
    BY DivMod
  <2> HIDE DEF w
  <2>2. Opens(w) <= t /\ t < Opens(w) + PerDay
    BY <1>0, <2>1 DEF Opens
  <2> QED BY <1>1, <2>1, <2>2 DEF During
<1>4. Opens(1) = PerDay
  BY <1>0 DEF Opens
<1> QED BY <1>0, <1>1, <1>2, <1>3, <1>4

LEMMA Later ==
  ASSUME NEW j \in Nat, NEW k \in Nat, j <= k
  PROVE  Opens(j) <= Opens(k) /\ (j < k => Opens(j) + PerDay <= Opens(k))
<1>1. /\ Opens(j + 1) = Opens(j) + PerDay /\ Opens(j) \in Nat /\ Opens(k) \in Nat
      /\ PerDay \in Nat
  BY Windows
<1>2. j < k => Opens(j + 1) <= Opens(k)
  BY Windows
<1>3. j = k \/ j < k
  OBVIOUS
<1> QED BY <1>1, <1>2, <1>3

\* The state of a day, by the window.
LEMMA WindowIs ==
  ASSUME NEW k \in DayNums, NEW t \in Nat
  PROVE  /\ dayWindow(k, t) = "pending" <=> t < Opens(k)
         /\ dayWindow(k, t) = "due" <=> During(k, t)
         /\ dayWindow(k, t) = "closed" <=> t >= Opens(k + 1)
<1>1. /\ Opens(k) = k * PerDay /\ Opens(k + 1) = (k + 1) * PerDay
      /\ Opens(k) \in Nat /\ Opens(k + 1) \in Nat /\ Opens(k) <= Opens(k + 1)
  BY Windows DEF Opens, DayNums
<1> QED BY <1>1 DEF dayWindow, During

\* The index looks no later than the next window opens.
LEMMA Score ==
  ASSUME NEW t \in Nat
  PROVE  /\ NextScore(t) \in Nat
         /\ \A k \in DayNums : t < Opens(k) => NextScore(t) <= Opens(k)
<1> DEFINE S == {k * PerDay : k \in {m \in DayNums : m * PerDay > t}} \cup {t + PerDay}
<1>1. PICK w \in Nat : During(w, t)
  BY Windows
<1>2. /\ Opens(w) <= t /\ t < Opens(w + 1) /\ Opens(w + 1) = Opens(w) + PerDay
      /\ Opens(w) \in Nat /\ PerDay \in Nat /\ Days \in Nat
  BY <1>1, Windows DEF During
<1>3. \A k \in Nat : k * PerDay = Opens(k) /\ Opens(k) \in Nat
  BY Windows DEF Opens
<1>4. \A x \in S : x = t + PerDay \/ \E k \in DayNums : x = Opens(k) /\ Opens(k) > t
  BY <1>3 DEF DayNums
<1>5. ASSUME NEW k \in DayNums, Opens(k) > t
      PROVE  Opens(w + 1) <= Opens(k) /\ w + 1 \in DayNums
  <2>1. k > w
    <3> SUFFICES ASSUME k <= w PROVE FALSE
      BY DEF DayNums
    <3>1. k = w \/ Opens(k + 1) <= Opens(w)
      BY Windows DEF DayNums
    <3> QED BY <1>2, <1>5, <3>1, Windows DEF DayNums
  <2>2. k \in Nat /\ Opens(w + 1) <= Opens(k)
    BY <2>1, Windows DEF DayNums
  <2> QED BY <2>1, <2>2, Windows DEF DayNums
<1>6. PICK x \in S : \A y \in S : x <= y
  <2>1. CASE \E k \in DayNums : Opens(k) > t
    <3>1. Opens(w + 1) \in S
      <4>1. w + 1 \in DayNums /\ Opens(w + 1) > t /\ Opens(w + 1) = (w + 1) * PerDay
        BY <1>2, <1>5, <2>1 DEF Opens
      <4> QED BY <4>1
    <3>2. \A y \in S : Opens(w + 1) <= y
      BY <1>2, <1>4, <1>5
    <3> QED BY <3>1, <3>2
  <2>2. CASE ~\E k \in DayNums : Opens(k) > t
    <3>1. \A y \in S : y = t + PerDay
      BY <1>4, <2>2
    <3> QED BY <1>2, <3>1
  <2> QED BY <2>1, <2>2
<1>7. \A x1 \in S : x1 \in Nat
  BY <1>2, <1>3, <1>4 DEF DayNums
<1>8. NextScore(t) \in S /\ \A y \in S : NextScore(t) <= y
  <2> HIDE DEF S
  <2>1. Min(S) \in S /\ \A y \in S : Min(S) <= y
    BY <1>6 DEF Min
  <2> QED BY <2>1 DEF NextScore, S
<1>9. ASSUME NEW k \in DayNums, t < Opens(k)
      PROVE  Opens(k) \in S
  BY <1>3, <1>9 DEF DayNums
<1> HIDE DEF S
<1> QED BY <1>7, <1>8, <1>9

LEMMA Typing ==
  /\ Init => TypeInv
  /\ TypeInv /\ [Next]_vars => TypeInv'
<1>1. ASSUME Init PROVE TypeInv
  <2>1. /\ Idle \in Invocation /\ InvOK(Idle) /\ Start0 \in Rec
    <3>1. Idle \in Invocation /\ Start0 \in Rec
      BY WatchAssumption
      DEF Idle, Invocation, Start0, Rec, NoRefund, StopReason
    <3> QED BY <3>1 DEF InvOK, Idle, Walking
  <2>2. /\ rec = Start0 /\ lines = <<>> /\ active = PerDay /\ now = 0
        /\ inv = [p \in Procs |-> Idle] /\ day = [k \in DayNums |-> "none"]
        /\ count = [faults |-> 0, lost |-> 0, polls |-> 0, stops |-> 0]
        /\ lease = NoProc /\ stops = {} /\ swept = FALSE /\ stopped = FALSE
    BY <1>1 DEF Init
  <2>3. count \in [{"faults", "lost", "polls", "stops"} -> Nat]
    BY <2>2
  <2>4. /\ active \in Nat /\ lines \in Seq(Nat)
        /\ day \in [DayNums -> {"none", "recorded", "missed"}]
    BY <2>2, WatchAssumption
  <2>5. inv \in [Procs -> Invocation] /\ \A p \in Procs : InvOK(inv[p])
    <3> HIDE DEF Idle
    <3> QED BY <2>1, <2>2
  <2> HIDE DEF Idle, Start0
  <2> QED BY <2>1, <2>2, <2>3, <2>4, <2>5 DEF TypeInv
<1>2. ASSUME TypeInv, [Next]_vars PROVE TypeInv'
  <2>1. CASE UNCHANGED vars
    BY <1>2, <2>1 DEF vars, record, around, TypeInv
  <2>2. CASE CronPass \/ CronLost
    <3>1. count' \in [{"faults", "lost", "polls", "stops"} -> Nat]
      BY <1>2, <2>2, BumpTypes DEF CronPass, CronLost, TypeInv
    <3> QED BY <1>2, <2>2, <3>1 DEF CronPass, CronLost, record, TypeInv
  <2>3. CASE Tick
    <3> DEFINE new == [p \in Procs |-> [inv[p] EXCEPT !.aged = ~At(p, "idle")]]
    <3>1. \A p \in Procs : new[p] \in Invocation /\ InvOK(new[p])
      <4> SUFFICES ASSUME NEW p \in Procs
                   PROVE  new[p] \in Invocation /\ InvOK(new[p])
        OBVIOUS
      <4>1. InvOK(inv[p]) /\ inv[p] \in Invocation
        BY <1>2 DEF TypeInv, InvOK
      <4>2. \A b \in BOOLEAN : InvOK([inv[p] EXCEPT !.aged = b])
        BY <4>1 DEF InvOK, Invocation
      <4> QED BY <4>2 DEF InvOK
    <3>2. inv' = new
      BY <2>3 DEF Tick
    <3> HIDE DEF new
    <3>3. inv' \in [Procs -> Invocation] /\ \A p \in Procs : InvOK(inv'[p])
      BY <3>1, <3>2 DEF new
    <3>4. /\ lease' \in Procs \cup {NoProc} /\ now' \in Nat /\ swept' \in BOOLEAN
          /\ UNCHANGED <<rec, day, active, lines, stops, stopped, count>>
      <4>1. lease' = lease \/ lease' = NoProc
        BY <2>3 DEF Tick
      <4>2. now' = now + 1 /\ swept' = FALSE
            /\ UNCHANGED <<rec, day, active, lines, stops, stopped, count>>
        BY <2>3 DEF Tick
      <4>3. lease' \in Procs \cup {NoProc}
        BY <1>2, <4>1 DEF TypeInv
      <4>4. now' \in Nat
        BY <1>2, <4>2 DEF TypeInv
      <4>5. swept' \in BOOLEAN
        BY <4>2
      <4> QED BY <4>2, <4>3, <4>4, <4>5
    <3> QED BY <1>2, <3>3, <3>4 DEF TypeInv
  <2>4. ASSUME NEW p \in Procs, Acts(p) PROVE TypeInv'
    <3>1. inv[p].at \in Nat
      BY <1>2 DEF TypeInv, Invocation
    <3>2. NextScore(inv[p].at) \in Nat
      BY <3>1, Score
    <3>3. CASE Poll(p) \/ Cron(p) \/ Load(p) \/ \E why \in {"ours", "abuse"} : StopWatch(p, why)
      BY <1>2, <3>3, StartTypes
    <3>4. CASE Count(p) \/ Judge(p) \/ SetMissed(p) \/ SetRecorded(p) \/ Skip(p)
      BY <1>2, <3>4, DayTypes
    <3>5. CASE \/ Total(p) \/ Unindex(p) \/ Line(p) \/ Index(p) \/ Save(p)
               \/ Crash(p) \/ Throw(p)
      BY <1>2, <3>2, <3>5, CloseTypes
    <3> QED BY <2>4, <3>3, <3>4, <3>5 DEF Acts, Walk
  <2> QED BY <1>2, <2>1, <2>2, <2>3, <2>4, NextIs DEF World
<1> QED BY <1>1, <1>2

\* Every variable keeps its type, for any number of days and any price: counts of
\* days never exceed the days, and what a line says is a whole amount.
THEOREM WatchTypes == Spec => []TypeOK
<1>1. TypeInv => TypeOK
  BY DEF TypeInv, TypeOK
<1> QED BY <1>1, Typing, PTL DEF Spec

----------------------------------------------------------------------------
(* What an invocation knows: when it read the clock, which stops were asked     *)
(* for, and that the days behind it have their verdict when its counts say so. *)

Others(p) == \A q \in Procs : q # p => inv'[q] = inv[q]
\* A step of the walk, a way in and a way out.
Goes(p) == /\ Others(p) /\ Loaded(inv[p]) /\ Loaded(inv'[p])
           /\ inv'[p].mode = inv[p].mode /\ inv'[p].at = inv[p].at
           /\ inv'[p].aged = inv[p].aged
           /\ inv'[p].copy.stop = inv[p].copy.stop
           /\ UNCHANGED <<rec, lease, now, stops>>
Enters(p, r, how) ==
  /\ Others(p) /\ inv'[p].pc = "look" /\ inv'[p].mode = how /\ inv'[p].at = now
  /\ inv'[p].copy = r /\ inv'[p].n = 1 /\ inv'[p].missed = 0 /\ inv'[p].recorded = 0
  /\ UNCHANGED <<rec, day, active, lease, lines, now, swept>>
Quits(p) == /\ Others(p) /\ inv'[p] = Idle
            /\ lease' = lease \/ (lease = p /\ lease' = NoProc)
            /\ UNCHANGED <<day, active, lines, now, swept, stops>>

LEMMA Changes ==
  ASSUME TypeInv, NEW p \in Procs, NEW i, Becomes(p, i)
  PROVE  inv'[p] = i /\ Others(p)
  BY DEF TypeInv, Becomes, Others

LEMMA Going ==
  ASSUME TypeInv, NEW p \in Procs,
         \/ Count(p) \/ Judge(p) \/ SetMissed(p) \/ SetRecorded(p) \/ Skip(p)
         \/ Total(p) \/ Unindex(p) \/ Line(p) \/ Index(p)
  PROVE  Goes(p)
<1> DEFINE i == inv[p]
<1>1. /\ InvOK(i) /\ i \in Invocation /\ i.copy \in Rec
  BY DEF TypeInv, Invocation
<1>2. UNCHANGED <<rec, lease, now, stops>> /\ Loaded(i)
  BY DEF Count, Judge, SetMissed, SetRecorded, Verdict, Skip, Total, Close, Unindex,
         Line, Index, IndexAt, record, around, Begun, At, Loaded, Walking, Closing
<1>3. \/ \E l \in Walking \cup Closing : Becomes(p, Sent(i, l))
      \/ Becomes(p, NextDay(i))
      \/ \E v : Becomes(p, NextDay(Tally(i, v)))
      \/ Becomes(p, ClosedAs(i, Finished(i, NotRun(i)), "unindex"))
      \/ Becomes(p, ClosedAs(i, Counted(i), "index"))
  <2>1. CASE Count(p)
    BY <2>1, WalkMoves
  <2>2. CASE Judge(p)
    <3>1. Goto(p, "miss") \/ Goto(p, "record")
      BY <2>2 DEF Judge
    <3> QED BY <3>1, WalkMoves DEF Walking
  <2>3. ASSUME NEW v, Verdict(p, v) PROVE Becomes(p, NextDay(i)) \/ Becomes(p, NextDay(Tally(i, v)))
    BY <2>3, WalkMoves DEF Verdict
  <2>4. CASE Skip(p)
    BY <2>4, WalkMoves DEF Skip
  <2>5. CASE Total(p)
    <3>1. Close(p, NotRun(i))
      BY <2>5 DEF Total, NotRun
    <3> QED BY <3>1, WalkMoves
  <2>6. CASE Unindex(p) \/ Line(p) \/ Index(p)
    <3>1. \E l \in {"save", "line"} : Goto(p, l)
      BY <2>6 DEF Unindex, Line, Index, IndexAt
    <3> QED BY <3>1, WalkMoves DEF Closing
  <2> QED BY <2>1, <2>2, <2>3, <2>4, <2>5, <2>6 DEF SetMissed, SetRecorded
<1>4. ASSUME NEW j, Becomes(p, j), j.pc \in Walking \cup Closing, j.mode = i.mode,
             j.at = i.at, j.aged = i.aged, j.copy.stop = i.copy.stop
      PROVE  Goes(p)
  <2>1. inv'[p] = j /\ Others(p)
    BY <1>4, Changes
  <2> QED BY <1>2, <1>4, <2>1 DEF Goes, Loaded
<1>5. ASSUME NEW l \in Walking \cup Closing, Becomes(p, Sent(i, l)) PROVE Goes(p)
  <2>1. /\ Sent(i, l).pc = l /\ Sent(i, l).mode = i.mode /\ Sent(i, l).at = i.at
        /\ Sent(i, l).aged = i.aged /\ Sent(i, l).copy = i.copy
    BY <1>1 DEF Sent, Invocation
  <2> QED BY <1>4, <1>5, <2>1
<1>6. ASSUME Becomes(p, NextDay(i)) PROVE Goes(p)
  <2>1. /\ NextDay(i).pc = "look" /\ NextDay(i).mode = i.mode /\ NextDay(i).at = i.at
        /\ NextDay(i).aged = i.aged /\ NextDay(i).copy = i.copy
    BY <1>1 DEF NextDay, Invocation
  <2> QED BY <1>4, <1>6, <2>1 DEF Walking
<1>7. ASSUME NEW v, Becomes(p, NextDay(Tally(i, v))) PROVE Goes(p)
  <2> DEFINE j == NextDay(Tally(i, v))
  <2>1. /\ j.pc = "look" /\ j.mode = i.mode /\ j.at = i.at
        /\ j.aged = i.aged /\ j.copy = i.copy
    BY <1>1 DEF NextDay, Tally, Invocation
  <2> HIDE DEF j
  <2>2. Becomes(p, j)
    BY <1>7 DEF j
  <2> QED BY <1>4, <2>1, <2>2 DEF Walking
<1>8. ASSUME NEW r \in {Finished(i, NotRun(i)), Counted(i)}, NEW l \in {"unindex", "index"},
             Becomes(p, ClosedAs(i, r, l))
      PROVE  Goes(p)
  <2> DEFINE j == ClosedAs(i, r, l)
  <2>1. r.stop = i.copy.stop
    BY <1>1 DEF Finished, Counted, Rec
  <2>2. /\ j.pc = l /\ j.mode = i.mode /\ j.at = i.at /\ j.aged = i.aged /\ j.copy = r
    BY <1>1 DEF ClosedAs, Invocation
  <2> HIDE DEF j
  <2>3. Becomes(p, j)
    BY <1>8 DEF j
  <2> QED BY <1>4, <2>1, <2>2, <2>3 DEF Closing
<1> HIDE DEF i
<1> QED BY <1>3, <1>5, <1>6, <1>7, <1>8

LEMMA Entering ==
  ASSUME TypeInv, NEW p \in Procs
  PROVE  /\ \A why \in {"ours", "abuse"} : StopWatch(p, why) =>
              Enters(p, [rec EXCEPT !.stop = why], "stop") /\ inv'[p].aged = inv[p].aged
         /\ Load(p) => \/ rec.status = "watching" /\ Enters(p, rec, "run")
                          /\ inv'[p].aged = inv[p].aged
                       \/ rec.status # "watching" /\ Quits(p)
         /\ Save(p) \/ Crash(p) \/ Throw(p) => Quits(p)
         /\ Called(p) => /\ Others(p) /\ inv'[p].pc = "load" /\ inv'[p].mode = "run"
                         /\ inv'[p].aged = inv[p].aged
<1> DEFINE i == inv[p]
<1>1. InvOK(i) /\ i \in Invocation
  BY DEF TypeInv
<1>2. ASSUME NEW r, NEW how, Enter(p, r, how), i.pc \in {"idle", "load"}
      PROVE  /\ Others(p) /\ inv'[p].pc = "look" /\ inv'[p].mode = how
             /\ inv'[p].at = now /\ inv'[p].aged = inv[p].aged
             /\ inv'[p].copy = r /\ inv'[p].n = 1 /\ inv'[p].missed = 0
             /\ inv'[p].recorded = 0
  <2> DEFINE e == Entered(i, r, how, now)
  <2>1. Becomes(p, e)
    BY <1>2, WalkMoves
  <2>2. /\ e.pc = "look" /\ e.mode = how /\ e.at = now /\ e.aged = i.aged
        /\ e.copy = r /\ e.n = 1 /\ e.missed = i.missed /\ e.recorded = i.recorded
    BY <1>1 DEF Entered, Invocation
  <2>3. i.missed = 0 /\ i.recorded = 0
    BY <1>1, <1>2 DEF InvOK
  <2> HIDE DEF e
  <2>4. inv'[p] = e /\ Others(p)
    BY <2>1, Changes
  <2> QED BY <2>2, <2>3, <2>4
<1>3. ASSUME Leave(p) PROVE Others(p) /\ inv'[p] = Idle
  BY <1>3, WalkMoves, Changes
<1>4. ASSUME NEW why \in {"ours", "abuse"}, StopWatch(p, why)
      PROVE  Enters(p, [rec EXCEPT !.stop = why], "stop") /\ inv'[p].aged = inv[p].aged
  BY <1>2, <1>4 DEF StopWatch, At, record, Enters
<1>5. ASSUME Load(p)
      PROVE  \/ rec.status = "watching" /\ Enters(p, rec, "run")
                /\ inv'[p].aged = inv[p].aged
             \/ rec.status # "watching" /\ Quits(p)
  <2>1. CASE rec.status = "watching"
    BY <1>2, <1>5, <2>1 DEF Load, At, around, Enters
  <2>2. CASE rec.status # "watching"
    <3>1. Leave(p) /\ Release(p) /\ UNCHANGED <<rec, day, active, lines, around>>
      BY <1>5, <2>2 DEF Load
    <3> QED BY <1>3, <2>2, <3>1 DEF Release, around, Quits
  <2> QED BY <2>1, <2>2
<1>6. ASSUME Save(p) \/ Crash(p) \/ Throw(p) PROVE Quits(p)
  BY <1>3, <1>6 DEF Save, Crash, Throw, Release, record, Quits
<1>7. ASSUME Called(p)
      PROVE  /\ Others(p) /\ inv'[p].pc = "load" /\ inv'[p].mode = "run"
             /\ inv'[p].aged = inv[p].aged
  <2>1. inv'[p] = Started(i) /\ Others(p)
    BY <1>7, WalkMoves, Changes
  <2> QED BY <1>1, <2>1 DEF Started, Invocation
<1> QED BY <1>4, <1>5, <1>6, <1>7

RunsInv ==
  \A p \in Procs :
    /\ inv[p].mode = "run" => lease = p
    /\ Loaded(inv[p]) => /\ inv[p].at <= now /\ now <= inv[p].at + 1
                         /\ ~inv[p].aged => inv[p].at = now
StopsInv ==
  /\ rec.stop \in stops \cup {"none"}
  /\ \A p \in Procs : /\ inv[p].mode = "stop" => inv[p].copy.stop # "none"
                      /\ Loaded(inv[p]) => inv[p].copy.stop \in stops \cup {"none"}

\* How the steps of an invocation divide.
LEMMA Kinds ==
  ASSUME TypeInv, NEW p \in Procs, Acts(p)
  PROVE  \/ Goes(p)
         \/ /\ Called(p) /\ lease = NoProc /\ lease' = p /\ UNCHANGED <<rec, now, stops>>
         \/ Load(p) /\ rec.status = "watching" /\ Enters(p, rec, "run") /\ UNCHANGED stops
         \/ \E why \in {"ours", "abuse"} :
              /\ StopWatch(p, why) /\ Enters(p, [rec EXCEPT !.stop = why], "stop")
              /\ stops' = stops \cup {why}
         \/ Quits(p) /\ Save(p)
         \/ Quits(p) /\ UNCHANGED rec /\ (Load(p) \/ Crash(p) \/ Throw(p))
<1>1. CASE Poll(p) \/ Cron(p)
  BY <1>1 DEF Poll, Cron, Run, Called
<1>2. CASE Load(p)
  <2>1. UNCHANGED <<rec, stops>>
    BY <1>2 DEF Load, around
  <2> QED BY <1>2, <2>1, Entering
<1>3. CASE Save(p)
  BY <1>3, Entering
<1>4. CASE Crash(p) \/ Throw(p)
  BY <1>4, Entering DEF Crash, Throw, record
<1>5. ASSUME NEW why \in {"ours", "abuse"}, StopWatch(p, why)
      PROVE  Enters(p, [rec EXCEPT !.stop = why], "stop") /\ stops' = stops \cup {why}
  BY <1>5, Entering DEF StopWatch
<1>6. CASE \/ Count(p) \/ Judge(p) \/ SetMissed(p) \/ SetRecorded(p) \/ Skip(p)
           \/ Total(p) \/ Unindex(p) \/ Line(p) \/ Index(p)
  BY <1>6, Going
<1> QED BY <1>1, <1>2, <1>3, <1>4, <1>5, <1>6 DEF Acts, Walk

LEMMA TickOrPass ==
  ASSUME TypeInv, UNCHANGED vars \/ World
  PROVE  /\ UNCHANGED <<rec, day, active, lines, stops, stopped>>
         /\ \/ /\ now' = now /\ inv' = inv /\ lease' = lease
            \/ /\ Tick /\ now' = now + 1
               /\ lease' = lease \/ lease' = NoProc
               /\ \A p \in Procs : inv[p].mode = "run" /\ lease = p => lease' = p
               /\ \A p \in Procs : inv'[p] = [inv[p] EXCEPT !.aged = ~At(p, "idle")]
<1>1. CASE UNCHANGED vars
  BY <1>1 DEF vars, record, around
<1>2. CASE CronPass \/ CronLost
  BY <1>2 DEF CronPass, CronLost, record
<1>3. CASE Tick
  <2>1. \A p \in Procs : inv[p].mode = "run" /\ lease = p => lease' = p
    BY <1>3, WatchAssumption DEF Tick
  <2> QED BY <1>3, <2>1 DEF Tick
<1> QED BY <1>1, <1>2, <1>3 DEF World

\* The fields of a record that a tick changes.
LEMMA Aged ==
  ASSUME TypeInv, NEW p \in Procs, inv'[p] = [inv[p] EXCEPT !.aged = ~At(p, "idle")]
  PROVE  /\ inv'[p].pc = inv[p].pc /\ inv'[p].mode = inv[p].mode /\ inv'[p].at = inv[p].at
         /\ inv'[p].copy = inv[p].copy /\ inv'[p].n = inv[p].n
         /\ inv'[p].missed = inv[p].missed /\ inv'[p].recorded = inv[p].recorded
         /\ inv'[p].aged <=> inv[p].pc # "idle"
<1> DEFINE b == ~At(p, "idle")
<1>1. inv[p] \in Invocation /\ inv'[p] = [inv[p] EXCEPT !.aged = b]
  BY DEF TypeInv
<1>2. inv'[p].aged = b
  BY <1>1 DEF Invocation
<1>3. b <=> inv[p].pc # "idle"
  BY DEF At
<1> HIDE DEF b
<1>4. /\ inv'[p].pc = inv[p].pc /\ inv'[p].mode = inv[p].mode /\ inv'[p].at = inv[p].at
      /\ inv'[p].copy = inv[p].copy /\ inv'[p].n = inv[p].n
      /\ inv'[p].missed = inv[p].missed /\ inv'[p].recorded = inv[p].recorded
  BY <1>1 DEF Invocation
<1> QED BY <1>2, <1>3, <1>4, Zenon

LEMMA IdleIs == Idle.pc = "idle" /\ Idle.mode = "none" /\ ~Loaded(Idle)
  BY DEF Idle, Loaded, Walking, Closing

LEMMA RunsStep ==
  ASSUME TypeInv, TypeInv', RunsInv, [Next]_vars
  PROVE  RunsInv'
<1>1. CASE UNCHANGED vars \/ World
  <2> SUFFICES ASSUME NEW p \in Procs
               PROVE  /\ inv'[p].mode = "run" => lease' = p
                      /\ Loaded(inv'[p]) => /\ inv'[p].at <= now' /\ now' <= inv'[p].at + 1
                                            /\ ~inv'[p].aged => inv'[p].at = now'
    BY DEF RunsInv, Loaded
  <2>1. CASE now' = now /\ inv' = inv /\ lease' = lease
    BY <2>1 DEF RunsInv
  <2>2. CASE /\ Tick /\ now' = now + 1
             /\ inv[p].mode = "run" /\ lease = p => lease' = p
             /\ inv'[p] = [inv[p] EXCEPT !.aged = ~At(p, "idle")]
    <3>1. ~inv[p].aged
      BY <2>2 DEF Tick
    <3>2. now \in Nat /\ inv[p].at \in Nat
      BY DEF TypeInv, Invocation
    <3>3. /\ inv'[p].pc = inv[p].pc /\ inv'[p].mode = inv[p].mode
          /\ inv'[p].at = inv[p].at
      BY <2>2, Aged
    <3>4. inv'[p].aged <=> inv[p].pc # "idle"
      BY <2>2, Aged
    <3>5. Loaded(inv'[p]) => Loaded(inv[p]) /\ inv'[p].aged
      BY <3>3, <3>4 DEF Loaded, Walking, Closing
    <3>6. Loaded(inv'[p]) => inv[p].at = now
      BY <3>1, <3>5 DEF RunsInv
    <3>7. inv'[p].mode = "run" => lease' = p
      BY <2>2, <3>3 DEF RunsInv
    <3>8. Loaded(inv'[p]) => inv'[p].at <= now' /\ now' <= inv'[p].at + 1
      BY <2>2, <3>2, <3>3, <3>6
    <3> QED BY <3>5, <3>7, <3>8, Zenon
  <2> QED BY <1>1, <2>1, <2>2, TickOrPass
<1>2. ASSUME NEW p \in Procs, Acts(p)
      PROVE  RunsInv'
  <2> SUFFICES ASSUME NEW q \in Procs
               PROVE  /\ inv'[q].mode = "run" => lease' = q
                      /\ Loaded(inv'[q]) => /\ inv'[q].at <= now' /\ now' <= inv'[q].at + 1
                                            /\ ~inv'[q].aged => inv'[q].at = now'
    BY DEF RunsInv, Loaded
  <2>0. now \in Nat /\ NoProc \notin Procs
    BY WatchAssumption DEF TypeInv
  <2>1. CASE Goes(p)
    BY <2>1 DEF Goes, Others, RunsInv
  <2>2. CASE Called(p) /\ lease = NoProc /\ lease' = p /\ UNCHANGED now
    BY <2>0, <2>2, Entering DEF Others, RunsInv, Loaded, Walking, Closing
  <2>3. CASE Load(p) /\ Enters(p, rec, "run")
    <3>1. lease = p
      BY <2>3 DEF Load, At, TypeInv, InvOK, RunsInv
    <3> QED BY <2>0, <2>3, <3>1 DEF Enters, Others, RunsInv
  <2>4. ASSUME NEW r, Enters(p, r, "stop") PROVE
                      /\ inv'[q].mode = "run" => lease' = q
                      /\ Loaded(inv'[q]) => /\ inv'[q].at <= now' /\ now' <= inv'[q].at + 1
                                            /\ ~inv'[q].aged => inv'[q].at = now'
    BY <2>0, <2>4 DEF Enters, Others, RunsInv
  <2>5. CASE Quits(p)
    BY <2>5, IdleIs DEF Quits, Others, RunsInv
  <2> QED BY <1>2, <2>1, <2>2, <2>3, <2>4, <2>5, Kinds
<1> QED BY <1>1, <1>2, NextIs

LEMMA StopsStep ==
  ASSUME TypeInv, TypeInv', StopsInv, [Next]_vars
  PROVE  StopsInv'
<1>1. CASE UNCHANGED vars \/ World
  <2>1. UNCHANGED <<rec, stops>>
    BY <1>1, TickOrPass
  <2>2. \A p \in Procs : inv'[p].mode = inv[p].mode /\ inv'[p].copy = inv[p].copy
                         /\ (Loaded(inv'[p]) <=> Loaded(inv[p]))
    <3> SUFFICES ASSUME NEW p \in Procs
                 PROVE  inv'[p].mode = inv[p].mode /\ inv'[p].copy = inv[p].copy
                        /\ inv'[p].pc = inv[p].pc
      BY DEF Loaded
    <3> QED BY <1>1, TickOrPass, Aged
  <2> QED BY <2>1, <2>2 DEF StopsInv
<1>2. ASSUME NEW p \in Procs, Acts(p)
      PROVE  StopsInv'
  <2>1. CASE Goes(p)
    BY <2>1 DEF Goes, Others, StopsInv
  <2>2. CASE Called(p) /\ UNCHANGED <<rec, stops>>
    BY <2>2, Entering DEF Others, StopsInv, Loaded, Walking, Closing
  <2>3. CASE Enters(p, rec, "run") /\ UNCHANGED stops
    BY <2>3 DEF Enters, Others, StopsInv
  <2>4. ASSUME NEW why \in {"ours", "abuse"}, stops' = stops \cup {why},
               Enters(p, [rec EXCEPT !.stop = why], "stop")
        PROVE  StopsInv'
    <3>1. [rec EXCEPT !.stop = why].stop = why /\ why # "none"
      BY DEF TypeInv, Rec
    <3> QED BY <2>4, <3>1 DEF Enters, Others, StopsInv
  <2>5. CASE Quits(p) /\ Save(p)
    <3>1. rec' = inv[p].copy /\ Loaded(inv[p])
      BY <2>5 DEF Save, At, Loaded, Closing
    <3> QED BY <2>5, <3>1, IdleIs DEF Quits, Others, StopsInv
  <2>6. CASE Quits(p) /\ UNCHANGED rec
    BY <2>6, IdleIs DEF Quits, Others, StopsInv
  <2> QED BY <1>2, <2>1, <2>2, <2>3, <2>4, <2>5, <2>6, Kinds
<1> QED BY <1>1, <1>2, NextIs

\* The fields of the record after each step of the walk.
Fields(i, l, n, m, r, c) ==
  i.pc = l /\ i.n = n /\ i.missed = m /\ i.recorded = r /\ i.copy = c
One(v, w) == IF v = w THEN 1 ELSE 0
Talk(p, v) ==
  LET i == inv[p] IN
  Fields(inv'[p], "look", i.n + 1, i.missed + One(v, "missed"),
         i.recorded + One(v, "recorded"), i.copy)
Passes(p) ==
  LET i == inv[p] IN
  Fields(inv'[p], "look", i.n + 1, i.missed, i.recorded, i.copy)
Turns(p, l) ==
  LET i == inv[p] IN Fields(inv'[p], l, i.n, i.missed, i.recorded, i.copy)
Ends(p) ==
  LET i == inv[p] IN
  Fields(inv'[p], "unindex", i.n, i.missed, i.recorded, Finished(i, NotRun(i)))
GoesOn(p) ==
  LET i == inv[p] IN
  Fields(inv'[p], "index", i.n, i.missed, i.recorded, Counted(i))

LEMMA Moves ==
  ASSUME TypeInv, NEW p \in Procs
  PROVE  /\ Count(p) => Talk(p, day[inv[p].n])
         /\ Judge(p) => Turns(p, IF Window(p) = "closed" \/ inv[p].copy.stop # "none"
                                   THEN "miss" ELSE "record")
         /\ \A v : Verdict(p, v) =>
              IF day[inv[p].n] = "none" THEN Talk(p, v) ELSE Passes(p)
         /\ Skip(p) => Passes(p)
         /\ Total(p) => IF Over(p) THEN Ends(p) ELSE GoesOn(p)
         /\ Unindex(p) => Turns(p, IF inv[p].copy.refund = 0 THEN "save" ELSE "line")
         /\ Line(p) \/ Index(p) => Turns(p, "save")
<1> DEFINE i == inv[p]
<1>1. i \in Invocation
  BY DEF TypeInv
<1>2. \A l : Goto(p, l) => Turns(p, l)
  <2> SUFFICES ASSUME NEW l, Goto(p, l) PROVE Turns(p, l)
    OBVIOUS
  <2>1. inv'[p] = Sent(i, l)
    BY WalkMoves, Changes
  <2> QED BY <1>1, <2>1 DEF Sent, Turns, Fields, Invocation
<1>3. ASSUME NEW v, Becomes(p, NextDay(Tally(i, v))) PROVE Talk(p, v)
  <2>1. inv'[p] = NextDay(Tally(i, v))
    BY <1>3, Changes
  <2> QED BY <1>1, <2>1 DEF NextDay, Tally, Talk, Fields, One, Invocation
<1>4. ASSUME Becomes(p, NextDay(i)) PROVE Passes(p)
  <2>1. inv'[p] = NextDay(i)
    BY <1>4, Changes
  <2> QED BY <1>1, <2>1 DEF NextDay, Passes, Fields, Invocation
<1>5. Count(p) => Talk(p, day[i.n])
  BY <1>3, WalkMoves
<1>6. Judge(p) => Turns(p, IF Window(p) = "closed" \/ i.copy.stop # "none"
                            THEN "miss" ELSE "record")
  BY <1>2 DEF Judge
<1>7. ASSUME NEW v, Verdict(p, v)
      PROVE  IF day[i.n] = "none" THEN Talk(p, v) ELSE Passes(p)
  BY <1>3, <1>4, <1>7, WalkMoves DEF Verdict
<1>8. Skip(p) => Passes(p)
  BY <1>4, WalkMoves DEF Skip
<1>9. ASSUME Total(p) PROVE IF Over(p) THEN Ends(p) ELSE GoesOn(p)
  <2>1. Close(p, NotRun(i))
    BY <1>9 DEF Total, NotRun
  <2>2. inv'[p] = IF Over(p) THEN ClosedAs(i, Finished(i, NotRun(i)), "unindex")
                             ELSE ClosedAs(i, Counted(i), "index")
    BY <2>1, WalkMoves, Changes
  <2> DEFINE f == Finished(i, NotRun(i))
             c == Counted(i)
  <2>3. \A r, l : Fields(ClosedAs(i, r, l), l, i.n, i.missed, i.recorded, r)
    BY <1>1 DEF ClosedAs, Fields, Invocation
  <2> QED BY <2>2, <2>3 DEF Ends, GoesOn
<1>10. Unindex(p) => Turns(p, IF i.copy.refund = 0 THEN "save" ELSE "line")
  BY <1>2 DEF Unindex
<1>11. Line(p) \/ Index(p) => Turns(p, "save")
  BY <1>2 DEF Line, Index, IndexAt
<1> QED BY <1>5, <1>6, <1>7, <1>8, <1>9, <1>10, <1>11

\* A verdict stands.
Grown(d, e) == \A k \in DayNums : d[k] # "none" => e[k] = d[k]
LEMMA VerdictsStand ==
  ASSUME TypeInv, [Next]_vars
  PROVE  Grown(day, day')
<1>1. ASSUME NEW p \in Procs, Acts(p) PROVE Grown(day, day')
  <2>1. ASSUME NEW v, Verdict(p, v) PROVE Grown(day, day')
    BY <2>1 DEF Verdict, Grown, TypeInv
  <2>2. CASE Skip(p)
    BY <2>2 DEF Skip, Grown, TypeInv
  <2>3. CASE ~Skip(p) /\ ~SetMissed(p) /\ ~SetRecorded(p)
    <3>1. day' = day
      BY <1>1, <2>3 DEF Acts, Walk, Poll, Cron, Run, Called, Load, Count, Judge, Total, Close,
         Unindex, Line, Index, IndexAt, Save, Crash, Throw, StopWatch, record
    <3> QED BY <3>1 DEF Grown
  <2> QED BY <2>1, <2>2, <2>3 DEF SetMissed, SetRecorded
<1>2. CASE UNCHANGED vars \/ World
  BY <1>2, TickOrPass DEF Grown
<1> QED BY <1>1, <1>2, NextIs

----------------------------------------------------------------------------
(* What an invocation has seen of the days it has walked. *)

SeenAll(n, d) == \A k \in DayNums : k < n => d[k] # "none"
\* The watch may end.
DoneBy(t, stop, d) == \/ stop # "none"
                      \/ t >= Opens(Days + 1)
                      \/ \A k \in DayNums : d[k] # "none"
WalkOK(i, d) ==
  /\ i.pc \in Walking /\ i.missed + i.recorded = i.n - 1 => SeenAll(i.n, d)
  /\ i.pc = "record" => During(i.n, i.at) /\ i.copy.stop = "none"
  /\ i.pc = "miss" => /\ i.at >= Opens(i.n)
                      /\ i.at >= Opens(i.n + 1) \/ i.copy.stop # "none"
  /\ i.pc \in Closing => \A k \in DayNums : Opens(k) <= i.at => k < i.n
  /\ i.pc \in Closing /\ i.copy.status \in Ended => DoneBy(i.at, i.copy.stop, d)
  /\ i.pc \in Walking \cup {"index"} => i.copy.status = "watching"
  /\ i.pc \in {"unindex", "line"} => i.copy.status \in Ended
WalkInv == \A p \in Procs : WalkOK(inv[p], day)
EndInv == rec.status \in Ended => DoneBy(now, rec.stop, day)

LEMMA WalkGrows ==
  ASSUME NEW i, NEW d, NEW e, Grown(d, e), WalkOK(i, d)
  PROVE  WalkOK(i, e)
<1>1. \A n : SeenAll(n, d) => SeenAll(n, e)
  BY DEF SeenAll, Grown
<1>2. \A t, s : DoneBy(t, s, d) => DoneBy(t, s, e)
  BY DEF DoneBy, Grown
<1> HIDE DEF Grown
<1> QED BY <1>1, <1>2 DEF WalkOK

\* Only the record of the one that moves has to be looked at.
LEMMA WalkOthers ==
  ASSUME TypeInv, WalkInv, [Next]_vars, NEW p \in Procs, Others(p), WalkOK(inv'[p], day')
  PROVE  WalkInv'
<1>1. \A q \in Procs : q # p => WalkOK(inv'[q], day')
  BY VerdictsStand, WalkGrows DEF WalkInv, Others
<1> QED BY <1>1 DEF WalkInv

LEMMA WalkGoes ==
  ASSUME TypeInv, TypeInv', WalkInv, StopsInv, [Next]_vars, NEW p \in Procs, Goes(p),
         \/ Count(p) \/ Judge(p) \/ SetMissed(p) \/ SetRecorded(p) \/ Skip(p)
         \/ Total(p) \/ Unindex(p) \/ Line(p) \/ Index(p),
         NEW i, i = inv[p], NEW j, j = inv'[p]
  PROVE  WalkOK(j, day')
<1>0. /\ j.at = i.at /\ j.copy.stop = i.copy.stop
      /\ i.n \in Nat /\ i.missed \in Nat /\ i.recorded \in Nat /\ i.at \in Nat
      /\ Days \in Nat /\ InvOK(i) /\ WalkOK(i, day) /\ WalkOK(i, day')
  <2>1. WalkOK(i, day')
    BY VerdictsStand, WalkGrows DEF WalkInv
  <2>2. i \in Invocation /\ InvOK(i)
    BY DEF TypeInv
  <2>3. Days \in Nat /\ i.at \in Nat
    BY <2>2, WatchAssumption DEF Invocation
  <2>4. i.n \in 0..(Days + 1) /\ i.missed \in 0..Days /\ i.recorded \in 0..Days
    BY <2>2 DEF Invocation
  <2>5. WalkOK(i, day) /\ j.at = i.at /\ j.copy.stop = i.copy.stop
    BY DEF Goes, WalkInv
  <2> QED BY <2>1, <2>2, <2>3, <2>4, <2>5
<1>1. ASSUME i.pc \in Walking, i.n \in DayNums, day'[i.n] # "none",
             NEW v \in {"missed", "recorded"}, Talk(p, v)
      PROVE  WalkOK(j, day')
  <2>1. /\ j.pc = "look" /\ j.n = i.n + 1 /\ j.copy = i.copy
        /\ j.missed + j.recorded = i.missed + i.recorded + 1
    BY <1>0, <1>1 DEF Talk, Fields, One
  <2>2. j.missed + j.recorded = j.n - 1 => SeenAll(j.n, day')
    <3>1. j.missed + j.recorded = j.n - 1 => SeenAll(i.n, day')
      BY <1>0, <1>1, <2>1 DEF WalkOK
    <3> QED BY <1>0, <1>1, <2>1, <3>1 DEF SeenAll, DayNums
  <2> QED BY <1>0, <1>1, <2>1, <2>2 DEF WalkOK, Walking, Closing
<1>2. ASSUME i.pc \in Walking, Passes(p)
      PROVE  WalkOK(j, day')
  <2>1. /\ j.pc = "look" /\ j.n = i.n + 1 /\ j.copy = i.copy
        /\ j.missed = i.missed /\ j.recorded = i.recorded
    BY <1>2 DEF Passes, Fields
  <2>2. j.missed + j.recorded # j.n - 1
    BY <1>0, <1>2, <2>1 DEF InvOK
  <2> QED BY <1>0, <1>2, <2>1, <2>2 DEF WalkOK, Walking, Closing
<1>3. CASE Count(p)
  <2>1. i.pc \in Walking /\ i.n \in DayNums /\ day[i.n] \in {"missed", "recorded"} /\ day' = day
    BY <1>0, <1>3 DEF Count, Begun, At, Walking, DayNums, InvOK, TypeInv, record
  <2> QED BY <1>1, <1>3, <2>1, Moves
<1>4. CASE Judge(p)
  <2>1. /\ i.pc = "look" /\ i.n \in DayNums /\ dayWindow(i.n, i.at) # "pending"
    BY <1>0, <1>4 DEF Judge, Begun, At, Walking, DayNums, InvOK, Window
  <2>2. Turns(p, IF dayWindow(i.n, i.at) = "closed" \/ i.copy.stop # "none" THEN "miss" ELSE "record")
    BY <1>4, Moves DEF Window
  <2>3. /\ dayWindow(i.n, i.at) = "closed" <=> i.at >= Opens(i.n + 1)
        /\ i.at >= Opens(i.n)
        /\ dayWindow(i.n, i.at) # "closed" => During(i.n, i.at)
    <3>1. /\ dayWindow(i.n, i.at) = "pending" <=> i.at < Opens(i.n)
          /\ dayWindow(i.n, i.at) = "closed" <=> i.at >= Opens(i.n + 1)
      BY <1>0, <2>1, WindowIs
    <3>2. Opens(i.n) \in Nat /\ Opens(i.n + 1) \in Nat
      <4>1. i.n \in Nat /\ i.n + 1 \in Nat
        BY <1>0
      <4> QED BY <4>1, Windows
    <3> QED BY <1>0, <2>1, <3>1, <3>2 DEF During
  <2>4. \/ j.pc = "miss" /\ (i.at >= Opens(i.n + 1) \/ i.copy.stop # "none")
        \/ j.pc = "record" /\ During(i.n, i.at) /\ i.copy.stop = "none"
    BY <2>2, <2>3 DEF Turns, Fields
  <2>5. j.n = i.n /\ j.missed = i.missed /\ j.recorded = i.recorded /\ j.copy = i.copy
    BY <2>2 DEF Turns, Fields
  <2> QED BY <1>0, <2>1, <2>3, <2>4, <2>5 DEF WalkOK, Walking, Closing
<1>5. ASSUME NEW v \in {"missed", "recorded"}, Verdict(p, v), i.pc \in {"miss", "record"}
      PROVE  WalkOK(j, day')
  <2>1. i.pc \in Walking /\ i.n \in DayNums
    BY <1>0, <1>5 DEF InvOK, Walking, DayNums
  <2>2. day'[i.n] # "none"
    BY <1>5, <2>1 DEF Verdict, TypeInv
  <2> QED BY <1>1, <1>2, <1>5, <2>1, <2>2, Moves
<1>6. CASE Skip(p)
  BY <1>2, <1>6, Moves DEF Skip, At, Walking
<1>7. CASE Total(p)
  <2>1. /\ i.pc = "look" /\ (i.n > Days \/ i.at < Opens(i.n)) /\ i.n >= 1
    <3>1. i.pc = "look" /\ i.n >= 1 /\ (i.n > Days \/ dayWindow(i.n, i.at) = "pending")
      BY <1>0, <1>7 DEF Total, Close, Begun, At, Window, InvOK, Walking
    <3> QED BY <1>0, <3>1, WindowIs DEF DayNums
  <2>2. \A k \in DayNums : Opens(k) <= i.at => k < i.n
    <3> SUFFICES ASSUME NEW k \in DayNums, Opens(k) <= i.at, k >= i.n PROVE FALSE
      BY <1>0 DEF DayNums
    <3>1. i.n <= Days /\ k \in Nat
      BY <1>0 DEF DayNums
    <3>2. Opens(i.n) <= Opens(k) /\ Opens(i.n) \in Nat /\ Opens(k) \in Nat
      <4>1. /\ Opens(i.n) \in Nat /\ Opens(i.n + 1) = Opens(i.n) + PerDay
            /\ Opens(k) \in Nat /\ PerDay \in Nat
        BY <1>0, <3>1, Windows
      <4>2. Opens(i.n) <= Opens(k)
        BY <1>0, <3>1, Later
      <4> QED BY <4>1, <4>2
    <3> QED BY <1>0, <2>1, <3>1, <3>2
  <2>3. CASE Over(p)
    <3>1. Ends(p)
      BY <1>7, <2>3, Moves
    <3>2. j.copy.status \in Ended /\ j.pc = "unindex" /\ j.n = i.n
      BY <3>1 DEF Ends, Fields, Finished, Ended, TypeInv, Invocation, Rec
    <3>3. DoneBy(i.at, i.copy.stop, day')
      <4>1. CASE i.missed + i.recorded >= Days
        <5>1. i.n >= Days + 1 /\ i.missed + i.recorded = i.n - 1
          BY <1>0, <2>1, <4>1 DEF InvOK, Walking, Invocation
        <5>2. SeenAll(i.n, day')
          BY <1>0, <2>1, <5>1 DEF WalkOK, Walking
        <5> QED BY <1>0, <5>1, <5>2 DEF SeenAll, DoneBy, DayNums
      <4> QED BY <2>3, <4>1 DEF Over, DoneBy, Opens
    <3> QED BY <1>0, <2>2, <3>2, <3>3 DEF WalkOK, Walking, Closing
  <2>4. CASE ~Over(p)
    <3>1. GoesOn(p)
      BY <1>7, <2>4, Moves
    <3>2. j.copy.status = i.copy.status /\ j.pc = "index" /\ j.n = i.n
      BY <3>1 DEF GoesOn, Fields, Counted, TypeInv, Invocation, Rec
    <3>3. i.copy.status = "watching"
      BY <1>0, <2>1 DEF WalkOK, Walking
    <3> QED BY <1>0, <2>2, <3>2, <3>3 DEF WalkOK, Walking, Closing, Ended
  <2> QED BY <2>3, <2>4
<1>8. CASE Unindex(p) \/ Line(p) \/ Index(p)
  <2>1. i.pc \in Closing /\ (i.pc \in {"unindex", "line"} \/ i.pc = "index")
    BY <1>8 DEF Unindex, Line, Index, IndexAt, At, Closing
  <2>2. PICK l \in {"save", "line"} : Turns(p, l) /\ (l = "line" => i.pc = "unindex")
    BY <1>8, Moves DEF Unindex, At
  <2>3. j.pc = l /\ j.n = i.n /\ j.copy = i.copy
    BY <2>2 DEF Turns, Fields
  <2> QED BY <1>0, <2>1, <2>2, <2>3 DEF WalkOK, Walking, Closing
<1> QED BY <1>3, <1>4, <1>5, <1>6, <1>7, <1>8 DEF SetMissed, SetRecorded, At

LEMMA WalkStep ==
  ASSUME TypeInv, TypeInv', RunsInv, StopsInv, WalkInv, EndInv, [Next]_vars
  PROVE  WalkInv' /\ EndInv'
<1>0. /\ rec.status \in {"watching"} \cup Ended /\ now \in Nat /\ Opens(Days + 1) \in Nat
  BY Windows DEF TypeInv, Rec
<1>1. CASE UNCHANGED vars \/ World
  <2>1. UNCHANGED <<rec, day>> /\ (now' = now \/ now' = now + 1)
    BY <1>1, TickOrPass
  <2>2. EndInv'
    BY <1>0, <2>1 DEF EndInv, DoneBy
  <2>3. ASSUME NEW p \in Procs PROVE WalkOK(inv'[p], day')
    <3>1. /\ inv'[p].pc = inv[p].pc /\ inv'[p].at = inv[p].at
          /\ inv'[p].copy = inv[p].copy /\ inv'[p].n = inv[p].n
          /\ inv'[p].missed = inv[p].missed /\ inv'[p].recorded = inv[p].recorded
      BY <1>1, TickOrPass, Aged
    <3>2. WalkOK(inv[p], day)
      BY DEF WalkInv
    <3> QED BY <2>1, <3>1, <3>2 DEF WalkOK
  <2> QED BY <2>2, <2>3 DEF WalkInv
<1>2. ASSUME NEW p \in Procs, Acts(p)
      PROVE  WalkInv' /\ EndInv'
  <2>1. CASE Goes(p)
    <3>1. UNCHANGED <<rec, now>> /\ Others(p)
      BY <2>1 DEF Goes
    <3>2. EndInv'
      BY <3>1, VerdictsStand DEF EndInv, DoneBy, Grown
    <3>3. CASE \/ Count(p) \/ Judge(p) \/ SetMissed(p) \/ SetRecorded(p) \/ Skip(p)
               \/ Total(p) \/ Unindex(p) \/ Line(p) \/ Index(p)
      BY <2>1, <3>1, <3>2, <3>3, WalkGoes, WalkOthers
    <3>4. CASE Poll(p) \/ Cron(p) \/ Load(p) \/ Save(p) \/ Crash(p) \/ Throw(p)
               \/ \E why \in {"ours", "abuse"} : StopWatch(p, why)
      <4>1. ~Loaded(inv'[p]) \/ ~Loaded(inv[p])
        BY <3>4, Entering, IdleIs DEF Poll, Cron, Run, Called, Load, StopWatch, At, Quits,
           Loaded, Walking, Closing
      <4> QED BY <2>1, <4>1 DEF Goes
    <3> QED BY <1>2, <3>3, <3>4 DEF Acts, Walk
  <2>2. ASSUME Others(p), WalkOK(inv'[p], day')
        PROVE  WalkInv'
    BY <2>2, WalkOthers
  <2>3. CASE Called(p)
    <3>1. UNCHANGED <<rec, day, now>>
      BY <2>3 DEF Called
    <3>2. WalkOK(inv'[p], day')
      BY <2>3, Entering DEF WalkOK, Walking, Closing
    <3> QED BY <2>2, <2>3, <3>1, <3>2, Entering DEF EndInv
  <2>4. ASSUME NEW r \in Rec, r.status = "watching", NEW how, Enters(p, r, how)
        PROVE  WalkInv' /\ EndInv'
    <3>1. WalkOK(inv'[p], day')
      BY <2>4 DEF Enters, WalkOK, Walking, Closing, SeenAll, DayNums, Ended
    <3> QED BY <2>2, <2>4, <3>1 DEF Enters, EndInv
  <2>5. ASSUME NEW why \in {"ours", "abuse"}, StopWatch(p, why)
        PROVE  WalkInv' /\ EndInv'
    <3>1. /\ [rec EXCEPT !.stop = why] \in Rec
          /\ [rec EXCEPT !.stop = why].status = "watching"
      BY <2>5 DEF StopWatch, TypeInv, Rec, StopReason
    <3> QED BY <2>4, <2>5, <3>1, Entering
  <2>6. CASE Load(p) /\ Enters(p, rec, "run") /\ rec.status = "watching"
    BY <2>4, <2>6 DEF TypeInv
  <2>7. ASSUME Quits(p) PROVE WalkOK(inv'[p], day')
    BY <2>7, IdleIs DEF Quits, WalkOK, Idle, Walking, Closing
  <2>8. CASE Quits(p) /\ Save(p)
    <3>1. /\ rec' = inv[p].copy /\ UNCHANGED <<day, now>> /\ inv[p].pc = "save"
      BY <2>8 DEF Save, At
    <3>2. WalkOK(inv[p], day) /\ inv[p].at <= now /\ inv[p].at \in Nat
      BY <3>1 DEF WalkInv, RunsInv, Loaded, Closing, TypeInv, Invocation
    <3>3. rec'.status \in Ended => DoneBy(inv[p].at, rec'.stop, day')
      BY <3>1, <3>2 DEF WalkOK, Closing
    <3>4. EndInv'
      BY <1>0, <3>1, <3>2, <3>3 DEF EndInv, DoneBy
    <3> QED BY <2>2, <2>7, <2>8, <3>4 DEF Quits
  <2>9. CASE Quits(p) /\ UNCHANGED rec
    <3>1. UNCHANGED <<day, now>> /\ Others(p)
      BY <2>9 DEF Quits
    <3> QED BY <2>2, <2>7, <2>9, <3>1 DEF EndInv
  <2> QED BY <1>2, <2>1, <2>3, <2>5, <2>6, <2>8, <2>9, Kinds
<1> QED BY <1>1, <1>2, NextIs

\* What holds of the runs, the stops and the walks, whoever stops whom.
WatchInv == TypeInv /\ RunsInv /\ StopsInv /\ WalkInv /\ EndInv
LEMMA WatchInductive ==
  /\ Init => WatchInv
  /\ WatchInv /\ [Next]_vars => WatchInv'
<1>1. ASSUME Init PROVE WatchInv
  <2>1. \A p \in Procs : inv[p] = Idle
    BY <1>1 DEF Init
  <2>2. rec.stop = "none" /\ rec.status = "watching"
    BY <1>1 DEF Init, Start0
  <2>3. TypeInv
    BY <1>1, Typing
  <2>4. RunsInv
    BY <2>1, IdleIs DEF RunsInv
  <2>5. StopsInv
    BY <2>1, <2>2, IdleIs DEF StopsInv
  <2>6. WalkInv
    BY <2>1 DEF WalkInv, WalkOK, Idle, Walking, Closing
  <2> QED BY <2>2, <2>3, <2>4, <2>5, <2>6 DEF WatchInv, EndInv, Ended
<1>2. ASSUME WatchInv, [Next]_vars PROVE WatchInv'
  BY <1>2, Typing, RunsStep, StopsStep, WalkStep DEF WatchInv
<1> QED BY <1>1, <1>2

----------------------------------------------------------------------------
(* A day is missed by our failure only: while no stop was asked for, each day   *)
(* without a verdict has an invocation or a cron run that will come to it in    *)
(* its window, unless a fault or a lost check or cron run took that one away.   *)

CronAt(k) == Opens(k) + CronPhase
\* The cron is neither due at the first tick of a watch's day nor at its last: an
\* invocation that runs when it is due began in the same day, and so does one
\* that starts then.
MidDay == 0 < CronPhase /\ CronPhase < PerDay - 1

\* The invocation has not come to day k, and its clock was or will be read in it.
HeadOf(i, k, t) ==
  \/ i.pc \in Walking /\ During(k, i.at) /\ i.n <= k
  \/ i.pc = "load" /\ During(k, t) /\ (~i.aged => During(k, t + 1))
PastOf(i, k) == Loaded(i) /\ During(k, i.at) /\ k < i.n
Heads(k) == \E p \in Procs : HeadOf(inv[p], k, now)
Past(k)  == \E p \in Procs : PastOf(inv[p], k)
\* The cron is still due in day k and will find the job in the index.
CronTime(k) ==
  /\ now < CronAt(k) \/ (now = CronAt(k) /\ ~swept)
  /\ active # NoScore /\ active <= CronAt(k)
  /\ now = CronAt(k) /\ lease # NoProc => inv[lease].mode = "run"
Hope(k) == Heads(k) \/ (CronTime(k) /\ ~Past(k))
Given == {k \in DayNums : day[k] = "missed" \/ (day[k] = "none" /\ ~Hope(k))}
GivenInv == stops = {} => Cardinality(Given) <= count.lost + count.faults

LEMMA OneWindow ==
  ASSUME NEW j \in Nat, NEW k \in Nat, NEW t \in Nat, During(j, t), During(k, t)
  PROVE  j = k
<1>1. /\ Opens(j) \in Nat /\ Opens(k) \in Nat /\ PerDay \in Nat
      /\ Opens(j + 1) = Opens(j) + PerDay /\ Opens(k + 1) = Opens(k) + PerDay
  BY Windows
<1>2. j < k => Opens(j) + PerDay <= Opens(k)
  BY Later
<1>3. k < j => Opens(k) + PerDay <= Opens(j)
  BY Later
<1> QED BY <1>1, <1>2, <1>3 DEF During

LEMMA CronTicks ==
  ASSUME MidDay, NEW k \in DayNums
  PROVE  /\ CronAt(k) \in Nat /\ CronAt(k) % PerDay = CronPhase
         /\ During(k, CronAt(k)) /\ During(k, CronAt(k) + 1) /\ During(k, CronAt(k) - 1)
         /\ Opens(k) \in Nat /\ Opens(k + 1) \in Nat
         /\ Opens(k) < CronAt(k) /\ CronAt(k) < Opens(k + 1)
         /\ Opens(k + 1) <= Opens(Days + 1) /\ Opens(Days + 1) \in Nat
<1>1. /\ k \in Nat /\ Days \in Nat /\ k <= Days /\ PerDay \in Nat /\ PerDay > 0
      /\ CronPhase \in 0..(PerDay - 1)
  BY WatchAssumption DEF DayNums
<1>2. /\ Opens(k) \in Nat /\ Opens(k + 1) = Opens(k) + PerDay
      /\ Opens(k + 1) \in Nat /\ Opens(Days + 1) \in Nat
  <2>1. k + 1 \in Nat /\ Days + 1 \in Nat
    BY <1>1
  <2> QED BY <1>1, <2>1, Windows
<1>3. /\ CronAt(k) \in Nat
      /\ During(k, CronAt(k)) /\ During(k, CronAt(k) + 1) /\ During(k, CronAt(k) - 1)
      /\ Opens(k) < CronAt(k) /\ CronAt(k) < Opens(k + 1)
  BY <1>1, <1>2 DEF MidDay, CronAt, During
<1>4. Opens(k + 1) <= Opens(Days + 1)
  <2>1. k + 1 \in Nat /\ Days + 1 \in Nat /\ k + 1 <= Days + 1
    BY <1>1
  <2> QED BY <2>1, Later
<1>5. CronAt(k) % PerDay = CronPhase
  <2> DEFINE t == CronAt(k)
             w == t \div PerDay
  <2>1. /\ w \in Nat /\ t = (PerDay * w) + (t % PerDay)
        /\ t % PerDay \in 0..(PerDay - 1)
    BY <1>3, DivMod
  <2> HIDE DEF w
  <2>2. Opens(w) = PerDay * w /\ Opens(w + 1) = Opens(w) + PerDay /\ Opens(w) \in Nat
    BY <1>1, <2>1, Windows DEF Opens
  <2>3. During(w, t)
    BY <1>1, <1>3, <2>1, <2>2 DEF During
  <2>4. w = k
    BY <1>1, <1>3, <2>1, <2>3, OneWindow
  <2> QED BY <1>1, <1>2, <2>1, <2>2, <2>4 DEF CronAt
<1> QED BY <1>2, <1>3, <1>4, <1>5

\* Without stops there is one invocation at most: the run that holds the lease.
LEMMA OneRun ==
  ASSUME WatchInv, stops = {}, NEW p \in Procs, inv[p].pc # "idle"
  PROVE  /\ inv[p].mode = "run" /\ lease = p
         /\ Loaded(inv[p]) => inv[p].copy.stop = "none"
         /\ \A q \in Procs : q # p => inv[q].pc = "idle"
<1>1. ASSUME NEW q \in Procs, inv[q].pc # "idle"
      PROVE  /\ inv[q].mode = "run" /\ lease = q
             /\ Loaded(inv[q]) => inv[q].copy.stop = "none"
  <2>1. InvOK(inv[q]) /\ inv[q] \in Invocation
    BY DEF WatchInv, TypeInv
  <2>2. inv[q].pc = "load" \/ Loaded(inv[q])
    BY <1>1, <2>1 DEF Invocation, Loaded, Walking, Closing
  <2>3. Loaded(inv[q]) => inv[q].copy.stop = "none"
    BY DEF WatchInv, StopsInv
  <2>4. inv[q].mode = "run"
    BY <1>1, <2>1, <2>2, <2>3 DEF InvOK, Invocation, WatchInv, StopsInv
  <2> QED BY <2>3, <2>4 DEF WatchInv, RunsInv
<1> QED BY <1>1

Solo(p) == \A q \in Procs : q # p => inv[q].pc = "idle"
HopeOf(i, k, t) == HeadOf(i, k, t) \/ (CronTime(k) /\ ~PastOf(i, k))
LEMMA HopeIs ==
  ASSUME NEW p \in Procs, Solo(p), NEW k \in DayNums
  PROVE  Hope(k) <=> HopeOf(inv[p], k, now)
<1>1. \A q \in Procs : q # p => ~HeadOf(inv[q], k, now) /\ ~PastOf(inv[q], k)
  BY DEF Solo, HeadOf, PastOf, Loaded, Walking, Closing
<1> QED BY <1>1 DEF Hope, Heads, Past, HopeOf

LEMMA HopeIsThen ==
  ASSUME NEW p \in Procs, Solo(p)', NEW k \in DayNums
  PROVE  Hope(k)' <=> (HeadOf(inv'[p], k, now') \/ (CronTime(k)' /\ ~PastOf(inv'[p], k)))
<1>1. \A q \in Procs : q # p => ~HeadOf(inv'[q], k, now') /\ ~PastOf(inv'[q], k)
  BY DEF Solo, HeadOf, PastOf, Loaded, Walking, Closing
<1> QED BY <1>1 DEF Hope, Heads, Past

\* A step keeps day k when it takes away no hope for it.
Keeps(k) == /\ day'[k] = "missed" => day[k] = "missed" \/ ~Hope(k)
            /\ day'[k] = "none" /\ Hope(k) => Hope(k)'
LEMMA KeptGiven ==
  ASSUME TypeInv, [Next]_vars, NEW w, \A k \in DayNums : k # w => Keeps(k)
  PROVE  Given' \subseteq Given \cup {w}
<1> SUFFICES ASSUME NEW k \in DayNums, k # w, k \in Given' PROVE k \in Given
  BY DEF Given
<1>1. day[k] \in {"none", "recorded", "missed"} /\ (day[k] # "none" => day'[k] = day[k])
  BY VerdictsStand DEF TypeInv, Grown
<1>2. day'[k] = "missed" \/ (day'[k] = "none" /\ ~Hope(k)')
  BY DEF Given
<1> QED BY <1>1, <1>2 DEF Keeps, Given

LEMMA GoesKeeps ==
  ASSUME WatchInv, WatchInv', MidDay, stops = {}, [Next]_vars, NEW p \in Procs,
         \/ Count(p) \/ Judge(p) \/ SetMissed(p) \/ SetRecorded(p) \/ Skip(p)
         \/ Total(p) \/ Unindex(p) \/ Line(p) \/ Index(p),
         NEW k \in DayNums, k # inv[p].n \/ ~Skip(p)
  PROVE  Keeps(k)
<1> DEFINE i == inv[p]
           j == inv'[p]
<1>1. Goes(p)
  BY Going DEF WatchInv
<1>2. Solo(p) /\ Solo(p)' /\ lease = p /\ i.mode = "run" /\ i.copy.stop = "none"
  <2>1. i.pc # "idle" /\ Loaded(i)
    BY <1>1 DEF Goes, Loaded, Walking, Closing
  <2> QED BY <1>1, <2>1, OneRun DEF Solo, Goes, Others
<1>3. /\ Hope(k) <=> HopeOf(i, k, now)
      /\ Hope(k)' <=> (HeadOf(j, k, now') \/ (CronTime(k)' /\ ~PastOf(j, k)))
  BY <1>2, HopeIs, HopeIsThen
<1>4. /\ j.at = i.at /\ i.at \in Nat /\ now \in Nat /\ i.at <= now /\ now <= i.at + 1
      /\ i.n \in Nat /\ k \in Nat /\ Loaded(i) /\ Loaded(j) /\ now' = now
      /\ WalkOK(i, day) /\ WalkOK(j, day') /\ TypeInv
  <2>1. TypeInv /\ WalkOK(i, day) /\ WalkOK(j, day') /\ Loaded(i) /\ Loaded(j)
        /\ j.at = i.at /\ now' = now
    BY <1>1 DEF Goes, WatchInv, WalkInv
  <2>2. i \in Invocation /\ now \in Nat /\ k \in Nat
    BY DEF WatchInv, TypeInv, DayNums
  <2>3. i.at \in Nat /\ i.n \in Nat
    BY <2>2 DEF Invocation
  <2>4. i.at <= now /\ now <= i.at + 1
    BY <2>1 DEF WatchInv, RunsInv
  <2> QED BY <2>1, <2>2, <2>3, <2>4
<1>5. /\ CronAt(k) \in Nat /\ Opens(k) \in Nat /\ Opens(k + 1) \in Nat
      /\ Opens(k) < CronAt(k) /\ CronAt(k) < Opens(k + 1)
      /\ Opens(k + 1) <= Opens(Days + 1) /\ Opens(Days + 1) \in Nat
  BY CronTicks
<1>6. swept' = swept
  BY DEF Count, Judge, SetMissed, SetRecorded, Verdict, Skip, Total, Close, Unindex,
         Line, Index, IndexAt, around
<1>7. ASSUME active' = active PROVE CronTime(k) => CronTime(k)'
  BY <1>1, <1>2, <1>6, <1>7 DEF CronTime, Goes
\* The steps of the walk.
<1>8. ASSUME i.pc \in Walking, j.pc \in Walking, active' = active,
             j.n = i.n \/ (j.n = i.n + 1 /\ (i.n = k => day'[k] # "none")),
             day'[k] = "missed" => day[k] = "missed" \/ ~Hope(k)
      PROVE  Keeps(k)
  <2>1. ASSUME day'[k] = "none", HeadOf(i, k, now) PROVE HeadOf(j, k, now')
    BY <1>4, <1>8, <2>1 DEF HeadOf, Walking
  <2>2. ASSUME day'[k] = "none", PastOf(j, k) PROVE PastOf(i, k)
    BY <1>4, <1>8, <2>2 DEF PastOf
  <2> HIDE DEF i, j
  <2> QED BY <1>3, <1>7, <1>8, <2>1, <2>2 DEF Keeps, HopeOf
\* The steps after it.
<1>9. ASSUME j.pc \in Closing, ~HeadOf(i, k, now), UNCHANGED day,
             CronTime(k) /\ ~PastOf(i, k) /\ day[k] = "none" => CronTime(k)',
             j.n = i.n
      PROVE  Keeps(k)
  <2>1. PastOf(j, k) => PastOf(i, k)
    BY <1>4, <1>9 DEF PastOf
  <2> HIDE DEF i, j
  <2> QED BY <1>3, <1>9, <2>1 DEF Keeps, HopeOf
<1>10. CASE Count(p)
  <2>1. /\ i.pc = "look" /\ UNCHANGED <<day, active>> /\ day[i.n] # "none"
    BY <1>10 DEF Count, Begun, At, record
  <2>2. j.pc = "look" /\ j.n = i.n + 1
    BY <1>4, <1>10, Moves DEF Talk, Fields
  <2> QED BY <1>8, <2>1, <2>2 DEF Walking
<1>11. CASE Judge(p)
  <2>1. /\ i.pc = "look" /\ UNCHANGED <<day, active>>
    BY <1>11 DEF Judge, Begun, At, record
  <2>2. j.pc \in {"miss", "record"} /\ j.n = i.n
    BY <1>4, <1>11, Moves DEF Turns, Fields
  <2> QED BY <1>8, <2>1, <2>2 DEF Walking
<1>12. ASSUME NEW v \in {"missed", "recorded"}, Verdict(p, v), i.pc \in {"miss", "record"},
              v = "missed" => i.pc = "miss"
       PROVE  Keeps(k)
  <2>1. j.pc = "look" /\ j.n = i.n + 1
    BY <1>4, <1>12, Moves DEF Talk, Passes, Fields
  <2>2. active' = active /\ (i.n = k => day'[k] # "none")
    BY <1>4, <1>12 DEF Verdict, TypeInv
  <2>3. ASSUME day'[k] = "missed", day[k] # "missed" PROVE ~Hope(k)
    <3>1. v = "missed" /\ i.n = k
      BY <1>4, <1>12, <2>3 DEF Verdict, TypeInv
    <3>2. i.at >= Opens(k + 1) /\ i.pc = "miss"
      BY <1>2, <1>4, <1>12, <3>1 DEF WalkOK
    <3>3. ~HeadOf(i, k, now)
      BY <1>4, <1>5, <3>2 DEF HeadOf, During
    <3>4. ~CronTime(k)
      BY <1>4, <1>5, <3>2 DEF CronTime
    <3> HIDE DEF i
    <3> QED BY <1>3, <3>3, <3>4 DEF HopeOf
  <2> QED BY <1>8, <1>12, <2>1, <2>2, <2>3 DEF Walking
<1>13. CASE Skip(p)
  <2>1. i.pc = "record" /\ active' = active
    BY <1>13 DEF Skip, At
  <2>2. j.pc = "look" /\ j.n = i.n + 1
    BY <1>4, <1>13, Moves DEF Passes, Fields
  <2>3. i.n # k /\ day'[k] = day[k]
    BY <1>4, <1>13 DEF Skip, TypeInv
  <2> QED BY <1>8, <2>1, <2>2, <2>3 DEF Walking
<1>14. CASE Total(p)
  <2>1. i.pc = "look" /\ UNCHANGED <<day, active>>
    BY <1>14 DEF Total, Close, At, record
  <2>2. j.pc \in {"unindex", "index"} /\ j.n = i.n
    BY <1>4, <1>14, Moves DEF Ends, GoesOn, Fields
  <2>3. ~HeadOf(i, k, now)
    BY <1>4, <2>1, <2>2 DEF HeadOf, WalkOK, Closing, During
  <2> QED BY <1>7, <1>9, <2>1, <2>2, <2>3 DEF Closing
<1>15. CASE Unindex(p) \/ Line(p) \/ Index(p)
  <2>1. i.pc \in {"unindex", "line", "index"} /\ UNCHANGED day
    BY <1>15 DEF Unindex, Line, Index, IndexAt, At
  <2>2. j.pc \in Closing /\ j.n = i.n
    BY <1>4, <1>15, Moves DEF Turns, Fields, Closing
  <2>3. ~HeadOf(i, k, now)
    BY <2>1 DEF HeadOf, Walking
  <2>4. ASSUME CronTime(k), ~PastOf(i, k), day[k] = "none" PROVE CronTime(k)'
    <3>1. CASE Line(p)
      BY <1>7, <2>4, <3>1 DEF Line
    <3>2. CASE Unindex(p)
      <4>1. i.pc = "unindex" /\ i.at < Opens(Days + 1)
        BY <1>4, <1>5, <2>4, <3>2 DEF Unindex, At, CronTime
      <4>2. DoneBy(i.at, i.copy.stop, day)
        BY <1>4, <4>1 DEF WalkOK, Closing
      <4> QED BY <1>2, <1>4, <1>5, <2>4, <4>1, <4>2 DEF DoneBy
    <3>3. CASE Index(p)
      <4>1. active' = NextScore(i.at) /\ i.pc = "index"
        BY <3>3 DEF Index, IndexAt, At
      <4>2. i.at < Opens(k)
        <5>1. Opens(k) <= i.at => k < i.n
          BY <1>4, <4>1 DEF WalkOK, Closing
        <5>2. i.at < Opens(k + 1)
          BY <1>4, <1>5, <2>4 DEF CronTime
        <5> QED BY <1>4, <1>5, <2>4, <5>1, <5>2 DEF PastOf, During
      <4>3. active' <= CronAt(k) /\ active' \in Nat
        <5>1. NextScore(i.at) \in Nat /\ NextScore(i.at) <= Opens(k)
          BY <1>4, <4>2, Score
        <5> QED BY <1>5, <4>1, <5>1
      <4>4. now' = now /\ swept' = swept /\ lease' = lease /\ inv'[p].mode = "run"
        BY <1>1, <1>2, <1>4, <1>6 DEF Goes
      <4> QED BY <1>2, <2>4, <4>3, <4>4 DEF CronTime, NoScore
    <3> QED BY <1>15, <3>1, <3>2, <3>3
  <2> QED BY <1>9, <2>1, <2>2, <2>3, <2>4
<1> HIDE DEF i, j
<1>16. SetMissed(p) => i.pc = "miss" /\ Verdict(p, "missed")
  BY DEF SetMissed, At, i
<1>17. SetRecorded(p) => i.pc = "record" /\ Verdict(p, "recorded")
  BY DEF SetRecorded, At, i
<1> QED BY <1>10, <1>11, <1>12, <1>13, <1>14, <1>15, <1>16, <1>17

\* A way in or out keeps every day, but a failure takes the day it worked on.
LEMMA ComesAndGoesKeep ==
  ASSUME WatchInv, WatchInv', MidDay, stops = {}, stops' = {}, [Next]_vars, NEW p \in Procs,
         \/ Poll(p) \/ Cron(p) \/ Load(p) \/ Save(p) \/ Crash(p) \/ Throw(p)
  PROVE  \E w \in Nat : \A k \in DayNums : k # w \/ ~(Crash(p) \/ Throw(p)) => Keeps(k)
<1> DEFINE i == inv[p]
           j == inv'[p]
<1>1. Solo(p) /\ Solo(p)' /\ now' = now /\ day' = day
  <2>1. Others(p) /\ now' = now /\ day' = day
    <3>1. CASE Poll(p) \/ Cron(p)
      BY <3>1, Entering DEF Poll, Cron, Run, Called, WatchInv
    <3>2. CASE Load(p) \/ Save(p) \/ Crash(p) \/ Throw(p)
      BY <3>2, Entering DEF Enters, Quits, WatchInv
    <3> QED BY <3>1, <3>2
  <2>2. i.pc = "idle" => lease = NoProc
    BY DEF Poll, Cron, Run, Load, Save, Crash, Throw, At
  <2>3. Solo(p)
    <3> SUFFICES ASSUME NEW q \in Procs, q # p, inv[q].pc # "idle" PROVE FALSE
      BY DEF Solo
    <3> QED BY <2>2, OneRun, WatchAssumption
  <2> QED BY <2>1, <2>3 DEF Solo, Others
<1>2. \A k \in DayNums :
        /\ Hope(k) <=> HopeOf(i, k, now)
        /\ Hope(k)' <=> (HeadOf(j, k, now') \/ (CronTime(k)' /\ ~PastOf(j, k)))
  BY <1>1, HopeIs, HopeIsThen
<1>3. now \in Nat /\ i.at \in Nat /\ i \in Invocation /\ InvOK(i)
  <2>1. i \in Invocation
    BY DEF WatchInv, TypeInv
  <2> QED BY <2>1 DEF WatchInv, TypeInv, Invocation
<1>4. ASSUME NEW k \in DayNums,
             HopeOf(i, k, now) /\ day[k] = "none"
               => HeadOf(j, k, now') \/ (CronTime(k)' /\ ~PastOf(j, k))
      PROVE  Keeps(k)
  BY <1>1, <1>2, <1>4 DEF Keeps
<1>5. CASE Poll(p) \/ Cron(p)
  <2>1. /\ i.pc = "idle" /\ active' = active /\ lease' = p
        /\ j.pc = "load" /\ j.mode = "run"
        /\ Poll(p) => swept' = swept
        /\ Cron(p) => now % PerDay = CronPhase
    <3>1. /\ Called(p) /\ i.pc = "idle" /\ active' = active /\ lease' = p
          /\ Poll(p) => swept' = swept
          /\ Cron(p) => now % PerDay = CronPhase
      BY <1>5 DEF Poll, Cron, Run, Called, At, CronDue
    <3> QED BY <3>1, Entering DEF WatchInv
  <2>2. ASSUME NEW k \in DayNums, HopeOf(i, k, now)
        PROVE  HeadOf(j, k, now') \/ (CronTime(k)' /\ ~PastOf(j, k))
    <3>1. CronTime(k) /\ CronAt(k) \in Nat
          /\ During(k, CronAt(k)) /\ During(k, CronAt(k) + 1)
      BY <2>1, <2>2, CronTicks DEF HopeOf, HeadOf, Walking
    <3>2. ~PastOf(j, k)
      BY <2>1 DEF PastOf, Loaded, Walking, Closing
    <3>3. CASE now < CronAt(k)
      BY <1>1, <1>3, <2>1, <3>1, <3>2, <3>3 DEF CronTime
    <3>4. CASE now = CronAt(k)
      BY <1>1, <2>1, <3>1, <3>4 DEF HeadOf
    <3> QED BY <3>1, <3>3, <3>4 DEF CronTime
  <2>3. \A k \in DayNums : Keeps(k)
    BY <1>4, <2>2
  <2> QED BY <2>3
<1>6. CASE Load(p) \/ Save(p)
  <2>1. /\ i.pc \in {"load", "save"} /\ lease = p /\ i.mode = "run" /\ rec.stop = "none"
    <3>1. i.pc \in {"load", "save"}
      BY <1>6 DEF Load, Save, At
    <3>2. rec.stop = "none"
      BY DEF WatchInv, StopsInv
    <3> QED BY <3>1, <3>2, OneRun
  <2>2. active' = active /\ swept' = swept
    BY <1>6 DEF Load, Save, around
  <2>3. ASSUME NEW k \in DayNums, CronTime(k), ~Loaded(j) \/ j.n = 1,
               lease' = NoProc \/ (lease' = p /\ inv'[lease'].mode = "run")
        PROVE  CronTime(k)' /\ ~PastOf(j, k)
    <3>1. CronTime(k)'
      BY <1>1, <2>2, <2>3 DEF CronTime
    <3>2. ~PastOf(j, k)
      BY <2>3 DEF PastOf, DayNums
    <3> QED BY <3>1, <3>2
  <2>4. CASE Load(p) /\ rec.status = "watching"
    <3>1. /\ j.pc = "look" /\ j.at = now /\ j.n = 1 /\ lease' = lease /\ j.mode = "run"
      BY <2>4, Entering DEF Enters, Quits, WatchInv
    <3>2. ASSUME NEW k \in DayNums, HopeOf(i, k, now)
          PROVE  HeadOf(j, k, now') \/ (CronTime(k)' /\ ~PastOf(j, k))
      <4>1. CASE HeadOf(i, k, now)
        BY <2>4, <3>1, <4>1 DEF HeadOf, Load, At, Walking, DayNums
      <4>2. CASE CronTime(k)
        BY <2>1, <2>3, <3>1, <4>2
      <4> QED BY <3>2, <4>1, <4>2 DEF HopeOf
    <3>3. \A k \in DayNums : Keeps(k)
      BY <1>4, <3>2
    <3> QED BY <3>3
  <2>5. CASE Save(p) \/ rec.status # "watching"
    <3>1. j = Idle /\ lease' = NoProc
      <4>1. Leave(p) /\ Release(p)
        BY <1>6, <2>5 DEF Load, Save
      <4>2. j = Idle
        BY <4>1, WalkMoves, Changes DEF WatchInv
      <4> QED BY <2>1, <4>1, <4>2 DEF Release
    <3>2. ASSUME NEW k \in DayNums, HopeOf(i, k, now), day[k] = "none"
          PROVE  CronTime(k)' /\ ~PastOf(j, k)
      <4>1. ~HeadOf(i, k, now)
        <5>1. CASE i.pc = "save"
          BY <5>1 DEF HeadOf, Walking
        <5>2. CASE i.pc = "load"
          <6>1. DoneBy(now, rec.stop, day)
            <7>1. rec.status \in Ended
              BY <1>6, <2>5, <5>2 DEF Save, At, WatchInv, TypeInv, Rec
            <7> QED BY <7>1 DEF WatchInv, EndInv
          <6>2. now >= Opens(Days + 1)
            BY <2>1, <3>2, <6>1 DEF DoneBy
          <6>3. ~During(k, now)
            BY <1>3, <6>2, CronTicks DEF During
          <6> QED BY <5>2, <6>3 DEF HeadOf, Walking
        <5> QED BY <2>1, <5>1, <5>2
      <4>2. CronTime(k)
        BY <3>2, <4>1 DEF HopeOf
      <4>3. ~Loaded(j)
        BY <3>1, IdleIs
      <4> QED BY <2>3, <3>1, <4>2, <4>3
    <3>3. \A k \in DayNums : Keeps(k)
      BY <1>4, <3>2
    <3> QED BY <3>3
  <2> QED BY <1>6, <2>4, <2>5
<1>7. CASE Crash(p) \/ Throw(p)
  <2>1. PICK w \in Nat : During(w, IF i.pc = "load" THEN now ELSE i.at)
    BY <1>3, Windows
  <2>2. j = Idle /\ UNCHANGED <<active, swept>> /\ i.pc # "idle"
        /\ (lease' = lease \/ lease' = NoProc)
    BY <1>7, Entering DEF Quits, Crash, Throw, At, WatchInv
  <2>3. i.pc = "load" \/ (Loaded(i) /\ i.at <= now /\ now <= i.at + 1)
    <3>1. i.pc = "load" \/ Loaded(i)
      BY <1>3, <2>2 DEF Invocation, Loaded, Walking, Closing
    <3> QED BY <3>1 DEF WatchInv, RunsInv
  <2>4. ASSUME NEW k \in DayNums, k # w, HopeOf(i, k, now)
        PROVE  CronTime(k)' /\ ~PastOf(j, k)
    <3>1. k \in Nat /\ CronAt(k) \in Nat /\ During(k, CronAt(k)) /\ During(k, CronAt(k) - 1)
      BY CronTicks DEF DayNums
    <3>2. ~HeadOf(i, k, now)
      <4>1. ~During(k, IF i.pc = "load" THEN now ELSE i.at)
        BY <1>3, <2>1, <2>4, <3>1, OneWindow
      <4> QED BY <4>1 DEF HeadOf, Walking
    <3>3. CronTime(k)
      BY <2>4, <3>2 DEF HopeOf
    <3>4. now # CronAt(k)
      <4> SUFFICES ASSUME now = CronAt(k) PROVE FALSE
        OBVIOUS
      <4>1. i.pc # "load" => i.at = CronAt(k) \/ i.at = CronAt(k) - 1
        BY <1>3, <2>3, <3>1
      <4>2. During(k, IF i.pc = "load" THEN now ELSE i.at)
        BY <3>1, <4>1
      <4> QED BY <1>3, <2>1, <2>4, <3>1, <4>2, OneWindow
    <3>5. CronTime(k)'
      BY <1>1, <2>2, <3>3, <3>4 DEF CronTime
    <3> QED BY <2>2, <3>5, IdleIs DEF PastOf
  <2>5. \A k \in DayNums : k # w => Keeps(k)
    BY <1>4, <2>4
  <2> QED BY <1>7, <2>5
<1> QED BY <1>5, <1>6, <1>7

\* Time passes with the cron: only a cron run that does not happen takes a day.
LEMMA TimeKeeps ==
  ASSUME WatchInv, WatchInv', MidDay, stops = {}, [Next]_vars, UNCHANGED vars \/ World
  PROVE  \E w \in Nat : \A k \in DayNums : k # w \/ ~CronLost => Keeps(k)
<1>0. now \in Nat /\ day' = day
  BY TickOrPass DEF WatchInv, TypeInv
<1>1. ASSUME NEW k \in DayNums, Heads(k) => Heads(k)',
             ~Heads(k) /\ CronTime(k) /\ ~Past(k) => CronTime(k)' /\ ~Past(k)'
      PROVE  Keeps(k)
  BY <1>0, <1>1 DEF Keeps, Hope
<1>2. PICK w \in Nat : During(w, now)
  BY <1>0, Windows
<1>3. CASE UNCHANGED vars
  <2>1. \A k \in DayNums : Keeps(k)
    BY <1>3 DEF Keeps, Hope, Heads, Past, CronTime, vars, record, around
  <2> QED BY <2>1
<1>4. ASSUME CronPass \/ CronLost, NEW k \in DayNums, k # w \/ ~CronLost
      PROVE  Keeps(k)
  <2>1. /\ UNCHANGED <<record, now, inv>> /\ swept' = TRUE /\ ~swept
        /\ CronPass => active = NoScore \/ active > now \/ lease # NoProc
    BY <1>4 DEF CronPass, CronLost, CronDue
  <2>2. (Heads(k) <=> Heads(k)') /\ (Past(k) <=> Past(k)')
    BY <2>1 DEF Heads, Past
  <2>3. ASSUME ~Heads(k), CronTime(k), ~Past(k) PROVE CronTime(k)'
    <3>1. /\ CronAt(k) \in Nat /\ During(k, CronAt(k)) /\ During(k, CronAt(k) + 1)
          /\ During(k, CronAt(k) - 1) /\ k \in Nat
      BY CronTicks DEF DayNums
    <3>2. CASE now < CronAt(k)
      BY <1>0, <2>1, <2>3, <3>1, <3>2 DEF CronTime, record
    <3>3. CASE now = CronAt(k)
      <4>1. CronPass
        BY <1>0, <1>2, <1>4, <3>1, <3>3, OneWindow
      <4>2. lease # NoProc /\ inv[lease].mode = "run" /\ lease \in Procs
        <5>1. active # NoScore /\ active <= now /\ active \in Nat
          BY <2>3, <3>3 DEF CronTime, WatchInv, TypeInv
        <5>2. lease # NoProc
          BY <1>0, <2>1, <4>1, <5>1
        <5> QED BY <2>3, <3>3, <5>2 DEF CronTime, WatchInv, TypeInv
      <4> DEFINE i == inv[lease]
      <4>3. i \in Invocation /\ InvOK(i) /\ WalkOK(i, day)
        BY <4>2 DEF WatchInv, TypeInv, WalkInv
      <4>4. i.pc = "load" \/ (Loaded(i) /\ i.at <= now /\ now <= i.at + 1)
        <5>1. i.pc = "load" \/ Loaded(i)
          BY <4>2, <4>3 DEF InvOK, Invocation, Loaded, Walking, Closing
        <5> QED BY <4>2, <5>1 DEF WatchInv, RunsInv
      <4>5. i.at \in Nat /\ i.n \in Nat
        BY <4>3 DEF Invocation
      <4>6. CASE i.pc = "load"
        BY <2>3, <3>1, <3>3, <4>2, <4>6 DEF Heads, HeadOf
      <4>7. CASE Loaded(i) /\ During(k, i.at)
        <5>1. i.n <= k
          BY <2>3, <3>1, <4>2, <4>5, <4>7 DEF Past, PastOf
        <5>2. i.pc \in Walking
          BY <3>1, <4>3, <4>5, <4>7, <5>1 DEF WalkOK, Loaded, During
        <5> QED BY <2>3, <4>2, <4>7, <5>1, <5>2 DEF Heads, HeadOf
      <4>8. Loaded(i) => i.at = CronAt(k) \/ i.at = CronAt(k) - 1 \/ i.pc = "load"
        BY <1>0, <3>1, <3>3, <4>4, <4>5
      <4> QED BY <3>1, <4>4, <4>6, <4>7, <4>8
    <3> QED BY <2>3, <3>2, <3>3 DEF CronTime
  <2> QED BY <1>1, <2>2, <2>3
<1>5. ASSUME Tick, NEW k \in DayNums
      PROVE  Keeps(k)
  <2>1. /\ now' = now + 1 /\ swept' = FALSE /\ active' = active /\ ~CronDue
        /\ lease' = (IF lease # NoProc /\ inv[lease].mode = "run" THEN lease ELSE NoProc)
        /\ \A p \in Procs : ~inv[p].aged
    BY <1>5 DEF Tick
  <2>2. \A p \in Procs : /\ inv'[p].pc = inv[p].pc /\ inv'[p].at = inv[p].at
                         /\ inv'[p].n = inv[p].n /\ inv'[p].mode = inv[p].mode
                         /\ (inv'[p].aged <=> inv[p].pc # "idle")
    <3> SUFFICES ASSUME NEW p \in Procs
                 PROVE  /\ inv'[p].pc = inv[p].pc /\ inv'[p].at = inv[p].at
                        /\ inv'[p].n = inv[p].n /\ inv'[p].mode = inv[p].mode
                        /\ (inv'[p].aged <=> inv[p].pc # "idle")
      OBVIOUS
    <3>1. inv'[p] = [inv[p] EXCEPT !.aged = ~At(p, "idle")]
      BY <1>5 DEF Tick
    <3> QED BY <3>1, Aged DEF WatchInv
  <2>3. Heads(k) => Heads(k)'
    <3> SUFFICES ASSUME NEW p \in Procs, HeadOf(inv[p], k, now)
                 PROVE  HeadOf(inv'[p], k, now')
      BY DEF Heads
    <3> QED BY <2>1, <2>2 DEF HeadOf
  <2>4. Past(k)' => Past(k)
    BY <2>2 DEF Past, PastOf, Loaded
  <2>5. CronTime(k) => CronTime(k)'
    <3> SUFFICES ASSUME CronTime(k) PROVE CronTime(k)'
      OBVIOUS
    <3>1. CronAt(k) \in Nat /\ CronAt(k) % PerDay = CronPhase
      BY CronTicks
    <3>2. now < CronAt(k)
      BY <2>1, <3>1 DEF CronTime, CronDue
    <3>3. now' < CronAt(k) \/ now' = CronAt(k)
      BY <1>0, <2>1, <3>1, <3>2
    <3>4. lease' # NoProc => inv'[lease'].mode = "run"
      <4>1. lease \in Procs \cup {NoProc}
        BY DEF WatchInv, TypeInv
      <4> QED BY <2>1, <2>2, <4>1
    <3> QED BY <2>1, <3>3, <3>4 DEF CronTime
  <2> QED BY <1>1, <2>3, <2>4, <2>5
<1> QED BY <1>2, <1>3, <1>4, <1>5 DEF World

LEMMA GivenStep ==
  ASSUME WatchInv, WatchInv', MidDay, GivenInv, [Next]_vars
  PROVE  GivenInv'
<1> SUFFICES ASSUME stops' = {} PROVE Cardinality(Given') <= count'.lost + count'.faults
  BY DEF GivenInv
<1> DEFINE cost == count.lost + count.faults
<1>0. /\ TypeInv /\ stops = {} /\ count.lost \in Nat /\ count.faults \in Nat
  <2>1. stops \subseteq stops'
    <3>1. CASE UNCHANGED vars \/ World
      BY <3>1, TickOrPass DEF WatchInv
    <3>2. ASSUME NEW p \in Procs, Acts(p) PROVE stops \subseteq stops'
      BY <3>2, Kinds DEF WatchInv, Goes, Quits
    <3> QED BY <3>1, <3>2, NextIs
  <2> QED BY <2>1 DEF WatchInv, TypeInv
<1>1. /\ IsFiniteSet(Given) /\ Cardinality(Given) \in Nat /\ Cardinality(Given) <= cost
  <2>1. IsFiniteSet(DayNums)
    <3>1. 1 \in Int /\ Days \in Int
      BY WatchAssumption
    <3> QED BY <3>1, FS_Interval DEF DayNums
  <2>2. IsFiniteSet(Given)
    BY <2>1, FS_Subset DEF Given
  <2> QED BY <1>0, <2>2, FS_CardinalityType DEF GivenInv
<1>2. ASSUME NEW w, Given' \subseteq Given \cup {w}
      PROVE  Cardinality(Given') <= cost + 1
  <2>1. /\ IsFiniteSet(Given \cup {w}) /\ Cardinality(Given \cup {w}) \in Nat
        /\ Cardinality(Given \cup {w}) <= Cardinality(Given) + 1
    <3> HIDE DEF Given
    <3>1. /\ IsFiniteSet(Given \cup {w})
          /\ Cardinality(Given \cup {w})
               = IF w \in Given THEN Cardinality(Given) ELSE Cardinality(Given) + 1
      BY <1>1, FS_AddElement
    <3> QED BY <1>1, <3>1, FS_CardinalityType
  <2>2. Cardinality(Given') <= Cardinality(Given \cup {w}) /\ Cardinality(Given') \in Nat
    BY <1>2, <2>1, FS_Subset, FS_CardinalityType
  <2> HIDE DEF Given
  <2> QED BY <1>0, <1>1, <2>1, <2>2
<1>3. ASSUME Given' \subseteq Given
      PROVE  Cardinality(Given') <= cost
  <2>1. Cardinality(Given') <= Cardinality(Given) /\ Cardinality(Given') \in Nat
    BY <1>1, <1>3, FS_Subset, FS_CardinalityType
  <2> HIDE DEF Given
  <2> QED BY <1>0, <1>1, <2>1
\* A step that pays for one day may take one.
<1>4. ASSUME NEW w, \A k \in DayNums : k # w => Keeps(k),
             \/ Bump("lost", MaxLost) \/ Bump("faults", MaxFaults)
      PROVE  Cardinality(Given') <= count'.lost + count'.faults
  <2>1. Cardinality(Given') <= cost + 1
    BY <1>0, <1>2, <1>4, KeptGiven
  <2>2. count'.lost + count'.faults = cost + 1
    <3>1. CASE Bump("lost", MaxLost)
      <4>1. count'["lost"] = count["lost"] + 1 /\ count'["faults"] = count["faults"]
        BY <1>0, <3>1, BumpTypes
      <4> QED BY <1>0, <4>1
    <3>2. CASE Bump("faults", MaxFaults)
      <4>1. count'["faults"] = count["faults"] + 1 /\ count'["lost"] = count["lost"]
        BY <1>0, <3>2, BumpTypes
      <4> QED BY <1>0, <4>1
    <3> QED BY <1>4, <3>1, <3>2
  <2> QED BY <2>1, <2>2
\* Every other step takes none.
<1>5. ASSUME \A k \in DayNums : Keeps(k),
             count'.lost = count.lost /\ count'.faults = count.faults
      PROVE  Cardinality(Given') <= count'.lost + count'.faults
  <2>1. Given' \subseteq Given \cup {0}
    BY <1>0, <1>5, KeptGiven
  <2>2. 0 \notin Given'
    BY DEF Given, DayNums
  <2>3. Cardinality(Given') <= cost
    BY <1>3, <2>1, <2>2
  <2> QED BY <1>5, <2>3
<1>6. CASE UNCHANGED vars \/ World
  <2>1. PICK w \in Nat : \A k \in DayNums : k # w \/ ~CronLost => Keeps(k)
    BY <1>0, <1>6, TimeKeeps
  <2>2. CASE CronLost
    BY <1>4, <2>1, <2>2 DEF CronLost
  <2>3. CASE ~CronLost
    <3>1. count' = count
      BY <1>6, <2>3 DEF World, CronPass, Tick, vars, around
    <3> QED BY <1>5, <2>1, <2>3, <3>1
  <2> QED BY <2>2, <2>3
<1>7. ASSUME NEW p \in Procs,
             \/ Poll(p) \/ Cron(p) \/ Load(p) \/ Save(p) \/ Crash(p) \/ Throw(p)
      PROVE  Cardinality(Given') <= count'.lost + count'.faults
  <2>1. PICK w \in Nat : \A k \in DayNums : k # w \/ ~(Crash(p) \/ Throw(p)) => Keeps(k)
    BY <1>0, <1>7, ComesAndGoesKeep
  <2>2. CASE Crash(p) \/ Throw(p)
    BY <1>4, <2>1, <2>2 DEF Crash, Throw
  <2>3. CASE ~(Crash(p) \/ Throw(p))
    <3>1. count'["lost"] = count["lost"] /\ count'["faults"] = count["faults"]
      <4>1. CASE Poll(p)
        <5>1. Bump("polls", MaxPolls)
          BY <4>1 DEF Poll
        <5> QED BY <1>0, <5>1, BumpTypes
      <4>2. CASE ~Poll(p)
        BY <1>7, <2>3, <4>2 DEF Cron, Load, Save, around
      <4> QED BY <4>1, <4>2
    <3> QED BY <1>5, <2>1, <2>3, <3>1
  <2> QED BY <2>2, <2>3
<1>8. ASSUME NEW p \in Procs,
             \/ Count(p) \/ Judge(p) \/ SetMissed(p) \/ SetRecorded(p) \/ Skip(p)
             \/ Total(p) \/ Unindex(p) \/ Line(p) \/ Index(p)
      PROVE  Cardinality(Given') <= count'.lost + count'.faults
  <2>1. \A k \in DayNums : k # inv[p].n \/ ~Skip(p) => Keeps(k)
    BY <1>0, <1>8, GoesKeeps
  <2>2. CASE Skip(p)
    BY <1>4, <2>1, <2>2 DEF Skip
  <2>3. CASE ~Skip(p)
    <3>1. count' = count
      BY <1>8, <2>3 DEF Count, Judge, SetMissed, SetRecorded, Verdict, Total, Close,
         Unindex, Line, Index, IndexAt, around
    <3> QED BY <1>5, <2>1, <2>3, <3>1
  <2> QED BY <2>2, <2>3
<1>9. ASSUME NEW p \in Procs, NEW why \in {"ours", "abuse"}, StopWatch(p, why)
      PROVE  FALSE
  BY <1>9 DEF StopWatch
<1> QED BY <1>6, <1>7, <1>8, <1>9, NextIs DEF Acts, Walk

\* A day is missed by our failure only: until a stop is asked for, no more days are
\* missed than checks or cron runs did not happen and invocations failed, however
\* the buyer's polls and the cron interleave.  The cron must be due in the middle
\* of the watch's day (MidDay): a poll that is under way when a window opens keeps
\* the lease over the window's first tick.
THEOREM OnlyOurFailuresMiss == ASSUME MidDay PROVE Spec => []MissedIsOurs
<1>1. Init => GivenInv
  <2> SUFFICES ASSUME Init PROVE Given = {}
    <3>1. ASSUME Init PROVE count.lost + count.faults = 0
      BY <3>1 DEF Init
    <3>2. Cardinality({}) = 0
      BY FS_EmptySet
    <3> QED BY <3>1, <3>2 DEF GivenInv
  <2> SUFFICES ASSUME NEW k \in DayNums PROVE day[k] = "none" /\ Hope(k)
    BY DEF Given
  <2>1. /\ now = 0 /\ active = PerDay /\ lease = NoProc /\ inv = [p \in Procs |-> Idle]
        /\ day[k] = "none"
    BY DEF Init
  <2>2. CronTime(k)
    <3>1. k \in Nat /\ k >= 1 /\ PerDay \in Nat /\ PerDay > 0
      BY WatchAssumption DEF DayNums
    <3>2. Opens(1) <= Opens(k) /\ Opens(1) = PerDay
      BY <3>1, Later, Windows
    <3>3. /\ CronAt(k) \in Nat /\ Opens(k) \in Nat /\ Opens(k) < CronAt(k)
      BY CronTicks
    <3> QED BY <2>1, <3>1, <3>2, <3>3 DEF CronTime, NoScore
  <2>3. ~Past(k)
    BY <2>1, IdleIs DEF Past, PastOf
  <2> QED BY <2>1, <2>2, <2>3 DEF Hope
<1>2. WatchInv /\ GivenInv /\ [Next]_vars => WatchInv' /\ GivenInv'
  BY WatchInductive, GivenStep
<1>3. WatchInv /\ GivenInv => MissedIsOurs
  <2> SUFFICES ASSUME WatchInv, GivenInv, stops = {}
               PROVE  Cardinality({k \in DayNums : day[k] = "missed"})
                        <= count.lost + count.faults
    BY DEF MissedIsOurs
  <2> DEFINE M == {k \in DayNums : day[k] = "missed"}
  <2>1. IsFiniteSet(DayNums)
    <3>1. 1 \in Int /\ Days \in Int
      BY WatchAssumption
    <3> QED BY <3>1, FS_Interval DEF DayNums
  <2>2. IsFiniteSet(Given) /\ M \subseteq Given
    BY <2>1, FS_Subset DEF Given
  <2>3. /\ Cardinality(M) <= Cardinality(Given)
        /\ Cardinality(M) \in Nat /\ Cardinality(Given) \in Nat
    BY <2>2, FS_Subset, FS_CardinalityType
  <2>4. count.lost \in Nat /\ count.faults \in Nat
    BY DEF WatchInv, TypeInv
  <2> HIDE DEF M
  <2>5. Cardinality(M) <= count.lost + count.faults
    BY <2>3, <2>4 DEF GivenInv
  <2> QED BY <2>5 DEF M
<1> QED BY <1>1, <1>2, <1>3, WatchInductive, PTL DEF Spec

----------------------------------------------------------------------------
(* When an early stop is made alone, one invocation works at a time. *)

Live(p) == inv[p].pc # "idle"
AloneInv ==
  /\ \A p, q \in Procs : Live(p) /\ Live(q) => p = q
  /\ \A p \in Procs : Loaded(inv[p]) => rec.status = "watching"

LEMMA OneMoves ==
  ASSUME StopAlone, WatchInv, AloneInv, NEW p \in Procs, Acts(p)
  PROVE  /\ \A q \in Procs : q # p => ~Live(q)
         /\ Others(p)
<1>1. TypeInv /\ \A q \in Procs : Live(q) => inv[q].mode = "stop" \/ lease = q
  BY DEF WatchInv, TypeInv, InvOK, Live, RunsInv, Invocation
<1>2. Others(p)
  BY <1>1, Kinds, Entering DEF Goes, Enters, Quits
<1>3. CASE Live(p)
  BY <1>2, <1>3 DEF AloneInv
<1>4. CASE ~Live(p)
  <2>1. \/ Called(p) /\ lease = NoProc
        \/ Quiet
    BY <1>4 DEF Acts, Poll, Cron, Run, StopWatch, Walk, Load, Count, Judge, SetMissed, SetRecorded,
       Total, Close, Unindex, Line, Index, IndexAt, Save, Skip, Crash, Throw, Begun, At, Live
  <2>2. CASE Called(p) /\ lease = NoProc
    BY <1>1, <1>2, <2>2, WatchAssumption DEF Called
  <2>3. CASE Quiet
    BY <1>2, <2>3 DEF Quiet, At, Live
  <2> QED BY <2>1, <2>2, <2>3
<1> QED BY <1>3, <1>4

LEMMA AloneStep ==
  ASSUME StopAlone, WatchInv, AloneInv, [Next]_vars
  PROVE  AloneInv'
<1>1. CASE UNCHANGED vars \/ World
  <2>1. rec' = rec /\ \A p \in Procs : inv'[p].pc = inv[p].pc
    BY <1>1, TickOrPass, Aged DEF WatchInv
  <2> QED BY <2>1 DEF AloneInv, Live, Loaded
<1>2. ASSUME NEW p \in Procs, Acts(p) PROVE AloneInv'
  <2>1. \A q \in Procs : q # p => ~Live(q) /\ ~Live(q)'
    BY <1>2, OneMoves DEF Others, Live
  <2>2. \A q \in Procs : q # p => ~Loaded(inv'[q])
    BY <2>1 DEF Live, Loaded, Walking, Closing
  <2>3. Loaded(inv'[p]) => rec'.status = "watching"
    <3>1. TypeInv
      BY DEF WatchInv
    <3>2. CASE Goes(p)
      BY <3>2 DEF Goes, AloneInv
    <3>3. CASE Called(p)
      BY <3>1, <3>3, Entering DEF Loaded, Walking, Closing
    <3>4. CASE Load(p) /\ rec.status = "watching" /\ Enters(p, rec, "run")
      BY <3>4 DEF Enters
    <3>5. ASSUME NEW why \in {"ours", "abuse"}, StopWatch(p, why)
          PROVE  rec'.status = "watching"
      BY <3>5 DEF StopWatch, record
    <3>6. CASE Quits(p)
      BY <3>6, IdleIs DEF Quits
    <3> QED BY <1>2, <3>1, <3>2, <3>3, <3>4, <3>5, <3>6, Kinds
  <2> QED BY <2>1, <2>2, <2>3 DEF AloneInv
<1> QED BY <1>1, <1>2, NextIs

Written(i) == i.pc = "save" /\ i.copy.status \in Ended
HasLine(l, amount) == \E m \in DOMAIN l : l[m] = amount
Done == rec.status \in Ended \/ \E p \in Procs : Written(inv[p])
LinesInv ==
  /\ rec.status \in Ended /\ rec.refund > 0 => HasLine(lines, rec.refund)
  /\ \A p \in Procs : Written(inv[p]) /\ inv[p].copy.refund > 0
                        => HasLine(lines, inv[p].copy.refund)
  /\ Len(lines) <= count.faults + (IF Done THEN 1 ELSE 0)

LEMMA LinesStep ==
  ASSUME StopAlone, WatchInv, WatchInv', AloneInv, AloneInv', LinesInv, [Next]_vars
  PROVE  LinesInv'
<1>0. TypeInv /\ count.faults \in Nat /\ Len(lines) \in Nat /\ lines \in Seq(Nat)
  BY DEF WatchInv, TypeInv
<1>1. CASE UNCHANGED vars \/ World
  <2>1. /\ rec' = rec /\ lines' = lines
        /\ \A p \in Procs : inv'[p].pc = inv[p].pc /\ inv'[p].copy = inv[p].copy
    BY <1>0, <1>1, TickOrPass, Aged
  <2>2. count'.faults = count.faults
    <3>1. CASE CronLost
      <4>1. count'["faults"] = count["faults"]
        BY <1>0, <3>1, BumpTypes DEF CronLost
      <4> QED BY <4>1
    <3> QED BY <1>1, <3>1 DEF World, CronPass, Tick, vars, around
  <2> QED BY <2>1, <2>2 DEF LinesInv, Done, Written
<1>2. ASSUME NEW p \in Procs, Acts(p) PROVE LinesInv'
  <2> DEFINE i == inv[p]
             j == inv'[p]
  <2>1. \A q \in Procs : q # p => ~Written(inv[q]) /\ ~Written(inv'[q])
    BY <1>2, OneMoves DEF Others, Live, Written
  <2>2. /\ Done <=> rec.status \in Ended \/ Written(i)
        /\ Done' <=> rec'.status \in Ended \/ Written(j)
    BY <2>1 DEF Done
  <2>3. i.pc # "idle" /\ i.pc # "load" => rec.status \notin Ended
    BY <1>0 DEF AloneInv, TypeInv, Invocation, Loaded, Walking, Closing, Ended
  <2>4. i.copy \in Rec
    BY <1>0 DEF TypeInv, Invocation
  <2>5. SUFFICES /\ rec'.status \in Ended /\ rec'.refund > 0 => HasLine(lines', rec'.refund)
                 /\ Written(j) /\ j.copy.refund > 0 => HasLine(lines', j.copy.refund)
                 /\ Len(lines') <= count'.faults + (IF Done' THEN 1 ELSE 0)
    BY <2>1 DEF LinesInv
  <2>6. /\ rec.status \in Ended /\ rec.refund > 0 => HasLine(lines, rec.refund)
        /\ Written(i) /\ i.copy.refund > 0 => HasLine(lines, i.copy.refund)
        /\ Len(lines) <= count.faults + (IF Done THEN 1 ELSE 0)
    BY DEF LinesInv
  <2>7. CASE Line(p)
    <3>1. j.pc = "save" /\ j.copy = i.copy /\ i.pc = "line"
      BY <1>0, <2>7, Moves DEF Turns, Fields, Line, At
    <3>2. i.copy.status \in Ended
      BY <3>1 DEF WatchInv, WalkInv, WalkOK
    <3>3. /\ rec' = rec /\ count' = count /\ lines' = Append(lines, i.copy.refund)
          /\ i.copy.refund \in Nat
      BY <2>7, <1>0, <3>1 DEF Line, around, TypeInv, InvOK
    <3>4. Len(lines') = Len(lines) + 1 /\ lines'[Len(lines) + 1] = i.copy.refund
          /\ Len(lines) + 1 \in DOMAIN lines'
      BY <1>0, <3>3
    <3>5. Written(j) /\ Done' /\ ~Done /\ HasLine(lines', i.copy.refund)
      BY <2>2, <2>3, <3>1, <3>2, <3>4 DEF Written, HasLine
    <3> HIDE DEF i, j
    <3> QED BY <1>0, <2>3, <2>6, <3>1, <3>3, <3>4, <3>5
  <2>8. CASE Unindex(p) \/ Index(p)
    <3>1. /\ j.pc \in {"save", "line"} /\ j.copy = i.copy /\ i.pc \in {"unindex", "index"}
          /\ j.pc = "save" /\ i.pc = "unindex" => i.copy.refund = 0
          /\ i.pc = "index" => i.copy.status = "watching"
      BY <1>0, <2>8, Moves
      DEF Turns, Fields, Unindex, Index, IndexAt, At, WatchInv, WalkInv, WalkOK
    <3>2. rec' = rec /\ count' = count /\ lines' = lines
      BY <2>8 DEF Unindex, Index, IndexAt, around
    <3>3. ~Done /\ (Written(j) => j.copy.refund = 0)
      BY <2>2, <2>3, <3>1 DEF Written, Ended
    <3> HIDE DEF i, j
    <3> QED BY <1>0, <2>3, <2>6, <3>1, <3>2, <3>3
  <2>9. CASE Save(p)
    <3>1. j = Idle /\ i.pc = "save" /\ rec' = i.copy /\ lines' = lines /\ count' = count
      BY <1>0, <2>9, Entering DEF Save, At, Quits
    <3>2. ~Written(j) /\ (rec'.status \in Ended <=> Written(i)) /\ rec.status \notin Ended
      BY <2>3, <3>1, IdleIs DEF Written
    <3> HIDE DEF i, j
    <3> QED BY <2>2, <2>6, <3>1, <3>2
  <2>10. CASE Crash(p) \/ Throw(p)
    <3>1. j = Idle /\ rec' = rec /\ lines' = lines
      BY <1>0, <2>10, Entering DEF Crash, Throw, Quits, record
    <3>2. count'.faults = count.faults + 1
      <4>1. count'["faults"] = count["faults"] + 1
        BY <1>0, <2>10, BumpTypes DEF Crash, Throw
      <4> QED BY <4>1
    <3>3. ~Written(j)
      BY <3>1, IdleIs DEF Written
    <3> HIDE DEF i, j
    <3> QED BY <1>0, <2>6, <3>1, <3>2, <3>3
  <2>11. CASE \/ Poll(p) \/ Cron(p) \/ Load(p) \/ Count(p) \/ Judge(p) \/ SetMissed(p)
              \/ SetRecorded(p) \/ Total(p) \/ Skip(p)
              \/ \E why \in {"ours", "abuse"} : StopWatch(p, why)
    <3>1. rec' = rec /\ lines' = lines /\ ~Written(i)
      BY <2>11 DEF Poll, Cron, Run, Called, Load, Count, Judge, SetMissed, SetRecorded,
         Verdict, Total, Close, Skip, StopWatch, Begun, At, Written, record
    <3>2. ~Written(j)
      <4>1. CASE \/ Poll(p) \/ Cron(p) \/ Load(p)
                 \/ \E why \in {"ours", "abuse"} : StopWatch(p, why)
        BY <1>0, <4>1, Entering, IdleIs DEF Poll, Cron, Run, Enters, Quits, Written
      <4>2. CASE \/ Count(p) \/ Judge(p) \/ SetMissed(p) \/ SetRecorded(p) \/ Total(p) \/ Skip(p)
        BY <1>0, <4>2, Moves DEF Talk, Passes, Turns, Ends, GoesOn, Fields, SetMissed, SetRecorded,
           Written
      <4> QED BY <2>11, <4>1, <4>2
    <3>3. count'.faults = count.faults
      <4>1. CASE \E why \in {"ours", "abuse"} : StopWatch(p, why)
        <5>1. Bump("stops", MaxStops)
          BY <4>1 DEF StopWatch
        <5>2. count'["faults"] = count["faults"]
          BY <1>0, <5>1, BumpTypes
        <5> QED BY <5>2
      <4>2. CASE Poll(p)
        <5>1. count'["faults"] = count["faults"]
          BY <1>0, <4>2, BumpTypes DEF Poll
        <5> QED BY <5>1
      <4>3. CASE Skip(p)
        <5>1. count'["faults"] = count["faults"]
          BY <1>0, <4>3, BumpTypes DEF Skip
        <5> QED BY <5>1
      <4> QED BY <2>11, <4>1, <4>2, <4>3 DEF Cron, Load, Count, Judge, SetMissed, SetRecorded,
           Verdict, Total, Close, around
    <3> HIDE DEF i, j
    <3> QED BY <2>2, <2>6, <3>1, <3>2, <3>3
  <2> HIDE DEF i, j
  <2> QED BY <1>2, <2>7, <2>8, <2>9, <2>10, <2>11 DEF Acts, Walk
<1> QED BY <1>1, <1>2, NextIs

\* A refund in the record has its reconcile line, and no second line is written
\* unless an invocation failed between its line and its record; for early stops
\* that the operator makes while nothing else runs.
THEOREM RefundsHaveLines == ASSUME StopAlone PROVE Spec => []RefundHasLine
<1>1. Init => AloneInv /\ LinesInv
  <2> SUFFICES ASSUME Init PROVE AloneInv /\ LinesInv
    OBVIOUS
  <2>1. /\ \A p \in Procs : inv[p] = Idle
        /\ rec.status = "watching" /\ lines = <<>> /\ count.faults = 0
    BY DEF Init, Start0
  <2>2. AloneInv
    BY <2>1, IdleIs DEF AloneInv, Live
  <2>3. LinesInv
    BY <2>1, IdleIs DEF LinesInv, Done, Written, Ended
  <2> QED BY <2>2, <2>3
<1>2. WatchInv /\ AloneInv /\ LinesInv /\ [Next]_vars => WatchInv' /\ AloneInv' /\ LinesInv'
  BY WatchInductive, AloneStep, LinesStep
<1>3. WatchInv /\ LinesInv => RefundHasLine
  <2> SUFFICES ASSUME WatchInv, LinesInv PROVE RefundHasLine
    OBVIOUS
  <2>1. count.faults \in Nat /\ Len(lines) \in Nat
    BY DEF WatchInv, TypeInv
  <2> QED BY <2>1 DEF LinesInv, HasLine, RefundHasLine
<1> QED BY <1>1, <1>2, <1>3, WatchInductive, PTL DEF Spec

----------------------------------------------------------------------------
(* The watch implements its terms (WatchTerms), for early stops made alone. *)

\* The days before day n with the verdict v.
Judged(n, v) == {k \in DayNums : k < n /\ day[k] = v}
\* A SET NX that was applied and threw is not counted; it is counted by the walk of
\* any later day, and by every walk that is stopped.
Exact(i) == i.copy.stop # "none" \/ i.at >= Opens(Days + 1)
TallyOK(i) ==
  /\ Loaded(i) => \A k \in DayNums : i.at < Opens(k) => day[k] = "none"
  /\ i.pc \in {"miss", "record"} => day[i.n] = "none"
  /\ i.pc \in Walking =>
       /\ i.missed = Cardinality(Judged(i.n, "missed"))
       /\ i.recorded <= Cardinality(Judged(i.n, "recorded"))
       /\ Exact(i) => i.recorded = Cardinality(Judged(i.n, "recorded"))
  /\ i.pc \in Closing /\ i.copy.status \in Ended =>
       /\ i.copy.refund = Terms!Owed(i.copy.stop)
       /\ i.copy.status = IF i.copy.stop # "none" THEN "stopped" ELSE "completed"
TallyInv ==
  /\ \A k \in DayNums : day[k] # "none" => Opens(k) <= now
  /\ \A p \in Procs : TallyOK(inv[p])

LEMMA SameCardinality == ASSUME NEW S PROVE Terms!Cardinality(S) = Cardinality(S)
  BY DEF Terms!Cardinality, Cardinality

LEMMA DaysFinite ==
  /\ IsFiniteSet(DayNums) /\ Cardinality(DayNums) = Days /\ Days \in Nat
  /\ \A S : S \subseteq DayNums =>
       IsFiniteSet(S) /\ Cardinality(S) \in Nat /\ Cardinality(S) <= Days
<1>1. /\ 1 \in Int /\ Days \in Int /\ Days \in Nat /\ Days >= 1
  BY WatchAssumption
<1>2. IsFiniteSet(DayNums) /\ Cardinality(DayNums) = Days
  <2>1. IsFiniteSet(1..Days) /\ Cardinality(1..Days) = IF 1 > Days THEN 0 ELSE Days - 1 + 1
    BY <1>1, FS_Interval
  <2> QED BY <1>1, <2>1 DEF DayNums
<1>3. ASSUME NEW S, S \subseteq DayNums
      PROVE  IsFiniteSet(S) /\ Cardinality(S) \in Nat /\ Cardinality(S) <= Days
  BY <1>2, <1>3, FS_Subset, FS_CardinalityType
<1> QED BY <1>1, <1>2, <1>3

LEMMA JudgedType ==
  ASSUME NEW n, NEW v
  PROVE  IsFiniteSet(Judged(n, v)) /\ Cardinality(Judged(n, v)) \in Nat
  BY DaysFinite DEF Judged

\* What one more day adds, and that the days before it are left alone.
LEMMA JudgedNext ==
  ASSUME NEW n \in DayNums, NEW v, NEW w, day'[n] = w,
         \A k \in DayNums : k < n => day'[k] = day[k]
  PROVE  Cardinality(Judged(n + 1, v)') = Cardinality(Judged(n, v)) + One(w, v)
<1>1. IsFiniteSet(Judged(n, v)) /\ Cardinality(Judged(n, v)) \in Nat /\ n \notin Judged(n, v)
  BY JudgedType DEF Judged, DayNums
<1>2. CASE w = v
  <2>1. Judged(n + 1, v)' = Judged(n, v) \cup {n}
    BY <1>2 DEF Judged, DayNums
  <2> QED BY <1>1, <1>2, <2>1, FS_AddElement DEF One
<1>3. CASE w # v
  <2>1. Judged(n + 1, v)' = Judged(n, v)
    BY <1>3 DEF Judged, DayNums
  <2> QED BY <1>1, <1>3, <2>1 DEF One
<1> QED BY <1>2, <1>3

LEMMA JudgedFirst == ASSUME NEW v PROVE Cardinality(Judged(1, v)) = 0
<1>1. Judged(1, v) = {}
  BY DEF Judged, DayNums
<1> QED BY <1>1, FS_EmptySet

\* The refund computed from the counts is what the terms say is owed.
LEMMA OwedIs ==
  ASSUME TypeInv, NEW s \in StopReason, NEW m \in Nat, NEW r \in Nat, NEW u \in Nat,
         m = Terms!Having("missed"), r = Terms!Having("recorded"),
         m + u = Days - r
  PROVE  watchRefund(m, u, s) = Terms!Owed(s)
<1>1. /\ Days \in Nat /\ Days > 0 /\ Price \in Nat /\ RefundAfter \in Nat
  BY WatchAssumption
<1>2. Terms!Undelivered = Days - r /\ Days - r \in 0..Days /\ m + u = Terms!Undelivered
  BY <1>1 DEF Terms!Undelivered
<1> DEFINE d == Terms!Undelivered
<1>3. Min({Days, d}) = d
  <2>1. Days \in Int /\ d \in Int /\ d <= Days
    BY <1>1, <1>2
  <2>2. Min({Days, d}) = IF Days <= d THEN Days ELSE d
    BY <2>1, MaxMin, Zenon
  <2> HIDE DEF d
  <2> QED BY <2>1, <2>2
<1>4. watchRefund(m, u, s)
        = IF s = "abuse" \/ ~(m >= RefundAfter \/ s = "ours") \/ d <= 0
            THEN 0 ELSE (Price * d) \div Days
  BY <1>2, <1>3, Zenon DEF watchRefund
<1>5. Terms!Owed(s) = IF s = "abuse" \/ (s = "none" /\ m < RefundAfter)
                        THEN 0 ELSE (Price * d) \div Days
  BY DEF Terms!Owed
<1>6. d = 0 => (Price * d) \div Days = 0
  BY <1>1
<1>7. /\ ~(m >= RefundAfter \/ s = "ours") <=> (s # "ours" /\ m < RefundAfter)
      /\ s \in {"none", "ours", "abuse"}
      /\ d <= 0 <=> d = 0
  BY <1>1, <1>2 DEF StopReason
<1> HIDE DEF d
<1> QED BY <1>4, <1>5, <1>6, <1>7

\* A day judged by an invocation that works alone.
LEMMA TallyWalk ==
  ASSUME StopAlone, WatchInv, WatchInv', AloneInv, TallyInv, NEW p \in Procs,
         NEW i, i = inv[p], NEW j, j = inv'[p], i.pc \in Walking, i.n \in DayNums,
         j.pc = "look", j.n = i.n + 1, j.copy = i.copy, j.at = i.at,
         NEW w \in {"none", "recorded", "missed"}, day' = [day EXCEPT ![i.n] = w],
         day[i.n] \in {"none", w}, i.at >= Opens(i.n), now' = now,
         j.missed = i.missed + One(w, "missed"),
         \/ j.recorded = i.recorded + One(w, "recorded")
         \/ ~Exact(i) /\ w # "missed" /\ j.recorded = i.recorded
  PROVE  TallyOK(j)' /\ \A k \in DayNums : day'[k] # "none" => Opens(k) <= now'
<1>1. /\ TallyOK(i) /\ i.missed \in Nat /\ i.recorded \in Nat /\ i.at \in Nat /\ now \in Nat
      /\ i.at <= now /\ Loaded(i) /\ day \in [DayNums -> {"none", "recorded", "missed"}]
  <2>1. i \in Invocation /\ now \in Nat /\ day \in [DayNums -> {"none", "recorded", "missed"}]
    BY DEF WatchInv, TypeInv
  <2>2. Loaded(i) /\ TallyOK(i)
    BY DEF Loaded, TallyInv
  <2>3. i.at <= now
    BY <2>2 DEF WatchInv, RunsInv
  <2> QED BY <2>1, <2>2, <2>3 DEF Invocation
<1>2. /\ day'[i.n] = w
      /\ \A k \in DayNums : k # i.n => day'[k] = day[k]
      /\ \A k \in DayNums : Opens(k) \in Nat
  <2>1. \A k \in DayNums : k \in Nat
    BY DEF DayNums
  <2>2. \A k \in DayNums : Opens(k) \in Nat
    BY <2>1, Windows
  <2> QED BY <1>1, <2>2
<1>3. \A k \in DayNums : day'[k] # "none" => Opens(k) <= now'
  BY <1>1, <1>2 DEF TallyInv
<1>4. \A k \in DayNums : i.at < Opens(k) => day'[k] = "none"
  BY <1>1, <1>2 DEF TallyOK
<1>5. \A v : Cardinality(Judged(i.n + 1, v)') = Cardinality(Judged(i.n, v)) + One(w, v)
  BY <1>2, JudgedNext DEF DayNums
<1>6. /\ i.missed = Cardinality(Judged(i.n, "missed"))
      /\ i.recorded <= Cardinality(Judged(i.n, "recorded"))
      /\ Exact(i) => i.recorded = Cardinality(Judged(i.n, "recorded"))
  BY <1>1 DEF TallyOK
<1>7. Exact(j) <=> Exact(i)
  BY DEF Exact
<1>8. /\ Cardinality(Judged(i.n, "recorded")) \in Nat
      /\ One(w, "recorded") \in {0, 1}
  BY JudgedType DEF One
<1>9. j.missed = Cardinality(Judged(j.n, "missed")')
  BY <1>5, <1>6
<1>10. /\ j.recorded <= Cardinality(Judged(j.n, "recorded")')
       /\ Exact(j) => j.recorded = Cardinality(Judged(j.n, "recorded")')
  <2>1. Cardinality(Judged(j.n, "recorded")')
          = Cardinality(Judged(i.n, "recorded")) + One(w, "recorded")
    BY <1>5
  <2> QED BY <1>1, <1>6, <1>7, <1>8, <2>1
<1> QED BY <1>3, <1>4, <1>9, <1>10 DEF TallyOK, Judged, Walking, Closing

LEMMA TallyTotal ==
  ASSUME StopAlone, WatchInv, WatchInv', AloneInv, TallyInv, [Next]_vars, NEW p \in Procs,
         NEW i, i = inv[p], NEW j, j = inv'[p], Total(p)
  PROVE  TallyOK(j)'
<1>1. /\ TypeInv /\ InvOK(i) /\ i \in Invocation /\ TallyOK(i) /\ i.pc = "look"
      /\ day' = day /\ (i.n > Days \/ Window(p) = "pending")
      /\ j.at = i.at
  <2>1. Goes(p)
    BY Going DEF WatchInv
  <2>2. TypeInv /\ TallyOK(i) /\ j.at = i.at
    BY <2>1 DEF WatchInv, TallyInv, Goes
  <2>3. InvOK(i) /\ i \in Invocation
    BY <2>2 DEF TypeInv
  <2>4. i.pc = "look" /\ day' = day /\ ~Begun(p)
    BY DEF Total, Close, At, record
  <2>5. i.n > Days \/ Window(p) = "pending"
    BY <2>3, <2>4, WatchAssumption DEF Begun, At, Invocation
  <2> QED BY <2>2, <2>3, <2>4, <2>5
<1>2. /\ i.missed \in Nat /\ i.recorded \in Nat /\ i.at \in Nat /\ i.n \in Nat /\ i.n >= 1
      /\ i.copy \in Rec /\ Days \in Nat /\ i.copy.stop \in StopReason
  BY <1>1, WatchAssumption DEF Invocation, InvOK, Rec, Walking
<1>3. \A k \in DayNums : k >= i.n => day[k] = "none"
  <2> SUFFICES ASSUME NEW k \in DayNums, k >= i.n PROVE day[k] = "none"
    OBVIOUS
  <2>1. i.n \in DayNums /\ k \in Nat
    BY <1>2 DEF DayNums
  <2>2. i.at < Opens(i.n)
    BY <1>1, <1>2, <2>1, WindowIs DEF Window, DayNums
  <2>3. Opens(i.n) <= Opens(k) /\ Opens(i.n) \in Nat /\ Opens(k) \in Nat
    BY <1>2, <2>1, Later, Windows
  <2> QED BY <1>1, <1>2, <2>2, <2>3 DEF TallyOK, Loaded, Walking
<1>4. \A v : v # "none" => Terms!Having(v) = Cardinality(Judged(i.n, v))
  <2> SUFFICES ASSUME NEW v, v # "none" PROVE Terms!Having(v) = Cardinality(Judged(i.n, v))
    OBVIOUS
  <2>1. \A k \in DayNums : k < i.n \/ day[k] # v
    BY <1>2, <1>3 DEF DayNums
  <2>2. Judged(i.n, v) = {k \in DayNums : day[k] = v}
    BY <2>1 DEF Judged
  <2>3. Terms!Having(v) = Cardinality({k \in DayNums : day[k] = v})
    BY SameCardinality, Zenon DEF Terms!Having, DayNums
  <2> QED BY <2>2, <2>3
<1>5. /\ i.missed = Cardinality(Judged(i.n, "missed"))
      /\ i.recorded <= Cardinality(Judged(i.n, "recorded"))
      /\ Exact(i) => i.recorded = Cardinality(Judged(i.n, "recorded"))
  BY <1>1 DEF TallyOK, Walking
<1>6. ASSUME Over(p) PROVE i.recorded = Cardinality(Judged(i.n, "recorded"))
  <2> DEFINE M == Judged(i.n, "missed")
             R == Judged(i.n, "recorded")
  <2>1. /\ IsFiniteSet(M) /\ IsFiniteSet(R) /\ Cardinality(M) \in Nat
        /\ Cardinality(R) \in Nat /\ M \cap R = {} /\ M \cup R \subseteq DayNums
    BY JudgedType DEF Judged
  <2> HIDE DEF M, R
  <2>2. Cardinality(M \cup R) = Cardinality(M) + Cardinality(R)
    BY <2>1, FS_Union, FS_EmptySet
  <2>3. Cardinality(M) + Cardinality(R) <= Days
    BY <2>1, <2>2, DaysFinite
  <2>4. CASE i.missed + i.recorded >= Days
    BY <1>2, <1>5, <2>1, <2>3, <2>4 DEF M, R
  <2>5. CASE ~(i.missed + i.recorded >= Days)
    BY <1>5, <1>6, <2>5 DEF Over, Exact, Opens
  <2> QED BY <2>4, <2>5
<1>7. \A k \in DayNums : j.at < Opens(k) => day'[k] = "none"
  BY <1>1 DEF TallyOK, Loaded, Walking
<1>8. CASE Over(p)
  <2>1. j.pc = "unindex" /\ j.copy = Finished(i, NotRun(i))
    BY <1>1, <1>8, Moves DEF Ends, Fields
  <2> DEFINE u == NotRun(i)
             c == Finished(i, u)
  <2>2. u = Days - i.missed - i.recorded /\ u \in Nat
    BY <1>1, NotRunIs
  <2> HIDE DEF u
  <2>3. /\ c.refund = watchRefund(i.missed, u, i.copy.stop)
        /\ c.stop = i.copy.stop
        /\ c.status = IF i.copy.stop # "none" THEN "stopped" ELSE "completed"
    BY <1>2 DEF Finished, Rec
  <2>4. watchRefund(i.missed, u, i.copy.stop) = Terms!Owed(i.copy.stop)
    <3>1. i.missed = Terms!Having("missed") /\ i.recorded = Terms!Having("recorded")
      BY <1>4, <1>5, <1>6, <1>8
    <3>2. i.missed + u = Days - i.recorded
      BY <1>2, <2>2
    <3> QED BY <1>1, <1>2, <2>2, <3>1, <3>2, OwedIs
  <2>5. Terms!Owed(i.copy.stop)' = Terms!Owed(i.copy.stop)
    BY <1>1 DEF Terms!Owed, Terms!Having, Terms!Undelivered
  <2> HIDE DEF c
  <2>6. j.copy = c
    BY <2>1 DEF c, u
  <2>7. /\ j.copy.refund = Terms!Owed(j.copy.stop)'
        /\ j.copy.status = IF j.copy.stop # "none" THEN "stopped" ELSE "completed"
    BY <2>3, <2>4, <2>5, <2>6
  <2> QED BY <1>7, <2>1, <2>7 DEF TallyOK, Walking, Closing
<1>9. CASE ~Over(p)
  <2>1. j.pc = "index" /\ j.copy = Counted(i)
    BY <1>1, <1>9, Moves DEF GoesOn, Fields
  <2>2. j.copy.status = "watching"
    BY <2>1 DEF WatchInv, WalkInv, WalkOK
  <2> QED BY <1>7, <2>1, <2>2 DEF TallyOK, Walking, Closing, Ended
<1> QED BY <1>8, <1>9

LEMMA TallyThen ==
  ASSUME NEW p \in Procs, NEW j, j = inv'[p], TallyOK(j)'
  PROVE  TallyOK(inv[p])'
  BY DEF TallyOK

LEMMA TallyStep ==
  ASSUME StopAlone, WatchInv, WatchInv', AloneInv, AloneInv', TallyInv, [Next]_vars
  PROVE  TallyInv'
<1>0. /\ TypeInv /\ now \in Nat /\ \A k \in DayNums : k \in Nat /\ Opens(k) \in Nat
  <2>1. \A k \in DayNums : k \in Nat
    BY DEF DayNums
  <2> QED BY <2>1, Windows DEF WatchInv, TypeInv
<1>1. ASSUME day' = day PROVE \A v, n : Judged(n, v)' = Judged(n, v)
  BY <1>1 DEF Judged
<1>2. ASSUME day' = day PROVE \A s : Terms!Owed(s)' = Terms!Owed(s)
  BY <1>2 DEF Terms!Owed, Terms!Having, Terms!Undelivered
\* A record whose day of the walk is left as it is.
<1>3. ASSUME NEW p \in Procs, day' = day,
             inv'[p].pc = inv[p].pc, inv'[p].at = inv[p].at,
             inv'[p].copy = inv[p].copy, inv'[p].n = inv[p].n,
             inv'[p].missed = inv[p].missed, inv'[p].recorded = inv[p].recorded
      PROVE  TallyOK(inv[p])'
  <2>1. TallyOK(inv[p])
    BY DEF TallyInv
  <2> QED BY <1>1, <1>2, <1>3, <2>1 DEF TallyOK, Exact, Loaded
<1>4. CASE UNCHANGED vars \/ World
  <2>1. /\ day' = day /\ (now' = now \/ now' = now + 1)
    BY <1>4, TickOrPass DEF WatchInv
  <2>2. \A k \in DayNums : day'[k] # "none" => Opens(k) <= now'
    BY <1>0, <2>1 DEF TallyInv
  <2>3. ASSUME NEW p \in Procs PROVE TallyOK(inv[p])'
    <3>1. /\ inv'[p].pc = inv[p].pc /\ inv'[p].at = inv[p].at
          /\ inv'[p].copy = inv[p].copy /\ inv'[p].n = inv[p].n
          /\ inv'[p].missed = inv[p].missed /\ inv'[p].recorded = inv[p].recorded
      BY <1>0, <1>4, TickOrPass, Aged
    <3> QED BY <1>3, <2>1, <3>1
  <2> QED BY <2>2, <2>3 DEF TallyInv
<1>5. ASSUME NEW p \in Procs, Acts(p) PROVE TallyInv'
  <2> DEFINE i == inv[p]
  <2>0. PICK j : j = inv'[p]
    OBVIOUS
  <2> USE <2>0
  <2>1. ASSUME NEW q \in Procs, q # p PROVE TallyOK(inv[q])'
    <3>1. inv'[q].pc = "idle"
      BY <1>5, <2>1, OneMoves DEF Others, Live
    <3> QED BY <3>1 DEF TallyOK, Loaded, Walking, Closing
  <2>2. SUFFICES /\ TallyOK(j)'
                 /\ \A k \in DayNums : day'[k] # "none" => Opens(k) <= now'
    BY <2>1, TallyThen DEF TallyInv
  <2>3. ASSUME day' = day, now' = now
        PROVE  \A k \in DayNums : day'[k] # "none" => Opens(k) <= now'
    BY <2>3 DEF TallyInv
  <2>4. TallyOK(i) /\ i \in Invocation
    BY <1>0 DEF TallyInv, TypeInv
  <2>5. CASE Called(p) \/ Quits(p)
    <3>1. j.pc \in {"load", "idle"}
      BY <1>0, <2>5, Entering, IdleIs DEF Quits
    <3>2. day' = day /\ now' = now
      BY <2>5 DEF Called, Quits
    <3> QED BY <2>3, <3>1, <3>2 DEF TallyOK, Loaded, Walking, Closing
  <2>6. ASSUME NEW r, NEW how, Enters(p, r, how)
        PROVE  /\ TallyOK(j)'
               /\ \A k \in DayNums : day'[k] # "none" => Opens(k) <= now'
    <3>1. /\ j.pc = "look" /\ j.at = now /\ j.n = 1 /\ j.missed = 0 /\ j.recorded = 0
          /\ day' = day /\ now' = now
      BY <2>6 DEF Enters
    <3>2. \A k \in DayNums : j.at < Opens(k) => day[k] = "none"
      BY <1>0, <3>1 DEF TallyInv
    <3>3. \A v : Cardinality(Judged(1, v)') = 0
      BY <1>1, <3>1, JudgedFirst
    <3>4. TallyOK(j)'
      BY <3>1, <3>2, <3>3 DEF TallyOK, Judged, Walking, Closing
    <3> QED BY <2>3, <3>1, <3>4
  <2>7. CASE Judge(p)
    <3>1. i.pc = "look" /\ day' = day /\ now' = now /\ day[i.n] = "none"
      BY <2>7 DEF Judge, Begun, At, record, around
    <3>2. /\ j.pc \in {"miss", "record"} /\ j.at = i.at /\ j.copy = i.copy /\ j.n = i.n
          /\ j.missed = i.missed /\ j.recorded = i.recorded
      BY <1>0, <2>7, Moves, Going DEF Turns, Fields, Goes
    <3>3. TallyOK(j)'
      BY <1>1, <2>4, <3>1, <3>2 DEF TallyOK, Exact, Loaded, Walking, Closing
    <3> QED BY <2>3, <3>1, <3>3
  <2>8a. i = inv[p]
    OBVIOUS
  <2>8. CASE Count(p) \/ SetMissed(p) \/ SetRecorded(p) \/ Skip(p)
    <3>1. i.pc \in Walking /\ i.n \in DayNums /\ i.at >= Opens(i.n)
      <4>1. InvOK(i) /\ WalkOK(i, day) /\ i.at \in Nat /\ i.n \in Nat
        BY <1>0, <2>4 DEF TypeInv, WatchInv, WalkInv, Invocation
      <4>2. CASE Count(p)
        <5>1. i.pc = "look" /\ i.n <= Days /\ dayWindow(i.n, i.at) # "pending"
          BY <4>2 DEF Count, Begun, At, Window
        <5>2. i.n \in DayNums
          BY <4>1, <5>1 DEF InvOK, Walking, DayNums
        <5> QED BY <1>0, <4>1, <5>1, <5>2, WindowIs DEF Walking
      <4>3. CASE SetMissed(p) \/ SetRecorded(p) \/ Skip(p)
        BY <4>1, <4>3 DEF SetMissed, SetRecorded, Skip, At, InvOK, Walking, WalkOK, During,
           DayNums
      <4> QED BY <2>8, <4>2, <4>3
    <3>2. /\ j.at = i.at /\ now' = now /\ day \in [DayNums -> {"none", "recorded", "missed"}]
      BY <1>0, <2>8, Going DEF Goes, TypeInv
    <3>3. i.missed \in Nat /\ i.recorded \in Nat
      BY <2>4 DEF Invocation
    <3>4. ASSUME NEW w \in {"recorded", "missed"}, day' = [day EXCEPT ![i.n] = w],
                 day[i.n] \in {"none", w}, Talk(p, w)
          PROVE  /\ TallyOK(j)'
                 /\ \A k \in DayNums : day'[k] # "none" => Opens(k) <= now'
      <4>1. /\ j.pc = "look" /\ j.n = i.n + 1 /\ j.copy = i.copy
            /\ j.missed = i.missed + One(w, "missed")
            /\ j.recorded = i.recorded + One(w, "recorded")
        BY <3>4 DEF Talk, Fields
      <4>2. w \in {"none", "recorded", "missed"}
        BY <3>4
      <4> HIDE DEF i
      <4> QED BY <3>1, <3>2, <3>4, <4>1, <4>2, <2>8a, TallyWalk, Zenon
    <3>5. CASE Count(p)
      <4>1. day[i.n] \in {"recorded", "missed"} /\ day' = [day EXCEPT ![i.n] = day[i.n]]
        BY <3>1, <3>2, <3>5 DEF Count, record
      <4> QED BY <1>0, <3>4, <3>5, <4>1, Moves
    <3>6. ASSUME NEW w \in {"recorded", "missed"}, Verdict(p, w), i.pc \in {"miss", "record"}
          PROVE  /\ TallyOK(j)'
                 /\ \A k \in DayNums : day'[k] # "none" => Opens(k) <= now'
      <4>1. day[i.n] = "none"
        BY <2>4, <3>6 DEF TallyOK
      <4>2. day' = [day EXCEPT ![i.n] = w] /\ Talk(p, w)
        BY <1>0, <3>6, <4>1, Moves DEF Verdict
      <4> QED BY <3>4, <4>1, <4>2
    <3>7. CASE Skip(p)
      <4>1. i.pc = "record" /\ ~Exact(i)
        <5>1. i.pc = "record"
          BY <3>7 DEF Skip, At
        <5>2. i.at < Opens(i.n + 1) /\ i.copy.stop = "none"
          BY <5>1 DEF WatchInv, WalkInv, WalkOK, During
        <5>3. /\ Opens(i.n + 1) <= Opens(Days + 1) /\ Opens(i.n + 1) \in Nat
              /\ Opens(Days + 1) \in Nat
          <6>1. i.n + 1 \in Nat /\ Days + 1 \in Nat /\ i.n + 1 <= Days + 1
            BY <3>1, WatchAssumption DEF DayNums
          <6> QED BY <6>1, Later, Windows
        <5>4. i.at \in Nat
          BY <2>4 DEF Invocation
        <5> QED BY <5>1, <5>2, <5>3, <5>4 DEF Exact
      <4>2. PICK w \in {"none", "recorded"} :
              day' = [day EXCEPT ![i.n] = w] /\ day[i.n] \in {"none", w}
        <5>1. day[i.n] = "none"
          BY <2>4, <4>1 DEF TallyOK
        <5>2. CASE day' = day
          BY <3>2, <5>1, <5>2
        <5>3. CASE day' # day
          BY <3>7, <5>1, <5>3 DEF Skip
        <5> QED BY <5>2, <5>3
      <4>3. /\ j.pc = "look" /\ j.n = i.n + 1 /\ j.copy = i.copy
            /\ j.missed = i.missed /\ j.recorded = i.recorded
        BY <1>0, <3>7, Moves DEF Passes, Fields
      <4>4. j.missed = i.missed + One(w, "missed") /\ w # "missed"
        BY <3>3, <4>2, <4>3 DEF One
      <4>5. w \in {"none", "recorded", "missed"}
        BY <4>2
      <4> HIDE DEF i
      <4>6. /\ j.pc = "look" /\ j.n = i.n + 1 /\ j.copy = i.copy /\ j.at = i.at
            /\ i.pc \in Walking /\ i.n \in DayNums /\ i.at >= Opens(i.n) /\ now' = now
            /\ ~Exact(i) /\ w # "missed" /\ j.recorded = i.recorded
            /\ j.missed = i.missed + One(w, "missed")
        BY <3>1, <3>2, <4>1, <4>3, <4>4, Zenon
      <4>7. day' = [day EXCEPT ![i.n] = w] /\ day[i.n] \in {"none", w}
        BY <4>2
      <4> QED BY <4>5, <4>6, <4>7, <2>8a, TallyWalk, ZenonT(60)
    <3> QED BY <2>8, <3>5, <3>6, <3>7 DEF SetMissed, SetRecorded, At
  <2>9. CASE Total(p)
    <3>1. day' = day /\ now' = now
      BY <2>9 DEF Total, Close, record, around
    <3> QED BY <2>3, <2>9, <3>1, TallyTotal
  <2>10. CASE Unindex(p) \/ Line(p) \/ Index(p)
    <3>1. /\ i.pc \in {"unindex", "line", "index"} /\ day' = day /\ now' = now
          /\ i.pc = "index" => i.copy.status = "watching"
      BY <2>10 DEF Unindex, Line, Index, IndexAt, At, around, WatchInv, WalkInv, WalkOK
    <3>2. /\ j.pc \in {"save", "line"} /\ j.at = i.at /\ j.copy = i.copy
      BY <1>0, <2>10, Moves, Going DEF Turns, Fields, Goes
    <3>3. TallyOK(j)'
      BY <1>2, <2>4, <3>1, <3>2 DEF TallyOK, Loaded, Walking, Closing, Ended
    <3> QED BY <2>3, <3>1, <3>3
  <2>11. ASSUME NEW why \in {"ours", "abuse"}, StopWatch(p, why)
         PROVE  Enters(p, [rec EXCEPT !.stop = why], "stop")
    BY <1>0, <2>11, Entering
  <2>12. Load(p) => Quits(p) \/ Enters(p, rec, "run")
    BY <1>0, Entering
  <2>13. Save(p) \/ Crash(p) \/ Throw(p) => Quits(p)
    BY <1>0, Entering
  <2>14. Poll(p) \/ Cron(p) => Called(p)
    BY DEF Poll, Cron, Run
  <2> QED BY <1>5, <2>5, <2>6, <2>7, <2>8, <2>9, <2>10, <2>11, <2>12, <2>13, <2>14 DEF Acts, Walk
<1> QED BY <1>4, <1>5, NextIs

\* What a step leaves alone is left alone in the terms.
SameTerms == UNCHANGED <<day, stops, now>> /\ rec'.status = rec.status
             /\ rec'.refund = rec.refund
LEMMA TermsStep ==
  ASSUME StopAlone, WatchInv, WatchInv', AloneInv, AloneInv', TallyInv, [Next]_vars
  PROVE  [Terms!Next]_(Terms!terms)
<1>0. /\ TypeInv /\ now \in Nat
  BY DEF WatchInv, TypeInv
<1>1. ASSUME SameTerms PROVE UNCHANGED Terms!terms
  BY <1>1 DEF SameTerms, Terms!terms
<1>2. CASE UNCHANGED vars \/ World
  <2>1. UNCHANGED <<rec, day, stops>> /\ (now' = now \/ now' = now + 1)
    BY <1>0, <1>2, TickOrPass
  <2>2. CASE now' = now
    BY <1>1, <2>1, <2>2 DEF SameTerms
  <2>3. CASE now' = now + 1
    <3>1. Terms!Pass
      BY <2>1, <2>3 DEF Terms!Pass
    <3> QED BY <3>1 DEF Terms!Next
  <2> QED BY <2>1, <2>2, <2>3
<1>3. ASSUME NEW p \in Procs, Acts(p) PROVE [Terms!Next]_(Terms!terms)
  <2> DEFINE i == inv[p]
  <2>1. i \in Invocation /\ InvOK(i) /\ WalkOK(i, day) /\ TallyOK(i) /\ i.at \in Nat
    BY <1>0 DEF TypeInv, WatchInv, WalkInv, TallyInv, Invocation
  <2>2. CASE SetMissed(p) \/ SetRecorded(p) \/ Skip(p)
    <3>1. /\ i.pc \in {"miss", "record"} /\ Loaded(i) /\ i.n \in DayNums /\ rec.status = "watching"
          /\ UNCHANGED <<rec, now, stops>>
      <4>1. i.pc \in {"miss", "record"} /\ UNCHANGED <<rec, now, stops>>
        BY <2>2 DEF SetMissed, SetRecorded, Skip, At, Verdict, around
      <4>2. Loaded(i) /\ rec.status = "watching"
        BY <4>1 DEF Loaded, Walking, AloneInv
      <4>3. i.n \in DayNums
        BY <2>1, <4>1, WatchAssumption DEF InvOK, Walking, DayNums, Invocation
      <4> QED BY <4>1, <4>2, <4>3
    <3>2. i.at <= now /\ now <= i.at + 1 /\ i.n \in Nat
      BY <3>1 DEF WatchInv, RunsInv, DayNums
    <3>3. /\ Opens(i.n) \in Nat /\ Opens(i.n + 1) = Opens(i.n) + PerDay /\ PerDay \in Nat
          /\ Opens(i.n) = i.n * PerDay /\ Opens(i.n + 1) = (i.n + 1) * PerDay
      BY <3>2, Windows DEF Opens
    <3>4. ASSUME NEW v, day' = [day EXCEPT ![i.n] = v], day[i.n] = "none"
          PROVE  Terms!Judge(i.n, v)
      BY <3>1, <3>4 DEF Terms!Judge
    <3>5. CASE SetMissed(p)
      <4>1. i.pc = "miss"
        BY <3>5 DEF SetMissed, At
      <4>2. now >= (i.n + 1) * PerDay \/ (now >= i.n * PerDay /\ stops # {})
        <5>1. i.at >= Opens(i.n) /\ (i.at >= Opens(i.n + 1) \/ i.copy.stop # "none")
          BY <2>1, <4>1 DEF WalkOK
        <5>2. i.copy.stop # "none" => stops # {}
          BY <3>1 DEF WatchInv, StopsInv
        <5> QED BY <1>0, <2>1, <3>2, <3>3, <5>1, <5>2
      <4>3. day' = [day EXCEPT ![i.n] = "missed"] /\ day[i.n] = "none"
        BY <2>1, <3>5, <4>1 DEF SetMissed, Verdict, TallyOK
      <4>4. Terms!Miss(i.n)
        BY <3>4, <4>2, <4>3 DEF Terms!Miss
      <4> QED BY <3>1, <4>4 DEF Terms!Next, DayNums
    <3>6. CASE SetRecorded(p) \/ Skip(p)
      <4>1. i.pc = "record"
        BY <3>6 DEF SetRecorded, Skip, At
      <4>2. day[i.n] = "none"
        BY <2>1, <4>1 DEF TallyOK
      <4>3. day' = day \/ day' = [day EXCEPT ![i.n] = "recorded"]
        BY <3>6 DEF SetRecorded, Skip, Verdict
      <4>4. i.n * PerDay <= now /\ now <= (i.n + 1) * PerDay
        BY <1>0, <2>1, <3>2, <3>3, <4>1 DEF WalkOK, During
      <4>5. CASE day' = [day EXCEPT ![i.n] = "recorded"]
        <5>1. Terms!Record(i.n)
          BY <3>4, <4>2, <4>4, <4>5 DEF Terms!Record
        <5> QED BY <3>1, <5>1 DEF Terms!Next, DayNums
      <4>6. CASE day' = day
        BY <1>1, <3>1, <4>6 DEF SameTerms
      <4> QED BY <4>3, <4>5, <4>6
    <3> QED BY <2>2, <3>5, <3>6
  <2>3. ASSUME NEW why \in {"ours", "abuse"}, StopWatch(p, why)
        PROVE  Terms!Ask(why)
    BY <2>3 DEF StopWatch, record, Terms!Ask
  <2>4. CASE Save(p)
    <3>1. /\ rec' = i.copy /\ i.pc = "save" /\ UNCHANGED <<day, stops, now>>
      BY <2>4 DEF Save, At
    <3>2. /\ Loaded(i) /\ rec.status = "watching"
      BY <3>1 DEF Loaded, Closing, AloneInv
    <3>3. i.copy.status \in {"watching"} \cup Ended /\ Ended = {"completed", "stopped"}
      BY <2>1 DEF Invocation, Rec, Ended
    <3>4. CASE i.copy.status = "watching"
      BY <3>1, <3>2, <3>4 DEF Terms!terms, Ended
    <3>5. CASE i.copy.status \in Ended
      <4>1. /\ i.copy.refund = Terms!Owed(i.copy.stop)
            /\ i.copy.status = IF i.copy.stop # "none" THEN "stopped" ELSE "completed"
            /\ DoneBy(i.at, i.copy.stop, day) /\ i.at <= now
            /\ i.copy.stop \in stops \cup {"none"}
        BY <2>1, <3>1, <3>2, <3>5
        DEF TallyOK, WalkOK, Walking, Closing, WatchInv, RunsInv, StopsInv
      <4>2. Terms!End(i.copy.status, i.copy.stop)
        BY <3>1, <3>2, <3>5, <4>1 DEF Terms!End
      <4>3. CASE i.copy.stop # "none"
        <5>1. Terms!Stop
          BY <4>1, <4>2, <4>3 DEF Terms!Stop
        <5> QED BY <5>1 DEF Terms!Next
      <4>4. CASE i.copy.stop = "none"
        <5>1. \/ \A n \in 1..Days : day[n] # "none"
              \/ now >= (Days + 1) * PerDay
          <6>1. Opens(Days + 1) \in Nat /\ Opens(Days + 1) = (Days + 1) * PerDay
            <7>1. Days + 1 \in Nat
              BY WatchAssumption
            <7>2. Opens(Days + 1) \in Nat
              BY <7>1, WatchAssumption DEF Opens
            <7> QED BY <7>2 DEF Opens
          <6> QED BY <1>0, <2>1, <4>1, <4>4, <6>1 DEF DoneBy, DayNums
        <5>2. Terms!Complete
          BY <4>1, <4>2, <4>4, <5>1 DEF Terms!Complete
        <5> QED BY <5>2 DEF Terms!Next
      <4> QED BY <4>3, <4>4
    <3> QED BY <3>3, <3>4, <3>5
  <2>5. CASE \/ Poll(p) \/ Cron(p) \/ Load(p) \/ Count(p) \/ Judge(p) \/ Total(p) \/ Unindex(p)
             \/ Line(p) \/ Index(p) \/ Crash(p) \/ Throw(p)
    <3>1. UNCHANGED <<rec, day, stops, now>>
      BY <2>5 DEF Poll, Cron, Run, Called, Load, Count, Judge, Total, Close, Unindex, Line,
         Index, IndexAt, Crash, Throw, record, around
    <3> QED BY <1>1, <3>1 DEF SameTerms
  <2> HIDE DEF i
  <2> QED BY <1>3, <2>2, <2>3, <2>4, <2>5 DEF Acts, Walk, Terms!Next
<1> QED BY <1>2, <1>3, NextIs

\* The thirty days implement their terms (WatchTerms): no day gets a second verdict,
\* is back-filled or is missed before its window is over, the watch ends once, and
\* the refund then is the one of the verdicts that stand; for early stops that the
\* operator makes while nothing else runs.
THEOREM TermsImplemented == ASSUME StopAlone PROVE Spec => ImplementsTerms
<1> DEFINE TermsInv == WatchInv /\ AloneInv /\ TallyInv
<1>1. Init => TermsInv /\ Terms!Init
  <2> SUFFICES ASSUME Init PROVE TermsInv /\ Terms!Init
    OBVIOUS
  <2>1. /\ \A p \in Procs : inv[p] = Idle
        /\ rec.status = "watching" /\ \A k \in DayNums : day[k] = "none"
    BY DEF Init, Start0
  <2>2. AloneInv
    BY <2>1, IdleIs DEF AloneInv, Live
  <2>3. TallyInv
    BY <2>1, IdleIs DEF TallyInv, TallyOK, Walking, Closing
  <2>4. Terms!Init
    BY DEF Init, Start0, Terms!Init, DayNums, Ended
  <2> QED BY <2>2, <2>3, <2>4, WatchInductive
<1>2. TermsInv /\ [Next]_vars => TermsInv'
  BY WatchInductive, AloneStep, TallyStep
<1>3. TermsInv /\ TermsInv' /\ [Next]_vars => [Terms!Next]_(Terms!terms)
  BY TermsStep
<1> QED BY <1>1, <1>2, <1>3, PTL DEF Spec, ImplementsTerms, Terms!Spec
=============================================================================
