-------------------------- MODULE SolanaSlotProofs --------------------------
(* Theorems about SolanaSlot, for any requests, instances, fingerprints and   *)
(* bounds.  Types hold on any instances, the rest while no two requests that   *)
(* carry the payment share one.                                               *)
EXTENDS SolanaSlot, TLAPS, FiniteSetTheorems

----------------------------------------------------------------------------
(* Types. *)

Todos == [op: {"none", "cas", "casdel", "set", "del"}, next: Values]
ReqRec == [pc: Steps \cup {"idle"}, id: 0..MaxReqs, rq: Rqs, at: Time,
           start: Time, val: Values, ask: {"none", "sent", "refused"},
           settle: {"none", "failed", "unconfirmed", "duplicate", "success"},
           noted: BOOLEAN, todo: Todos, paid: BOOLEAN, told: BOOLEAN]

TypeInv ==
  /\ slot \in Values /\ faults \in 0..MaxFaults
  /\ local \in [Insts -> Finals \cup {"none"}]
  /\ attempt \in [Insts -> Reqs \cup {None}]
  /\ req \in [Reqs -> ReqRec]
  /\ led \in {"none", "paid", "failed"} /\ paidFor \subseteq Rqs
  /\ opened \in 0..MaxReqs /\ {told, marked} \subseteq BOOLEAN
  /\ delivered \in Nat /\ lostMarks \in Nat /\ now \in Time
  /\ \A r \in Reqs : /\ req[r].id <= opened
                     /\ req[r].pc # "idle" => req[r].id \in Ids

LEMMA ValueTypes ==
  /\ Free \in Values /\ NoTodo \in Todos /\ Idle \in ReqRec
  /\ 0 \in Time /\ 1 \in Time
  /\ \A v \in Values : [v EXCEPT !.rq = None] \in Values
  /\ \A r \in Reqs : TypeInv /\ req[r].pc # "idle" => ClaimOf(r) \in Values
  /\ \A r \in Reqs : TypeInv /\ req[r].pc # "idle" =>
       /\ Settled(r) \in Values /\ Failed(r) \in Values
       /\ Undelivered(r) \in Values /\ LeaseOf(r) \in Values
       /\ [Settled(r) EXCEPT !.own = req[r].id] \in Values
<1> USE SolanaAssumption, StoreAssumption
<1>1. Free \in Values /\ NoTodo \in Todos /\ 0 \in Time /\ 1 \in Time
  BY DEF Free, Bare, Values, States, NoTodo, Todos, Time
<1>2. Idle \in ReqRec
  BY <1>1 DEF Idle, ReqRec
<1>3. ASSUME NEW r \in Reqs, TypeInv, req[r].pc # "idle"
      PROVE  ClaimOf(r) \in Values /\ LeaseOf(r) \in Values
  <2>1. /\ req[r].id \in Ids /\ req[r].start \in Time /\ req[r].at \in Time
        /\ req[r].rq \in Rqs /\ req[r].val \in Values
    BY <1>3 DEF TypeInv, ReqRec
  <2>2. ClaimOf(r) \in Values
    BY <2>1 DEF ClaimOf, Values, States
  <2>3. LeaseOf(r) \in Values
    BY <2>1 DEF LeaseOf, Mine, Values, States
  <2> QED BY <2>2, <2>3
<1>4. ASSUME NEW r \in Reqs, TypeInv, req[r].pc # "idle"
      PROVE  /\ Settled(r) \in Values /\ Failed(r) \in Values
             /\ Undelivered(r) \in Values
             /\ [Settled(r) EXCEPT !.own = req[r].id] \in Values
  BY <1>4 DEF TypeInv, Settled, Failed, Undelivered, Mark, Bare, Mine, Values,
              States, ReqRec
<1>5. \A v \in Values : [v EXCEPT !.rq = None] \in Values
  BY DEF Values
<1> QED BY <1>1, <1>2, <1>3, <1>4, <1>5

LEMMA RememberedTypes ==
  ASSUME TypeInv, NEW r \in Reqs, NEW v \in Values,
         Sets(r, v) \/ Remembers(r, v)
  PROVE  local' \in [Insts -> Finals \cup {"none"}]
  BY SolanaAssumption DEF TypeInv, Sets, Remembers, Finals

\* The store after a command, answered or not.
LEMMA StoreTypes ==
  ASSUME TypeInv, NEW v \in Values, Answered(v) \/ Lost(v)
  PROVE  slot' \in Values /\ faults' \in 0..MaxFaults
  BY StoreAssumption DEF TypeInv, Answered, Lost


\* The record each step leaves its request with.
Begun(i, q, t, s) == [Idle EXCEPT !.pc = "claim", !.id = i, !.rq = q, !.at = t,
                                  !.start = s]
MovedTo(q, l) == [q EXCEPT !.pc = l]
Asked(q, ask, known) == [q EXCEPT !.pc = "asked", !.ask = ask, !.noted = known]
Heard(q, out) == [q EXCEPT !.pc = "judge", !.ask = "none",
                           !.settle = IF q.noted THEN out ELSE "none",
                           !.noted = FALSE]
HasRead(q, l, v, t) == [q EXCEPT !.pc = l, !.val = v, !.start = t]
Ended(q, op, next, a) ==
  [q EXCEPT !.pc = "write", !.todo = [op |-> op, next |-> next],
            !.settle = "none", !.paid = a = "200",
            !.told = a = "402" /\ paidFor # {}]

LEMMA RecordsTyped ==
  /\ \A i \in Ids, q \in Rqs, t \in Time, s \in Time :
       Begun(i, q, t, s) \in ReqRec
  /\ \A q \in ReqRec :
       /\ \A l \in Steps \cup {"idle"} : MovedTo(q, l) \in ReqRec
       /\ \A ask \in {"sent", "refused"}, known \in BOOLEAN :
            Asked(q, ask, known) \in ReqRec
       /\ \A out \in {"failed", "unconfirmed", "duplicate", "success"} :
            Heard(q, out) \in ReqRec
       /\ \A l \in Steps, v \in Values, t \in Time :
            HasRead(q, l, v, t) \in ReqRec
       /\ \A op \in {"cas", "casdel", "set", "del"}, v \in Values, a \in {"200", "402", "no"} :
            Ended(q, op, v, a) \in ReqRec
<1>1. ASSUME NEW i \in Ids, NEW q \in Rqs, NEW t \in Time, NEW s \in Time
      PROVE  Begun(i, q, t, s) \in ReqRec
  <2>1. i \in 0..MaxReqs /\ "claim" \in Steps \cup {"idle"}
    BY StoreAssumption DEF Ids, Steps
  <2> QED BY <2>1, ValueTypes DEF Begun, ReqRec, Idle
<1>2. ASSUME NEW q \in ReqRec
      PROVE  /\ \A l \in Steps \cup {"idle"} : MovedTo(q, l) \in ReqRec
             /\ \A ask \in {"sent", "refused"}, known \in BOOLEAN :
                  Asked(q, ask, known) \in ReqRec
             /\ \A out \in {"failed", "unconfirmed", "duplicate", "success"} :
                  Heard(q, out) \in ReqRec
             /\ \A l \in Steps, v \in Values, t \in Time :
                  HasRead(q, l, v, t) \in ReqRec
  BY DEF MovedTo, Asked, Heard, HasRead, ReqRec, Steps
<1>3. ASSUME NEW q \in ReqRec, NEW op \in {"cas", "casdel", "set", "del"}, NEW v \in Values,
             NEW a
      PROVE  Ended(q, op, v, a) \in ReqRec
  <2>1. [op |-> op, next |-> v] \in Todos
    BY DEF Todos
  <2> QED BY <2>1 DEF Ended, ReqRec, Steps
<1> QED BY <1>1, <1>2, <1>3

\* One request's record becomes n.
Becomes(r, n) == req' = [req EXCEPT ![r] = n]

LEMMA Moves ==
  ASSUME req \in [Reqs -> ReqRec], NEW r \in Reqs
  PROVE  /\ \A l : req' = Goto(r, l) => Becomes(r, MovedTo(req[r], l))
         /\ \A ask, known : req' = [req EXCEPT ![r].pc = "asked", ![r].ask = ask,
                                              ![r].noted = known]
                              => Becomes(r, Asked(req[r], ask, known))
         /\ \A out : req' = [req EXCEPT ![r].pc = "judge", ![r].ask = "none",
                                        ![r].settle = IF req[r].noted THEN out
                                                                      ELSE "none",
                                        ![r].noted = FALSE]
                       => Becomes(r, Heard(req[r], out))
         /\ \A l, v, t : req' = [req EXCEPT ![r].pc = l, ![r].val = v,
                                            ![r].start = t]
                           => Becomes(r, HasRead(req[r], l, v, t))
         /\ \A op, v, a : Ends(r, op, v, a)
                            => Becomes(r, Ended(req[r], op, v, a))
<1> USE DEF Becomes, ReqRec
<1>1. \A l : req' = Goto(r, l) => Becomes(r, MovedTo(req[r], l))
  BY DEF Goto, MovedTo
<1>2. ASSUME NEW ask, NEW known,
             req' = [req EXCEPT ![r].pc = "asked", ![r].ask = ask,
                                ![r].noted = known]
      PROVE  Becomes(r, Asked(req[r], ask, known))
  BY <1>2 DEF Asked
<1>3. ASSUME NEW out, req' = [req EXCEPT ![r].pc = "judge", ![r].ask = "none",
                                         ![r].settle = IF req[r].noted THEN out
                                                                       ELSE "none",
                                         ![r].noted = FALSE]
      PROVE  Becomes(r, Heard(req[r], out))
  BY <1>3 DEF Heard
<1>4. ASSUME NEW l, NEW v, NEW t,
             req' = [req EXCEPT ![r].pc = l, ![r].val = v, ![r].start = t]
      PROVE  Becomes(r, HasRead(req[r], l, v, t))
  BY <1>4 DEF HasRead
<1>5. ASSUME NEW op, NEW v, NEW a, Ends(r, op, v, a)
      PROVE  Becomes(r, Ended(req[r], op, v, a))
  BY <1>5 DEF Ends, Ended
<1> HIDE DEF Becomes, ReqRec
<1> QED BY <1>1, <1>2, <1>3, <1>4, <1>5

LEMMA OneRecordTyped ==
  ASSUME TypeInv, NEW r \in Reqs, NEW n \in ReqRec, Becomes(r, n),
         n.pc # "idle" => n.id \in Ids, n.id <= opened', opened <= opened',
         opened' \in 0..MaxReqs
  PROVE  /\ req' \in [Reqs -> ReqRec]
         /\ \A s \in Reqs : /\ req'[s].id <= opened'
                            /\ req'[s].pc # "idle" => req'[s].id \in Ids
  BY StoreAssumption DEF TypeInv, ReqRec, Becomes

LEMMA SameRequestTyped ==
  ASSUME TypeInv, NEW r \in Reqs, req[r].pc # "idle", opened' = opened,
         \E n \in ReqRec : Becomes(r, n) /\ n.id = req[r].id
  PROVE  /\ req' \in [Reqs -> ReqRec]
         /\ \A s \in Reqs : /\ req'[s].id <= opened'
                            /\ req'[s].pc # "idle" => req'[s].id \in Ids
<1>1. PICK n \in ReqRec : Becomes(r, n) /\ n.id = req[r].id
  OBVIOUS
<1> QED BY <1>1, OneRecordTyped DEF TypeInv

\* How each step leaves its request: what it becomes, and that it stays itself.
LEMMA StepTyped ==
  ASSUME TypeInv, NEW r \in Reqs,
         \/ Claim(r) \/ Serve(r) \/ Settle(r) \/ SettleAnswers(r) \/ Judge(r)
         \/ Read(r) \/ Take(r) \/ Look(r) \/ Write(r)
  PROVE  \E n \in ReqRec : Becomes(r, n) /\ n.id = req[r].id
<1> DEFINE Goal == \E n \in ReqRec : Becomes(r, n) /\ n.id = req[r].id
<1> SUFFICES Goal
  OBVIOUS
<1>1. /\ req \in [Reqs -> ReqRec] /\ req[r] \in ReqRec /\ req[r].pc # "idle"
      /\ slot \in Values /\ now \in Time /\ 0 \in Time
      /\ ClaimOf(r) \in Values /\ LeaseOf(r) \in Values
      /\ Settled(r) \in Values /\ Failed(r) \in Values
      /\ Undelivered(r) \in Values /\ Free \in Values
      /\ [Settled(r) EXCEPT !.own = req[r].id] \in Values
      /\ [Settled(r) EXCEPT !.rq = None] \in Values
      /\ [Failed(r) EXCEPT !.rq = None] \in Values
      /\ [Undelivered(r) EXCEPT !.rq = None] \in Values
  <2>1. req[r].pc # "idle"
    BY DEF Claim, Serve, Settle, SettleAnswers, Judge, Read, Take, Look, Write, At
  <2> QED BY <2>1, ValueTypes DEF TypeInv
<1>2. ASSUME NEW l \in Steps, req' = Goto(r, l)
      PROVE  Goal
  <2>1. MovedTo(req[r], l) \in ReqRec
    BY <1>1, RecordsTyped
  <2>2. MovedTo(req[r], l).id = req[r].id
    BY <1>1 DEF MovedTo, ReqRec
  <2> QED BY <2>1, <2>2, <1>1, <1>2, Moves
<1>3. ASSUME NEW l \in Steps, NEW v \in Values, NEW t \in Time,
             req' = [req EXCEPT ![r].pc = l, ![r].val = v, ![r].start = t]
      PROVE  Goal
  <2>1. HasRead(req[r], l, v, t) \in ReqRec
    BY <1>1, RecordsTyped
  <2>2. HasRead(req[r], l, v, t).id = req[r].id
    BY <1>1 DEF HasRead, ReqRec
  <2> QED BY <2>1, <2>2, <1>1, <1>3, Moves
<1>4. ASSUME NEW op \in {"cas", "casdel", "set", "del"}, NEW v \in Values,
             NEW a \in {"200", "402", "no"}, Ends(r, op, v, a)
      PROVE  Goal
  <2>1. Ended(req[r], op, v, a) \in ReqRec
    BY <1>1, RecordsTyped
  <2>2. Ended(req[r], op, v, a).id = req[r].id
    BY <1>1 DEF Ended, ReqRec
  <2> QED BY <2>1, <2>2, <1>1, <1>4, Moves
<1>5. CASE Settle(r)
  <2>1. PICK ask \in {"sent", "refused"} :
          req' = [req EXCEPT ![r].pc = "asked", ![r].ask = ask,
                             ![r].noted = Known(r)]
    BY <1>5 DEF Settle
  <2>2. Asked(req[r], ask, Known(r)) \in ReqRec
    BY <1>1, RecordsTyped DEF Known
  <2>3. Asked(req[r], ask, Known(r)).id = req[r].id
    BY <1>1 DEF Asked, ReqRec
  <2> QED BY <2>1, <2>2, <2>3, <1>1, Moves
<1>6. CASE SettleAnswers(r)
  <2>1. PICK out \in Outcomes(r) :
          req' = [req EXCEPT ![r].pc = "judge", ![r].ask = "none",
                             ![r].settle = IF req[r].noted THEN out ELSE "none",
                             ![r].noted = FALSE]
    BY <1>6 DEF SettleAnswers
  <2>2. out \in {"failed", "unconfirmed", "duplicate", "success"}
    BY DEF Outcomes
  <2>3. Heard(req[r], out) \in ReqRec
    BY <1>1, <2>2, RecordsTyped
  <2>4. Heard(req[r], out).id = req[r].id
    BY <1>1 DEF Heard, ReqRec
  <2> QED BY <2>1, <2>3, <2>4, <1>1, Moves
<1> HIDE DEF Goal
<1> USE DEF Steps
<1>7. CASE Claim(r)
  BY <1>7, <1>1, <1>2, <1>3 DEF Claim, Refused
<1>8. CASE Serve(r)
  BY <1>8, <1>1, <1>2, <1>4 DEF Serve, Release
<1>9. CASE Judge(r)
  BY <1>9, <1>1, <1>4 DEF Judge, Says, Release, Confirm
<1>10. CASE Read(r)
  BY <1>10, <1>1, <1>2, <1>3 DEF Read, Refused
<1>11. CASE Take(r)
  BY <1>11, <1>1, <1>2, <1>3 DEF Take, Refused
<1>12. CASE Look(r)
  BY <1>12, <1>1, <1>4 DEF Look
<1>13. CASE Write(r)
  BY <1>13, <1>2 DEF Write
<1> QED BY <1>5, <1>6, <1>7, <1>8, <1>9, <1>10, <1>11, <1>12, <1>13

LEMMA StepTypes ==
  ASSUME TypeInv, NEW r \in Reqs,
         \/ Claim(r) \/ Serve(r) \/ Settle(r) \/ SettleAnswers(r) \/ Judge(r)
         \/ Read(r) \/ Take(r) \/ Look(r) \/ Write(r)
  PROVE  TypeInv'
<1>1. /\ req[r].pc # "idle" /\ req[r] \in ReqRec /\ Mine(r) \in Values
      /\ req[r].rq \in Rqs /\ slot \in Values
      /\ req[r].todo.next \in Values /\ Free \in Values
      /\ ClaimOf(r) \in Values /\ LeaseOf(r) \in Values
      /\ Settled(r) \in Values /\ Failed(r) \in Values
      /\ Undelivered(r) \in Values
  <2>1. req[r].pc # "idle"
    BY DEF Claim, Serve, Settle, SettleAnswers, Judge, Read, Take, Look, Write, At
  <2> QED BY <2>1, ValueTypes DEF TypeInv, ReqRec, Mine, Todos
<1>2. opened' = opened /\ led' = led /\ now' = now /\ told' = told
      /\ delivered' = delivered
  BY DEF Claim, Serve, Settle, SettleAnswers, Judge, Read, Take, Look, Write,
         history
<1>3. /\ req' \in [Reqs -> ReqRec]
      /\ \A s \in Reqs : /\ req'[s].id <= opened'
                         /\ req'[s].pc # "idle" => req'[s].id \in Ids
  BY <1>1, <1>2, StepTyped, SameRequestTyped
<1>4. slot' \in Values /\ faults' \in 0..MaxFaults
  <2>1. ASSUME NEW v \in Values, Answered(v) \/ Lost(v)
        PROVE  slot' \in Values /\ faults' \in 0..MaxFaults
    BY <2>1, StoreTypes
  <2>2. CASE Claim(r)
    BY <2>2, <2>1, <1>1 DEF Claim, SetNX
  <2>3. CASE Take(r)
    BY <2>3, <2>1, <1>1 DEF Take, CompareAndSet
  <2>4. CASE Write(r)
    BY <2>4, <2>1, <1>1 DEF Write, After, CompareAndSet, CompareAndDelete, Put,
                            Del, TypeInv
  <2>5. CASE Read(r)
    BY <2>5, StoreAssumption DEF Read, Throws, TypeInv
  <2>6. CASE Serve(r) \/ Settle(r) \/ SettleAnswers(r) \/ Judge(r) \/ Look(r)
    BY <2>6 DEF Serve, Settle, SettleAnswers, Judge, Look, TypeInv
  <2> QED BY <2>2, <2>3, <2>4, <2>5, <2>6
<1>5. local' \in [Insts -> Finals \cup {"none"}]
  <2>1. local' = local \/ \E v \in Values : Sets(r, v) \/ Remembers(r, v)
    BY <1>1 DEF Claim, Serve, Settle, SettleAnswers, Judge, Read, Take, Look,
                Write, Release, Says, Confirm, inst
  <2> QED BY <2>1, RememberedTypes DEF TypeInv
<1>7. attempt' \in [Insts -> Reqs \cup {None}]
  BY DEF Claim, Serve, Settle, SettleAnswers, Judge, Read, Take, Look, Write, inst,
         TypeInv
<1>6. paidFor' \subseteq Rqs /\ marked' \in BOOLEAN /\ lostMarks' \in Nat
  <2>1. CASE Write(r)
    BY <2>1, <1>1 DEF Write, TypeInv, ReqRec
  <2>2. CASE Settle(r)
    BY <2>2, <1>1 DEF Settle, TypeInv
  <2>3. CASE \/ Claim(r) \/ Serve(r) \/ SettleAnswers(r) \/ Judge(r)
             \/ Read(r) \/ Take(r) \/ Look(r)
    BY <2>3 DEF Claim, Serve, SettleAnswers, Judge, Read, Take, Look, history,
                TypeInv
  <2> QED BY <2>1, <2>2, <2>3
<1> QED BY <1>2, <1>3, <1>4, <1>5, <1>6, <1>7 DEF TypeInv

LEMMA OpenTypes ==
  ASSUME TypeInv, NEW r \in Reqs, NEW q \in Rqs, Open(r, q)
  PROVE  TypeInv'
<1> USE SolanaAssumption, StoreAssumption
<1>1. PICK s \in StartSlots :
        req' = [req EXCEPT ![r] = [Idle EXCEPT !.pc = "claim", !.id = opened + 1,
                                     !.rq = q, !.at = now, !.start = s]]
  BY DEF Open
<1> DEFINE n == Begun(opened + 1, q, now, s)
<1>2. opened + 1 \in Ids /\ opened' = opened + 1 /\ opened' \in 0..MaxReqs
      /\ s \in Time /\ now \in Time
  BY ValueTypes DEF Open, TypeInv, Ids, StartSlots
<1>3. n \in ReqRec
  BY <1>2, RecordsTyped
<1>4. n.id = opened + 1 /\ Becomes(r, n)
  BY <1>1 DEF Begun, Becomes, Idle
<1>5. /\ req' \in [Reqs -> ReqRec]
      /\ \A x \in Reqs : /\ req'[x].id <= opened'
                         /\ req'[x].pc # "idle" => req'[x].id \in Ids
  <2> HIDE DEF n
  <2> QED BY <1>2, <1>3, <1>4, OneRecordTyped DEF TypeInv
<1> QED BY <1>2, <1>5 DEF Open, TypeInv, history, inst

LEMMA LeaveTypes ==
  ASSUME TypeInv, NEW r \in Reqs, Reply(r) \/ Dies(r)
  PROVE  TypeInv'
<1>1. Becomes(r, Idle) /\ Idle.pc = "idle" /\ Idle.id = 0 /\ opened' = opened
      /\ Idle \in ReqRec
  BY ValueTypes DEF Reply, Dies, Becomes, Idle
<1>2. /\ req' \in [Reqs -> ReqRec]
      /\ \A x \in Reqs : /\ req'[x].id <= opened'
                         /\ req'[x].pc # "idle" => req'[x].id \in Ids
  BY <1>1, OneRecordTyped, StoreAssumption DEF TypeInv
<1>3. /\ local' \in [Insts -> Finals \cup {"none"}]
      /\ attempt' \in [Insts -> Reqs \cup {None}]
  BY SolanaAssumption DEF Reply, Dies, TypeInv, Finals
<1>4. delivered' \in Nat /\ told' \in BOOLEAN
  BY DEF Reply, Dies, TypeInv, history, ReqRec
<1> QED BY <1>1, <1>2, <1>3, <1>4 DEF Reply, Dies, TypeInv, history

LEMMA RecycledTypes ==
  ASSUME TypeInv, NEW i \in Insts, Recycled(i)
  PROVE  TypeInv'
  BY DEF Recycled, TypeInv, history

LEMMA InitTypes == Init => TypeInv
<1> SUFFICES ASSUME Init PROVE TypeInv
  OBVIOUS
<1>1. req \in [Reqs -> ReqRec] /\ \A r \in Reqs : req[r].pc = "idle" /\ req[r].id = 0
  BY ValueTypes DEF Init, Idle
<1>2. /\ local \in [Insts -> Finals \cup {"none"}] /\ 0 \in Nat
      /\ attempt \in [Insts -> Reqs \cup {None}]
      /\ 0 \in 0..MaxFaults /\ 0 \in 0..MaxReqs
  BY StoreAssumption DEF Init
<1>3. \A r \in Reqs : req[r].id <= opened
  BY <1>1 DEF Init
<1> QED BY <1>1, <1>2, <1>3, ValueTypes DEF Init, TypeInv

LEMMA NextTypes == TypeInv /\ [Next]_vars => TypeInv'
<1> SUFFICES ASSUME TypeInv, [Next]_vars PROVE TypeInv'
  OBVIOUS
<1>1. CASE UNCHANGED vars
  BY <1>1 DEF vars, inst, history, TypeInv
<1>2. CASE Land \/ Fail \/ Tick
  BY <1>2, StoreAssumption DEF Land, Fail, Takes, Tick, TypeInv, inst,
     history, Time
<1>3. ASSUME NEW r \in Reqs, NEW q \in Rqs, Open(r, q)
      PROVE  TypeInv'
  BY <1>3, OpenTypes
<1>4. ASSUME NEW r \in Reqs, Reply(r) \/ Dies(r)
      PROVE  TypeInv'
  BY <1>4, LeaveTypes
<1>5. ASSUME NEW r \in Reqs,
             \/ Claim(r) \/ Serve(r) \/ Settle(r) \/ SettleAnswers(r) \/ Judge(r)
             \/ Read(r) \/ Take(r) \/ Look(r) \/ Write(r)
      PROVE  TypeInv'
  BY <1>5, StepTypes
<1>6. ASSUME NEW i \in Insts, Recycled(i)
      PROVE  TypeInv'
  BY <1>6, RecycledTypes
<1> QED BY <1>1, <1>2, <1>3, <1>4, <1>5, <1>6 DEF Next

LEMMA Typing == Spec => []TypeInv
  BY InitTypes, NextTypes, PTL DEF Spec

\* Every variable keeps its type, on any number of requests and instances.
THEOREM SolanaTypes == Spec => []TypeOK
<1>1. TypeInv => TypeOK
  BY DEF TypeInv, TypeOK, ReqRec, Todos
<1> QED BY <1>1, Typing, PTL

----------------------------------------------------------------------------
(* The holder.  On any instances at most one request holds the payment and the *)
(* slot is what it wrote: a lease outlives its request, and nobody else's write *)
(* takes the slot away.                                                      *)

Owning == {"serve", "settle", "asked", "judge", "look", "write"}
Keeps(q) ==
  /\ q.pc # "idle" => q.at <= now /\ now - q.at <= MaxReq
  /\ q.pc = "take" =>
       /\ q.start >= q.at
       /\ q.val.st \in {"in_flight", "settle_unconfirmed", "redeeming"}
       /\ q.val.st \in {"in_flight", "redeeming"}
            => q.val.lease # None /\ now - q.val.lease >= Lease
  /\ q.pc \in Owning =>
       /\ slot = q.val /\ q.val.own = q.id
       /\ q.val.lease \in Time /\ q.val.lease >= q.at
       /\ q.val.st \in {"in_flight", "redeeming"}
  /\ q.paid => \/ q.pc = "reply"
               \/ /\ q.pc = "write" /\ q.todo.op \in {"cas", "set"}
                  /\ q.todo.next.st = "settled"
UniqueIds == \A r, s \in Reqs : req[r].pc # "idle" /\ req[s].pc # "idle"
                                /\ req[r].id = req[s].id => r = s
HoldInv == TypeInv /\ UniqueIds /\ \A r \in Reqs : Keeps(req[r])

LEMMA OneOwner ==
  ASSUME HoldInv, NEW r \in Reqs, NEW s \in Reqs,
         req[r].pc \in Owning, req[s].pc \in Owning
  PROVE  r = s
<1>1. req[r].id = req[s].id
  BY DEF HoldInv, Keeps
<1> QED BY <1>1 DEF HoldInv, UniqueIds, Owning

\* A holder dies with its invocation before its lease lapses.
LEMMA TakenMeans ==
  ASSUME HoldInv, NEW r \in Reqs, req[r].pc = "take", slot = Mine(r)
  PROVE  \A s \in Reqs : req[s].pc \notin Owning
<1> SUFFICES ASSUME NEW s \in Reqs, req[s].pc \in Owning PROVE FALSE
  OBVIOUS
<1>1. /\ slot.st \in {"in_flight", "redeeming"}
      /\ slot.lease \in Time /\ slot.lease >= req[s].at
      /\ req[s].pc # "idle"
  BY DEF HoldInv, Keeps, Owning
<1>2. now - slot.lease >= Lease
  BY <1>1 DEF HoldInv, Keeps, Mine
<1>3. now - req[s].at <= MaxReq
  BY <1>1 DEF HoldInv, Keeps
<1>4. now \in Int /\ slot.lease \in Int /\ req[s].at \in Int
  BY <1>1 DEF HoldInv, TypeInv, ReqRec, Time
<1> QED BY <1>1, <1>2, <1>3, <1>4, SolanaAssumption, LeaseAssumption

\* One request's step, while the others hold what they held.
LEMMA HoldStep ==
  ASSUME HoldInv, TypeInv', NEW r \in Reqs, NEW n \in ReqRec, Becomes(r, n),
         now' = now, Keeps(n)',
         slot' = slot \/ \A s \in Reqs : s # r => req[s].pc \notin Owning,
         \/ n.pc = "idle"
         \/ n.id = req[r].id /\ req[r].pc # "idle"
         \/ \A s \in Reqs : n.id # req[s].id
  PROVE  HoldInv'
<1>1. /\ req'[r] = n /\ \A s \in Reqs : s # r => req'[s] = req[s]
  BY DEF Becomes, HoldInv, TypeInv
<1>2. UniqueIds'
  BY <1>1 DEF HoldInv, UniqueIds
<1>3. ASSUME NEW s \in Reqs PROVE Keeps(req[s])'
  <2>1. CASE s = r
    BY <1>1, <2>1 DEF Keeps
  <2>2. CASE s # r
    <3>1. Keeps(req[s]) /\ req'[s] = req[s]
      BY <1>1, <2>2 DEF HoldInv
    <3> QED BY <2>2, <3>1 DEF Keeps
  <2> QED BY <2>1, <2>2
<1> QED BY <1>2, <1>3 DEF HoldInv

\* Steps that leave the slot as it is.
LEMMA HoldQuiet ==
  ASSUME HoldInv, TypeInv', NEW r \in Reqs,
         \/ Serve(r) \/ Settle(r) \/ SettleAnswers(r) \/ Judge(r) \/ Read(r)
         \/ Look(r)
  PROVE  HoldInv'
<1>1. /\ req \in [Reqs -> ReqRec] /\ req[r] \in ReqRec /\ Keeps(req[r])
      /\ req[r].pc \in Owning \cup {"read"} /\ req[r].pc # "write"
      /\ req[r].pc = "read" <=> Read(r)
  BY DEF HoldInv, TypeInv, Serve, Settle, SettleAnswers, Judge, Read, Look, At,
         Owning
<1>2. PICK n \in ReqRec : Becomes(r, n) /\ n.id = req[r].id
  BY StepTyped DEF HoldInv
<1>3. slot' = slot /\ now' = now
  BY DEF Serve, Settle, SettleAnswers, Judge, Read, Look, Throws
<1>4. req'[r] = n /\ ~req[r].paid
  BY <1>1, <1>2 DEF Becomes, Keeps, Owning
<1>5. /\ n.at = req[r].at
      /\ ~Read(r) => n.val = req[r].val /\ n.pc \in Owning
      /\ n.paid => /\ n.pc = "write" /\ n.todo.op \in {"cas", "set"}
                   /\ n.todo.next.st = "settled"
  <2>1. ASSUME NEW op, NEW v, NEW a, Ends(r, op, v, a),
               a = "200" => op \in {"cas", "set"} /\ v.st = "settled", ~Read(r)
        PROVE  <1>5
    BY <1>1, <1>4, <2>1 DEF Ends, ReqRec, Owning
  <2>2. CASE Settle(r)
    BY <1>1, <1>4, <2>2 DEF Settle, ReqRec, Owning
  <2>3. CASE SettleAnswers(r)
    <3>1. PICK out \in Outcomes(r) :
            req' = [req EXCEPT ![r].pc = "judge", ![r].ask = "none",
                               ![r].settle = IF req[r].noted THEN out ELSE "none",
                               ![r].noted = FALSE]
      BY <2>3 DEF SettleAnswers
    <3>2. n = Heard(req[r], out)
      <4>1. Becomes(r, Heard(req[r], out))
        BY <1>1, <3>1, Moves
      <4> QED BY <1>1, <1>4, <4>1 DEF Becomes
    <3>3. /\ Heard(req[r], out).pc = "judge" /\ ~Heard(req[r], out).paid
          /\ Heard(req[r], out).at = req[r].at
          /\ Heard(req[r], out).val = req[r].val
      BY <1>1, <1>4 DEF Heard, ReqRec
    <3> QED BY <3>2, <3>3 DEF Owning
  <2>4. CASE Read(r)
    BY <1>1, <1>4, <2>4 DEF Read, Refused, Goto, ReqRec
  <2>5. ASSUME NEW a \in {"402", "no"}, Release(r, a), ~Read(r)
        PROVE  <1>5
    BY <2>1, <2>5 DEF Release
  <2>6. CASE Serve(r)
    <3>1. ~Read(r)
      BY <2>6 DEF Serve, Read, At
    <3>2. CASE req' = Goto(r, "settle")
      BY <1>1, <1>4, <3>1, <3>2 DEF Goto, ReqRec, Owning
    <3> QED BY <2>5, <2>6, <3>1, <3>2 DEF Serve
  <2>7. CASE Judge(r)
    <3>1. ~Read(r)
      BY <2>7 DEF Judge, Read, At
    <3>2. ASSUME NEW v \in Values, NEW a, Says(r, v, a),
                 a = "200" => v.st = "settled"
          PROVE  <1>5
      <4>1. [v EXCEPT !.rq = None].st = v.st
        BY <3>2 DEF Values
      <4>2. \/ Ends(r, "cas", v, a)
            \/ Ends(r, "set", [v EXCEPT !.rq = None], a)
        BY <3>2 DEF Says
      <4> QED BY <2>1, <3>1, <3>2, <4>1, <4>2
    <3>3. /\ Settled(r) \in Values /\ Failed(r) \in Values
          /\ Undelivered(r) \in Values /\ Settled(r).st = "settled"
      BY <1>1, ValueTypes DEF HoldInv, Owning, Settled, Mark, Bare
    <3>4. \/ Release(r, "402") \/ Says(r, Failed(r), "402")
          \/ Says(r, Undelivered(r), "no") \/ Says(r, Settled(r), "200")
          \/ Says(r, Settled(r), "no")
      BY <2>7 DEF Judge, Confirm
    <3> QED BY <2>5, <3>1, <3>2, <3>3, <3>4
  <2>8. CASE Look(r)
    <3>1. ~Read(r)
      BY <2>8 DEF Look, Read, At
    <3>2. [Settled(r) EXCEPT !.own = req[r].id].st = "settled"
      BY DEF Settled, Mark, Bare
    <3>3. \E v, a : /\ Ends(r, "cas", v, a)
                    /\ a = "200" => v = [Settled(r) EXCEPT !.own = req[r].id]
      BY <2>8 DEF Look
    <3> QED BY <2>1, <3>1, <3>2, <3>3
  <2> QED BY <2>2, <2>3, <2>4, <2>6, <2>7, <2>8
<1>6. Read(r) => \/ n.pc = "reply"
                 \/ /\ n.pc = "take" /\ n.val = slot /\ n.start = now
                    /\ Redeems(r, slot)
  BY <1>1, <1>4 DEF Read, Refused, Goto, ReqRec
<1>7. Keeps(n)'
  <2>1. n.pc # "idle" => n.at <= now' /\ now' - n.at <= MaxReq
    BY <1>1, <1>3, <1>5 DEF Keeps, Owning
  <2>2. n.pc = "take" =>
          /\ n.start >= n.at
          /\ n.val.st \in {"in_flight", "settle_unconfirmed", "redeeming"}
          /\ n.val.st \in {"in_flight", "redeeming"}
               => n.val.lease # None /\ now' - n.val.lease >= Lease
    <3>1. n.pc = "take" => Read(r)
      BY <1>5 DEF Owning
    <3>2. now >= req[r].at
      BY <1>1 DEF Keeps, Owning, HoldInv, TypeInv, ReqRec, Time
    <3> QED BY <3>1, <3>2, <1>3, <1>5, <1>6 DEF Redeems, LeaseOver
  <2>3. n.pc \in Owning =>
          /\ slot' = n.val /\ n.val.own = n.id
          /\ n.val.lease \in Time /\ n.val.lease >= n.at
          /\ n.val.st \in {"in_flight", "redeeming"}
    <3>1. n.pc \in Owning => ~Read(r)
      BY <1>6 DEF Owning
    <3> QED BY <3>1, <1>1, <1>2, <1>3, <1>5 DEF Keeps
  <2> QED BY <2>1, <2>2, <2>3, <1>5 DEF Keeps
<1>8. req[r].pc # "idle"
  BY <1>1 DEF Owning
<1> QED BY <1>2, <1>3, <1>7, <1>8, HoldStep

\* Steps that write the slot: by its holder, or while nobody holds it.
LEMMA HoldWrites ==
  ASSUME HoldInv, TypeInv', NEW r \in Reqs, Claim(r) \/ Take(r) \/ Write(r)
  PROVE  HoldInv'
<1>1. /\ req \in [Reqs -> ReqRec] /\ req[r] \in ReqRec /\ Keeps(req[r])
      /\ req[r].pc # "idle" /\ now' = now
  BY DEF HoldInv, TypeInv, Claim, Take, Write, At
<1>2. PICK n \in ReqRec : Becomes(r, n) /\ n.id = req[r].id
  BY StepTyped DEF HoldInv
<1>3. req'[r] = n
  BY <1>1, <1>2 DEF Becomes
<1>4. ASSUME n.pc \in {"reply", "read"}, n.at = req[r].at,
             n.pc = "read" => ~n.paid,
             slot' = slot \/ \A s \in Reqs : s # r => req[s].pc \notin Owning
      PROVE  HoldInv'
  <2>1. Keeps(n)'
    BY <1>1, <1>4 DEF Keeps, Owning
  <2> QED BY <1>1, <1>2, <1>4, <2>1, HoldStep
<1>5. CASE Write(r)
  <2>1. n.pc = "reply" /\ n.at = req[r].at
    BY <1>1, <1>3, <1>5 DEF Write, Goto, ReqRec
  <2>2. \A s \in Reqs : s # r => req[s].pc \notin Owning
    BY <1>5, OneOwner DEF Write, At, Owning
  <2> QED BY <1>4, <2>1, <2>2
<1>6. CASE Claim(r)
  <2>1. req[r].pc = "claim" /\ ~req[r].paid
    BY <1>1, <1>6 DEF Claim, At, Keeps
  <2>2. slot = Free => \A s \in Reqs : req[s].pc \notin Owning
    BY DEF HoldInv, Keeps, Free, Bare
  <2>3. slot' = slot \/ (slot = Free /\ slot' = ClaimOf(r))
    BY <1>6 DEF Claim, Answered, Lost, SetNX, Holds
  <2>4. CASE \E l \in {"reply", "read"} : req' = Goto(r, l)
    <3>1. n.pc \in {"reply", "read"} /\ n.at = req[r].at /\ ~n.paid
      BY <1>1, <1>3, <2>1, <2>4 DEF Goto, ReqRec
    <3> QED BY <1>4, <2>2, <2>3, <3>1
  <2>5. CASE /\ slot = Free /\ slot' = ClaimOf(r)
             /\ req' = [req EXCEPT ![r].pc = "serve", ![r].val = ClaimOf(r),
                                   ![r].start = 0]
    <3>1. /\ n.pc = "serve" /\ n.val = ClaimOf(r) /\ n.at = req[r].at /\ ~n.paid
      BY <1>1, <1>3, <2>1, <2>5 DEF ReqRec
    <3>2. /\ ClaimOf(r).own = n.id /\ ClaimOf(r).lease = n.at
          /\ ClaimOf(r).st = "in_flight" /\ n.at \in Time /\ n.at <= n.at
      BY <1>1, <1>2, <3>1, StoreAssumption DEF ClaimOf, ReqRec, Time
    <3>3. Keeps(n)'
      BY <1>1, <2>5, <3>1, <3>2 DEF Keeps, Owning
    <3> QED BY <1>1, <1>2, <2>2, <2>5, <3>3, HoldStep
  <2> QED BY <1>6, <2>4, <2>5 DEF Claim, Refused, Answered, SetNX, Holds
<1>7. CASE Take(r)
  <2>1. req[r].pc = "take" /\ ~req[r].paid
    BY <1>1, <1>7 DEF Take, At, Keeps
  <2>2. slot = Mine(r) => \A s \in Reqs : req[s].pc \notin Owning
    BY <2>1, TakenMeans
  <2>3. slot' = slot \/ (slot = Mine(r) /\ slot' = LeaseOf(r))
    BY <1>7 DEF Take, Answered, Lost, CompareAndSet
  <2>4. CASE req' = Goto(r, "reply")
    <3>1. n.pc = "reply" /\ n.at = req[r].at
      BY <1>1, <1>3, <2>4 DEF Goto, ReqRec
    <3> QED BY <1>4, <2>2, <2>3, <3>1
  <2>5. CASE /\ slot = Mine(r) /\ slot' = LeaseOf(r)
             /\ req' = [req EXCEPT ![r].pc = "look", ![r].val = LeaseOf(r),
                                   ![r].start = 0]
    <3>1. /\ n.pc = "look" /\ n.val = LeaseOf(r) /\ n.at = req[r].at /\ ~n.paid
      BY <1>1, <1>3, <2>1, <2>5 DEF ReqRec
    <3>2. /\ LeaseOf(r).own = n.id /\ LeaseOf(r).lease = req[r].start
          /\ LeaseOf(r).st = "redeeming"
          /\ req[r].start \in Time /\ req[r].start >= n.at
      BY <1>1, <1>2, <2>1, <3>1 DEF LeaseOf, Mine, Keeps, ReqRec, Values
    <3>3. Keeps(n)'
      BY <1>1, <2>5, <3>1, <3>2 DEF Keeps, Owning
    <3> QED BY <1>1, <1>2, <2>2, <2>5, <3>3, HoldStep
  <2> QED BY <1>7, <2>4, <2>5 DEF Take, Refused, Answered, CompareAndSet, Holds
<1> QED BY <1>5, <1>6, <1>7

LEMMA NextHold == HoldInv /\ [Next]_vars => HoldInv'
<1> SUFFICES ASSUME HoldInv, [Next]_vars PROVE HoldInv'
  OBVIOUS
<1>1. TypeInv' /\ req \in [Reqs -> ReqRec]
  BY NextTypes DEF HoldInv, TypeInv
<1>2. CASE UNCHANGED vars
  BY <1>1, <1>2 DEF vars, HoldInv, UniqueIds, Keeps
<1>3. CASE Land \/ Fail \/ Tick \/ \E i \in Insts : Recycled(i)
  <2>1. UNCHANGED <<slot, req>>
    BY <1>3 DEF Land, Fail, Takes, Tick, Recycled
  <2>2. ASSUME NEW s \in Reqs PROVE Keeps(req[s])'
    <3>1. \/ now' = now
          \/ now' = now + 1 /\ (req[s].pc # "idle" => now - req[s].at < MaxReq)
      <4>1. req[s].pc \in Steps \cup {"idle"}
        BY <1>1 DEF ReqRec
      <4> QED BY <1>3, <4>1 DEF Land, Fail, Takes, Tick, Recycled
    <3>2. /\ Keeps(req[s]) /\ now \in Nat /\ req[s].at \in Nat
          /\ MaxReq \in Nat /\ Lease \in Nat
          /\ req[s].val.lease # None => req[s].val.lease \in Nat
      BY <1>1, SolanaAssumption DEF HoldInv, TypeInv, ReqRec, Time, Values
    <3> QED BY <2>1, <3>1, <3>2 DEF Keeps
  <2> QED BY <1>1, <2>1, <2>2 DEF HoldInv, UniqueIds
<1>4. ASSUME NEW r \in Reqs, NEW q \in Rqs, Open(r, q)
      PROVE  HoldInv'
  <2>1. PICK t \in StartSlots :
          req' = [req EXCEPT ![r] = [Idle EXCEPT !.pc = "claim", !.id = opened + 1,
                                       !.rq = q, !.at = now, !.start = t]]
    BY <1>4 DEF Open
  <2>2. Begun(opened + 1, q, now, t) = req'[r] /\ req'[r] \in ReqRec
    BY <1>1, <2>1 DEF Begun, TypeInv
  <2>3. PICK n \in ReqRec :
          /\ Becomes(r, n)
          /\ n.pc = "claim" /\ n.id = opened + 1 /\ n.at = now /\ ~n.paid
    BY <2>1, <2>2 DEF Becomes, Begun, Idle
  <2>4. \A s \in Reqs : req[s].id \in Nat /\ req[s].id <= opened /\ opened \in Nat
    BY StoreAssumption DEF HoldInv, TypeInv, ReqRec
  <2>5. slot' = slot /\ now' = now /\ now \in Nat /\ MaxReq \in Nat
        /\ now <= now /\ now - now <= MaxReq
    BY <1>4, SolanaAssumption, StoreAssumption DEF Open, HoldInv, TypeInv, Time
  <2>6. Keeps(n)'
    BY <2>3, <2>5 DEF Keeps, Owning
  <2> QED BY <1>1, <2>3, <2>4, <2>5, <2>6, HoldStep
<1>5. ASSUME NEW r \in Reqs, Reply(r) \/ Dies(r)
      PROVE  HoldInv'
  <2>1. /\ Becomes(r, Idle) /\ Idle \in ReqRec /\ Idle.pc = "idle" /\ ~Idle.paid
        /\ slot' = slot /\ now' = now
    BY <1>5, ValueTypes DEF Reply, Dies, Becomes, Idle, history
  <2>2. Keeps(Idle)'
    BY <2>1 DEF Keeps, Owning
  <2> QED BY <1>1, <2>1, <2>2, HoldStep
<1>6. ASSUME NEW r \in Reqs,
             \/ Claim(r) \/ Serve(r) \/ Settle(r) \/ SettleAnswers(r) \/ Judge(r)
             \/ Read(r) \/ Take(r) \/ Look(r) \/ Write(r)
      PROVE  HoldInv'
  BY <1>1, <1>6, HoldQuiet, HoldWrites
<1> QED BY <1>2, <1>3, <1>4, <1>5, <1>6 DEF Next

LEMMA Held == Spec => []HoldInv
<1>1. Init => HoldInv
  BY InitTypes DEF Init, Idle, HoldInv, UniqueIds, Keeps, Owning
<1> QED BY <1>1, NextHold, PTL DEF Spec

----------------------------------------------------------------------------
(* One delivery.  A paid response on its way counts as delivered; the slot    *)
(* stands for one of them once it says "settled", a lost mark for any other.  *)

Pending == {r \in Reqs : At(r, "reply") /\ req[r].paid}
OnceInv ==
  /\ IsFiniteSet(Pending)
  /\ delivered + Cardinality(Pending)
       <= lostMarks + (IF slot.st = "settled" THEN 1 ELSE 0)

LEMMA PendingLess ==
  ASSUME TypeInv, NEW r \in Reqs, req' = [req EXCEPT ![r] = Idle]
  PROVE  Pending' = Pending \ {r}
<1>1. \A s \in Reqs : req'[s] = IF s = r THEN Idle ELSE req[s]
  BY DEF TypeInv
<1> QED BY <1>1 DEF Pending, At, Idle

LEMMA OnceKeeps ==
  ASSUME HoldInv, OnceInv, Next
  PROVE  OnceInv'
<1> DEFINE Mark01 == IF slot.st = "settled" THEN 1 ELSE 0
<1>1. /\ delivered \in Nat /\ lostMarks \in Nat /\ IsFiniteSet(Pending)
      /\ Cardinality(Pending) \in Nat /\ req \in [Reqs -> ReqRec]
      /\ delivered + Cardinality(Pending) <= lostMarks + Mark01
      /\ Mark01 \in {0, 1}
  BY FS_CardinalityType DEF HoldInv, TypeInv, OnceInv
<1>2. ASSUME delivered' = delivered, lostMarks' = lostMarks, Pending' = Pending,
             slot' = slot \/ slot.st # "settled"
      PROVE  OnceInv'
  BY <1>1, <1>2 DEF OnceInv
<1>3. ASSUME NEW r \in Reqs, Reply(r)
      PROVE  OnceInv'
  <2>1. Pending' = Pending \ {r}
    BY <1>3, PendingLess DEF Reply, HoldInv
  <2>2. /\ delivered' = delivered + (IF r \in Pending THEN 1 ELSE 0)
        /\ lostMarks' = lostMarks /\ slot' = slot
    BY <1>3 DEF Reply, Pending
  <2>3. IsFiniteSet(Pending')
    BY <1>1, <2>1, FS_RemoveElement
  <2>4. Cardinality(Pending') = IF r \in Pending THEN Cardinality(Pending) - 1
                                                  ELSE Cardinality(Pending)
    BY <1>1, <2>1, FS_RemoveElement
  <2> QED BY <1>1, <2>2, <2>3, <2>4 DEF OnceInv
<1>4. ASSUME NEW r \in Reqs, Dies(r)
      PROVE  OnceInv'
  <2>1. Pending' = Pending \ {r}
    BY <1>4, PendingLess DEF Dies, HoldInv
  <2>2. delivered' = delivered /\ lostMarks' = lostMarks /\ slot' = slot
    BY <1>4 DEF Dies, history
  <2>3. IsFiniteSet(Pending')
    BY <1>1, <2>1, FS_RemoveElement
  <2>4. Cardinality(Pending') \in {Cardinality(Pending), Cardinality(Pending) - 1}
    BY <1>1, <2>1, FS_RemoveElement
  <2> QED BY <1>1, <2>2, <2>3, <2>4 DEF OnceInv
<1>5. ASSUME NEW r \in Reqs, Write(r)
      PROVE  OnceInv'
  <2> DEFINE t == req[r].todo
  <2>1. /\ req[r] \in ReqRec /\ Keeps(req[r]) /\ req[r].pc = "write"
        /\ req[r].pc \in Owning
    BY <1>1, <1>5 DEF Write, At, HoldInv, Owning
  <2>2. slot = Mine(r) /\ slot.st # "settled"
    BY <2>1 DEF Keeps, Mine
  <2>3. /\ delivered' = delivered
        /\ lostMarks' = IF /\ faults' # faults /\ req[r].paid /\ slot' # t.next
                        THEN lostMarks + 1 ELSE lostMarks
    BY <1>5 DEF Write
  <2>4. /\ \A s \in Reqs : s # r => req'[s] = req[s]
        /\ At(r, "reply")' /\ req'[r].paid = req[r].paid
    BY <1>1, <1>5 DEF Write, Goto, At, ReqRec
  <2>5. r \notin Pending
    BY <2>1 DEF Pending, At
  <2>6. CASE ~req[r].paid
    <3>1. Pending' = Pending
      BY <2>4, <2>5, <2>6 DEF Pending, At
    <3> QED BY <1>2, <2>2, <2>3, <2>6, <3>1
  <2>7. CASE req[r].paid
    <3>1. t.op \in {"cas", "set"} /\ t.next.st = "settled"
      BY <2>1, <2>7 DEF Keeps
    <3>2. Pending' = Pending \cup {r}
      BY <2>4, <2>7 DEF Pending, At
    <3>3. IsFiniteSet(Pending') /\ Cardinality(Pending') = Cardinality(Pending) + 1
      BY <1>1, <2>5, <3>2, FS_AddElement
    <3>4. After(r) = t.next
      <4>1. CASE t.op = "cas"
        BY <2>2, <4>1 DEF After, CompareAndSet
      <4>2. CASE t.op = "set"
        BY <4>2 DEF After, Put
      <4> QED BY <3>1, <4>1, <4>2
    <3>5. slot' # t.next => faults' # faults
      BY <1>5, <3>4, StoreAssumption DEF Write, Answered, Lost, HoldInv,
         TypeInv
    <3>6. CASE slot' = t.next
      BY <1>1, <2>2, <2>3, <3>1, <3>3, <3>6 DEF OnceInv
    <3>7. CASE slot' # t.next
      BY <1>1, <2>2, <2>3, <2>7, <3>3, <3>5, <3>7 DEF OnceInv
    <3> QED BY <3>6, <3>7
  <2> QED BY <2>6, <2>7
<1>6. CASE Land \/ Fail \/ Tick \/ \E i \in Insts : Recycled(i)
  BY <1>2, <1>6 DEF Land, Fail, Takes, Tick, Recycled, history, Pending, At
<1>7. ASSUME NEW r \in Reqs, ~req'[r].paid \/ req'[r].pc # "reply",
             ~req[r].paid \/ req[r].pc # "reply",
             \A s \in Reqs : s # r => req'[s] = req[s]
      PROVE  Pending' = Pending
  BY <1>7 DEF Pending, At
<1>8. ASSUME NEW r \in Reqs, NEW q \in Rqs, Open(r, q)
      PROVE  OnceInv'
  <2>1. /\ \A s \in Reqs : s # r => req'[s] = req[s]
        /\ req'[r].pc = "claim" /\ req[r].pc = "idle"
    BY <1>1, <1>8 DEF Open, Idle, At
  <2>2. Pending' = Pending
    BY <2>1, <1>7
  <2> QED BY <1>2, <1>8, <2>2 DEF Open, history
<1>9. ASSUME NEW r \in Reqs,
             \/ Claim(r) \/ Serve(r) \/ Settle(r) \/ SettleAnswers(r) \/ Judge(r)
             \/ Read(r) \/ Take(r) \/ Look(r)
      PROVE  OnceInv'
  <2>1. req[r].pc \in {"claim", "serve", "settle", "asked", "judge", "read",
                       "take", "look"}
    BY <1>9 DEF Claim, Serve, Settle, SettleAnswers, Judge, Read, Take, Look, At
  <2>2. PICK n \in ReqRec : Becomes(r, n) /\ n.id = req[r].id
    BY <1>9, StepTyped DEF HoldInv
  <2>3. \A s \in Reqs : s # r => req'[s] = req[s]
    BY <1>1, <2>2 DEF Becomes
  <2>4. req'[r].pc # "reply" \/ ~req'[r].paid
    <3>1. ~req[r].paid
      BY <2>1 DEF HoldInv, Keeps
    <3>2. CASE Claim(r) \/ Read(r) \/ Take(r)
      <4>1. req'[r].paid = req[r].paid
        BY <1>1, <3>2 DEF Claim, Read, Take, Refused, Goto, ReqRec
      <4> QED BY <3>1, <4>1
    <3>3. CASE \E op, v, a : Ends(r, op, v, a)
      BY <1>1, <3>3 DEF Ends, ReqRec
    <3>4. CASE Settle(r) \/ SettleAnswers(r) \/ req' = Goto(r, "settle")
      <4>1. CASE Settle(r)
        BY <1>1, <4>1 DEF Settle, ReqRec
      <4>2. CASE SettleAnswers(r)
        <5>1. PICK out \in Outcomes(r) :
                req' = [req EXCEPT ![r].pc = "judge", ![r].ask = "none",
                                   ![r].settle = IF req[r].noted THEN out
                                                                 ELSE "none",
                                   ![r].noted = FALSE]
          BY <4>2 DEF SettleAnswers
        <5> QED BY <1>1, <5>1 DEF ReqRec
      <4>3. CASE req' = Goto(r, "settle")
        BY <1>1, <4>3 DEF Goto, ReqRec
      <4> QED BY <3>4, <4>1, <4>2, <4>3
    <3>5. CASE Serve(r)
      <4>1. (\E op, v, a : Ends(r, op, v, a)) \/ req' = Goto(r, "settle")
        BY <3>5 DEF Serve, Release
      <4> QED BY <3>3, <3>4, <4>1
    <3>6. CASE Judge(r)
      BY <3>3, <3>6 DEF Judge, Confirm, Says, Release
    <3>7. CASE Look(r)
      BY <3>3, <3>7 DEF Look
    <3> QED BY <1>9, <3>2, <3>4, <3>5, <3>6, <3>7
  <2>5. Pending' = Pending
    BY <2>1, <2>3, <2>4, <1>7
  <2>6. slot' = slot \/ slot.st # "settled"
    <3>1. CASE Claim(r)
      BY <3>1 DEF Claim, Answered, Lost, SetNX, Holds, Free, Bare
    <3>2. CASE Take(r)
      <4>1. Mine(r).st # "settled"
        BY <3>2 DEF Take, At, HoldInv, Keeps, Mine
      <4> QED BY <3>2, <4>1 DEF Take, Answered, Lost, CompareAndSet
    <3>3. CASE \/ Serve(r) \/ Settle(r) \/ SettleAnswers(r) \/ Judge(r)
               \/ Read(r) \/ Look(r)
      BY <3>3 DEF Serve, Settle, SettleAnswers, Judge, Read, Throws, Look
    <3> QED BY <1>9, <3>1, <3>2, <3>3
  <2>7. delivered' = delivered /\ lostMarks' = lostMarks
    BY <1>9 DEF Claim, Serve, Settle, SettleAnswers, Judge, Read, Take, Look,
                history
  <2> QED BY <1>2, <2>5, <2>6, <2>7
<1> QED BY <1>3, <1>4, <1>5, <1>6, <1>8, <1>9 DEF Next

\* One payment is delivered once, and once more for each delivered mark the store
\* lost, whatever overlaps, dies or takes over, on one instance or on many.
THEOREM OneDeliveryPerPayment == Spec => []OneDelivery
<1>1. Init => OnceInv
  <2> SUFFICES ASSUME Init PROVE OnceInv
    OBVIOUS
  <2>1. Pending = {}
    BY DEF Init, Pending, Idle, At
  <2> QED BY <2>1, FS_EmptySet DEF Init, OnceInv, Free, Bare
<1>2. HoldInv /\ OnceInv /\ [Next]_vars => OnceInv'
  <2>1. UNCHANGED vars /\ OnceInv => OnceInv'
    BY DEF vars, history, OnceInv, Pending, At
  <2> QED BY <2>1, OnceKeeps
<1>3. HoldInv /\ OnceInv => OneDelivery
  <2> SUFFICES ASSUME HoldInv, OnceInv PROVE OneDelivery
    OBVIOUS
  <2>1. Cardinality(Pending) \in Nat /\ delivered \in Nat /\ lostMarks \in Nat
    BY FS_CardinalityType DEF OnceInv, HoldInv, TypeInv
  <2> QED BY <2>1 DEF OnceInv, OneDelivery
<1> QED BY <1>1, <1>2, <1>3, Held, PTL DEF Spec

----------------------------------------------------------------------------
(* The Attempt.  A request that runs alone on its instance finds its Attempt   *)
(* from its claim to its answer: nobody else's claim or finally touches it.    *)

OwnInstance == \A r, s \in Reqs : InstOf[r] = InstOf[s] => r = s
Paying == {"serve", "settle", "asked", "judge"}
AttemptInv == \A r \in Reqs : req[r].pc \in Paying => Known(r)

LEMMA AttemptKept ==
  ASSUME OwnInstance, TypeInv, TypeInv', AttemptInv, Next
  PROVE  AttemptInv'
<1> USE SolanaAssumption, StoreAssumption
<1>1. /\ req \in [Reqs -> ReqRec] /\ attempt \in [Insts -> Reqs \cup {None}]
      /\ None \notin Reqs /\ \A r \in Reqs : InstOf[r] \in Insts
  BY DEF TypeInv
<1>2. ASSUME NEW r \in Reqs, \A s \in Reqs : s # r => req'[s] = req[s],
             \A s \in Reqs : s # r => attempt'[InstOf[s]] = attempt[InstOf[s]],
             req'[r].pc \in Paying => Known(r)'
      PROVE  AttemptInv'
  BY <1>2 DEF AttemptInv, Known
<1>3. ASSUME NEW r \in Reqs, NEW n \in ReqRec, Becomes(r, n), attempt' = attempt,
             n.pc \in Paying => req[r].pc \in Paying
      PROVE  AttemptInv'
  BY <1>1, <1>2, <1>3 DEF Becomes, AttemptInv, Known
<1>4. ASSUME NEW r \in Reqs, Claim(r)
      PROVE  AttemptInv'
  <2>1. PICK n \in ReqRec : Becomes(r, n) /\ n.id = req[r].id
    BY <1>4, StepTyped
  <2>2. CASE attempt' = attempt /\ \E l \in {"reply", "read"} : req' = Goto(r, l)
    <3>1. n.pc \notin Paying
      BY <1>1, <2>1, <2>2 DEF Becomes, Goto, ReqRec, Paying
    <3> QED BY <1>3, <2>1, <2>2, <3>1
  <2>3. CASE attempt' = [attempt EXCEPT ![InstOf[r]] = r]
    <3>1. \A s \in Reqs : s # r => attempt'[InstOf[s]] = attempt[InstOf[s]]
      BY <1>1, <2>3 DEF OwnInstance
    <3>2. Known(r)'
      BY <1>1, <2>3 DEF Known
    <3>3. \A s \in Reqs : s # r => req'[s] = req[s]
      BY <1>1, <2>1 DEF Becomes
    <3> QED BY <1>2, <3>1, <3>2, <3>3
  <2> QED BY <1>4, <2>2, <2>3 DEF Claim, Refused, inst
<1>5. ASSUME NEW r \in Reqs,
             \/ Serve(r) \/ Settle(r) \/ SettleAnswers(r) \/ Judge(r)
             \/ Read(r) \/ Take(r) \/ Look(r) \/ Write(r)
      PROVE  AttemptInv'
  <2>1. PICK n \in ReqRec : Becomes(r, n) /\ n.id = req[r].id
    BY <1>5, StepTyped
  <2>2. attempt' = attempt
    BY <1>5 DEF Serve, Settle, SettleAnswers, Judge, Read, Take, Look, Write, inst
  <2>3. n.pc = req'[r].pc
    BY <1>1, <2>1 DEF Becomes
  <2>4. CASE Serve(r) \/ Settle(r) \/ SettleAnswers(r) \/ Judge(r)
    <3>1. req[r].pc \in Paying
      BY <2>4 DEF Serve, Settle, SettleAnswers, Judge, At, Paying
    <3> QED BY <1>3, <2>1, <2>2, <3>1
  <2>5. CASE Read(r) \/ Take(r) \/ Look(r) \/ Write(r)
    <3>1. req'[r].pc \notin Paying
      <4>1. CASE Look(r)
        BY <1>1, <4>1 DEF Look, Ends, Paying, ReqRec
      <4>2. CASE Read(r) \/ Take(r) \/ Write(r)
        BY <1>1, <4>2 DEF Read, Take, Write, Refused, Goto, Paying, ReqRec
      <4> QED BY <2>5, <4>1, <4>2
    <3> QED BY <1>3, <2>1, <2>2, <2>3, <3>1
  <2> QED BY <1>5, <2>4, <2>5
<1>6. ASSUME NEW r \in Reqs, Reply(r) \/ Dies(r)
      PROVE  AttemptInv'
  <2>1. /\ \A s \in Reqs : s # r => req'[s] = req[s]
        /\ req'[r].pc = "idle"
    BY <1>1, <1>6 DEF Reply, Dies, Idle
  <2>2. CASE Reply(r)
    <3>1. \A s \in Reqs : s # r => attempt'[InstOf[s]] = attempt[InstOf[s]]
      BY <1>1, <2>2 DEF Reply, OwnInstance
    <3> QED BY <1>2, <2>1, <3>1 DEF Paying
  <2>3. CASE Dies(r)
    BY <1>1, <2>1, <2>3 DEF Dies, AttemptInv, Known, Paying
  <2> QED BY <1>6, <2>2, <2>3
<1>7. ASSUME NEW r \in Reqs, NEW q \in Rqs, Open(r, q)
      PROVE  AttemptInv'
  <2>1. /\ \A s \in Reqs : s # r => req'[s] = req[s]
        /\ req'[r].pc = "claim" /\ attempt' = attempt
    BY <1>1, <1>7 DEF Open, Idle, inst
  <2> QED BY <1>2, <2>1 DEF Paying
<1>8. ASSUME NEW i \in Insts, Recycled(i)
      PROVE  AttemptInv'
  <2> SUFFICES ASSUME NEW r \in Reqs, req'[r].pc \in Paying
               PROVE  Known(r)'
    BY DEF AttemptInv
  <2>1. req[r].pc \in Paying /\ InstOf[r] # i
    BY <1>8 DEF Recycled, At, Paying
  <2> QED BY <1>1, <1>8, <2>1 DEF Recycled, AttemptInv, Known
<1>9. CASE Land \/ Fail \/ Tick
  BY <1>9 DEF Land, Fail, Takes, Tick, inst, AttemptInv, Known
<1> QED BY <1>4, <1>5, <1>6, <1>7, <1>8, <1>9 DEF Next

LEMMA AttemptThere == ASSUME OwnInstance PROVE Spec => []AttemptInv
<1>1. Init => AttemptInv
  BY DEF Init, Idle, AttemptInv, Paying
<1>2. TypeInv /\ TypeInv' /\ AttemptInv /\ [Next]_vars => AttemptInv'
  <2>1. UNCHANGED vars /\ AttemptInv => AttemptInv'
    BY DEF vars, inst, AttemptInv, Known
  <2> QED BY <2>1, AttemptKept
<1> QED BY <1>1, <1>2, Typing, PTL DEF Spec

----------------------------------------------------------------------------
(* The invariant.  At most one request holds the payment, the slot is what it *)
(* last wrote, and once the payment is out of its first claim's hands nobody  *)
(* can claim or submit it again.                                              *)

\* A request that may still give the payment back, as if it had never come.
Unseals(q) ==
  \/ q.pc \in {"serve", "settle"}
  \/ q.pc = "write" /\ q.todo.op = "casdel"
Sealed == slot # Free /\ \A r \in Reqs : ~Unseals(req[r])
NonePaid == \A r \in Reqs : ~req[r].paid

\* What a value in the slot, or on its way there, says of the payment.
Verdict(v) ==
  /\ v.st = "settled" => led = "paid"
  /\ v.st = "settle_failed" => led = "failed" \/ paidFor = {}
  /\ v.st \in {"in_flight", "settle_unconfirmed", "redeeming"} /\ v.fs = 1
       => led # "none" /\ paidFor = {}

SlotInv ==
  /\ paidFor \subseteq {slot.rq}
  /\ Verdict(slot)
  /\ slot.st = "free" => slot = Free
  /\ slot.st \notin {"free", "in_flight"} => Sealed
  /\ slot.st = "settled" => marked \/ paidFor = {}
LocalInv ==
  \A i \in Insts : /\ local[i] = "settled" => led = "paid"
                   /\ local[i] = "settle_failed"
                        => Sealed /\ (led = "failed" \/ paidFor = {})

\* What each request relies on, by how far it is.
Begins(q) ==
  /\ q.pc # "idle" => q.at <= now /\ now - q.at <= MaxReq
  /\ q.pc = "claim" /\ q.start = 1 => led # "none"
TakesOver(q) ==
  q.pc = "take" =>
    /\ q.start >= q.at /\ q.val.rq = q.rq
    /\ q.val.st \in {"in_flight", "settle_unconfirmed", "redeeming"}
    /\ q.val.st \in {"in_flight", "redeeming"}
         => q.val.lease # None /\ now - q.val.lease >= Lease
Holding(q) ==
  q.pc \in Owning =>
    /\ slot = q.val /\ q.val.own = q.id /\ q.val.rq = q.rq
    /\ q.val.lease \in Time /\ q.val.lease >= q.at
    /\ q.val.st \in {"in_flight", "redeeming"}
    /\ q.pc = "look" => q.val.st = "redeeming"
    /\ q.pc \in {"serve", "settle", "asked", "judge"} => q.val.st = "in_flight"
Settling(q) ==
  /\ q.pc \in {"serve", "settle"} => paidFor = {}
  /\ q.pc \in {"settle", "asked", "judge"} => q.val.fs # 1
  /\ q.pc = "asked" /\ q.ask = "refused" => paidFor = {}
  /\ q.pc = "asked" => q.noted
  /\ q.pc = "judge" => q.settle # "none"
  /\ q.pc = "judge" /\ q.settle = "failed" => paidFor = {}
  /\ q.pc = "judge" /\ q.settle = "success" => led = "paid"
Writing(q) ==
  q.pc = "write" =>
    /\ q.todo.op = "casdel" =>
         /\ paidFor = {} /\ ~q.paid /\ q.todo.next = Free
         /\ q.val.st = "in_flight"
    /\ q.todo.op # "casdel" =>
         /\ q.todo.op = "cas" /\ q.todo.next.rq = q.rq /\ Verdict(q.todo.next)
         /\ q.todo.next.st \in Finals \cup {"settle_unconfirmed"}
         /\ q.paid => q.todo.next.st = "settled"
         /\ q.todo.next.st = "settled" => q.paid \/ paidFor = {}
Answers(q) ==
  /\ q.paid => q.pc \in {"write", "reply"} /\ led = "paid" /\ slot.rq = q.rq
  /\ q.told => q.pc \in {"write", "reply"} /\ led = "failed"
Fits(q) == /\ Begins(q) /\ TakesOver(q) /\ Holding(q) /\ Settling(q)
           /\ Writing(q) /\ Answers(q)

RequestsInv == \A r \in Reqs : Fits(req[r])
UnpaidInv == \A r \in Reqs : Unseals(req[r]) => NonePaid
ToldInv == told => led = "failed"
IInv == /\ TypeInv /\ SlotInv /\ LocalInv /\ RequestsInv /\ UnpaidInv
        /\ ToldInv /\ UniqueIds

\* What a request may rely on while it takes no step.
LEMMA OthersKeep ==
  ASSUME IInv, TypeInv', NEW s \in Reqs, req'[s] = req[s],
         led' = led \/ led = "none",
         \/ now' = now
         \/ now' = now + 1 /\ (req[s].pc # "idle" => now - req[s].at < MaxReq),
         req[s].pc \notin Owning \/ UNCHANGED <<slot, paidFor>>,
         slot'.rq = slot.rq \/ ~req[s].paid
  PROVE  Fits(req[s])'
<1> DEFINE q == req[s]
<1>1. /\ q \in ReqRec /\ req'[s] = q /\ Fits(q) /\ led \in {"none", "paid", "failed"}
      /\ now \in Nat /\ q.at \in Nat /\ q.start \in Nat /\ now' \in Nat
      /\ MaxReq \in Nat /\ Lease \in Nat
      /\ q.val.lease # None => q.val.lease \in Nat
  BY SolanaAssumption, StoreAssumption
  DEF IInv, RequestsInv, TypeInv, ReqRec, Time, Values
<1>2. (q.pc # "idle" => now - q.at < MaxReq) \/ now' = now
  OBVIOUS
<1>3. led' = led \/ led = "none"
  OBVIOUS
<1>4. q.pc \notin Owning \/ UNCHANGED <<slot, paidFor>>
  OBVIOUS
<1>5. slot'.rq = slot.rq \/ ~q.paid
  OBVIOUS
<1>6. now' = now \/ now' = now + 1
  OBVIOUS
<1> HIDE DEF q
<1>7. Begins(req[s])'
  BY <1>1, <1>2, <1>3, <1>6 DEF Fits, Begins
<1>8. TakesOver(req[s])'
  BY <1>1, <1>6 DEF Fits, TakesOver
<1>9. Holding(req[s])'
  BY <1>1, <1>4 DEF Fits, Holding
<1>10. Settling(req[s])'
  BY <1>1, <1>3, <1>4 DEF Fits, Settling, Owning
<1>11. Writing(req[s])'
  BY <1>1, <1>3, <1>4 DEF Fits, Writing, Owning, Verdict
<1>12. Answers(req[s])'
  BY <1>1, <1>3, <1>5 DEF Fits, Answers
<1> QED BY <1>7, <1>8, <1>9, <1>10, <1>11, <1>12 DEF Fits

LEMMA HoldsStill == IInv => HoldInv
<1> SUFFICES ASSUME IInv, NEW r \in Reqs PROVE Keeps(req[r])
  BY DEF IInv, HoldInv
<1>1. Fits(req[r])
  BY DEF IInv, RequestsInv
<1> QED BY <1>1 DEF Fits, Begins, TakesOver, Holding, Writing, Answers, Keeps

\* The slot says who holds the payment.
LEMMA HeldByOne ==
  ASSUME IInv, NEW r \in Reqs, NEW s \in Reqs,
         req[r].pc \in Owning, req[s].pc \in Owning
  PROVE  r = s
  BY HoldsStill, OneOwner

LEMMA UnsealsHolds ==
  ASSUME IInv, NEW r \in Reqs, Unseals(req[r])
  PROVE  req[r].pc \in Owning /\ slot.st = "in_flight" /\ ~Sealed /\ paidFor = {}
  BY DEF IInv, RequestsInv, Unseals, Fits, Holding, Settling, Writing, Owning, Sealed

\* A free slot: nobody holds it, and nobody was charged, paid or refused.
LEMMA FreeMeans ==
  ASSUME IInv, slot.st = "free"
  PROVE  /\ slot = Free /\ paidFor = {} /\ NonePaid
         /\ \A r \in Reqs : req[r].pc \notin Owning
<1>1. slot = Free /\ slot.rq = None
  BY DEF IInv, SlotInv, Free, Bare
<1>2. None \notin Rqs
  BY StoreAssumption
<1>3. paidFor = {}
  BY <1>1, <1>2 DEF IInv, SlotInv, TypeInv
<1>4. NonePaid
  BY <1>1, <1>2 DEF NonePaid, IInv, RequestsInv, Fits, Answers, TypeInv, ReqRec
<1>5. \A r \in Reqs : req[r].pc \notin Owning
  BY DEF IInv, RequestsInv, Fits, Holding
<1> QED BY <1>1, <1>3, <1>4, <1>5

LEMMA Remembering ==
  ASSUME IInv, NEW r \in Reqs, NEW v, Sets(r, v) \/ Remembers(r, v), led' = led,
         paidFor' = paidFor, Sealed => Sealed', Verdict(v),
         v.st = "settle_failed" => Sealed'
  PROVE  LocalInv'
  BY SolanaAssumption DEF IInv, TypeInv, LocalInv, Sets, Remembers, Verdict, Finals

LEMMA NotRemembering ==
  ASSUME IInv, \A i \in Insts : local'[i] \in {local[i], "none"},
         led' = led \/ led = "none", paidFor' = paidFor,
         Sealed => Sealed'
  PROVE  LocalInv'
<1> SUFFICES ASSUME NEW i \in Insts
             PROVE  /\ local'[i] = "settled" => led' = "paid"
                    /\ local'[i] = "settle_failed"
                         => Sealed' /\ (led' = "failed" \/ paidFor' = {})
  BY DEF LocalInv
<1>1. local'[i] = local[i] \/ local'[i] = "none"
  OBVIOUS
<1> QED BY <1>1 DEF IInv, LocalInv

\* One request's step that leaves the slot, the payment and the clock alone.
LEMMA QuietStep ==
  ASSUME IInv, TypeInv', NEW r \in Reqs, NEW n \in ReqRec, Becomes(r, n),
         UNCHANGED <<slot, paidFor, led, now>>, marked => marked',
         Fits(n), Unseals(n) => Unseals(req[r]),
         n.paid => req[r].paid \/ req[r].pc \in Owning,
         \/ n.pc = "idle"
         \/ n.id = req[r].id /\ req[r].pc # "idle"
         \/ \A s \in Reqs : n.id # req[s].id
  PROVE  /\ SlotInv' /\ RequestsInv' /\ UnpaidInv' /\ UniqueIds'
         /\ (Sealed => Sealed')
<1>1. /\ req'[r] = n /\ \A s \in Reqs : s # r => req'[s] = req[s]
  BY DEF Becomes, IInv, TypeInv
<1>2. Fits(req[r])'
  BY <1>1 DEF Fits, Begins, TakesOver, Holding, Settling, Writing, Answers, Verdict
<1>3. RequestsInv'
  BY <1>1, <1>2, OthersKeep DEF RequestsInv
<1>4. Sealed => Sealed'
  BY <1>1 DEF Sealed, Unseals
<1>5. SlotInv'
  BY <1>4 DEF IInv, SlotInv, Verdict
<1>6. UnpaidInv'
  <2> SUFFICES ASSUME NEW s \in Reqs, Unseals(req[s])', NEW t \in Reqs
               PROVE  ~req'[t].paid
    BY DEF UnpaidInv, NonePaid
  <2>1. Unseals(req[s]) /\ req[s].pc \in Owning
    BY <1>1, UnsealsHolds DEF Unseals
  <2>2. NonePaid
    BY <2>1 DEF IInv, UnpaidInv
  <2>3. CASE t # r
    BY <2>2, <2>3, <1>1 DEF NonePaid
  <2>4. CASE t = r /\ n.paid
    <3>1. req[r].pc \in Owning
      BY <2>2, <2>4 DEF NonePaid
    <3>2. s = r
      BY <3>1, <2>1, HeldByOne
    <3> QED BY <3>2, <1>1, <2>4 DEF Unseals, Fits, Answers, Writing
  <2> QED BY <2>3, <2>4, <1>1
<1>7. UniqueIds'
  BY <1>1 DEF IInv, UniqueIds
<1> QED BY <1>3, <1>4, <1>5, <1>6, <1>7

\* A holder's last word, and what may be said.
LEMMA LastWord ==
  ASSUME IInv, NEW r \in Reqs, req[r].pc \in {"judge", "look"},
         NEW v \in Values, NEW a \in {"200", "402", "no"},
         v.rq = req[r].rq, Verdict(v), v.st \in Finals \cup {"settle_unconfirmed"},
         a = "200" => v.st = "settled",
         v.st = "settled" => a = "200" \/ paidFor = {},
         a = "402" => led = "failed" \/ paidFor = {}
  PROVE  /\ Fits(Ended(req[r], "cas", v, a))
         /\ ~Unseals(Ended(req[r], "cas", v, a))
<1> DEFINE q == req[r]
           n == Ended(q, "cas", v, a)
<1>1. q \in ReqRec /\ Fits(q) /\ q.pc \in Owning
  BY DEF IInv, TypeInv, RequestsInv, Owning
<1>2. /\ n.pc = "write" /\ n.todo.op = "cas" /\ n.todo.next = v
      /\ n.paid = (a = "200") /\ n.told = (a = "402" /\ paidFor # {})
      /\ n.at = q.at /\ n.val = q.val /\ n.rq = q.rq /\ n.id = q.id
  BY <1>1 DEF Ended, ReqRec
<1>3. slot.rq = q.rq /\ q.pc # "idle" /\ v.st # "free"
  BY <1>1 DEF Fits, Holding, Finals, Owning
<1> HIDE DEF q, n
<1>4. Begins(n) /\ TakesOver(n) /\ Holding(n) /\ Settling(n)
  BY <1>1, <1>2, <1>3 DEF Fits, Begins, TakesOver, Holding, Settling, Owning
<1>5. Writing(n) /\ Answers(n)
  <2>1. v.rq = n.rq
    BY <1>2 DEF q
  <2>2. Writing(n)
    BY <1>2, <2>1 DEF Writing
  <2>3. Answers(n)
    BY <1>2, <1>3 DEF Answers, Verdict
  <2> QED BY <2>2, <2>3
<1>6. Fits(n) /\ ~Unseals(n)
  BY <1>2, <1>4, <1>5 DEF Fits, Unseals
<1> QED BY <1>6 DEF n, q

LEMMA EndedKeeps ==
  ASSUME IInv, TypeInv', NEW r \in Reqs, req[r].pc \in {"judge", "look"},
         NEW v \in Values, NEW a \in {"200", "402", "no"},
         v.rq = req[r].rq, Verdict(v), v.st \in Finals \cup {"settle_unconfirmed"},
         a = "200" => v.st = "settled",
         v.st = "settled" => a = "200" \/ paidFor = {},
         a = "402" => led = "failed" \/ paidFor = {},
         Ends(r, "cas", v, a), UNCHANGED <<slot, paidFor, led, now, told, marked>>,
         local' = local \/ Sets(r, v)
  PROVE  IInv'
<1> DEFINE n == Ended(req[r], "cas", v, a)
<1>1. req[r] \in ReqRec /\ n \in ReqRec /\ Becomes(r, n) /\ n.id = req[r].id
      /\ req[r].pc \in Owning
  <2>1. /\ req \in [Reqs -> ReqRec] /\ req[r] \in ReqRec
        /\ req[r].pc \in Owning
    BY DEF IInv, TypeInv, Owning
  <2>2. n \in ReqRec
    BY <2>1, RecordsTyped
  <2>3. n.id = req[r].id
    BY <2>1 DEF Ended, ReqRec
  <2>4. Becomes(r, n)
    BY <2>1, Moves
  <2> QED BY <2>1, <2>2, <2>3, <2>4
<1>2. Fits(n) /\ ~Unseals(n)
  BY LastWord
<1> HIDE DEF n
<1>3. /\ SlotInv' /\ RequestsInv' /\ UnpaidInv' /\ UniqueIds'
      /\ (Sealed => Sealed')
  BY <1>1, <1>2, QuietStep DEF Owning
<1>4. Sealed'
  <2>1. /\ req'[r] = n /\ \A s \in Reqs : s # r => req'[s] = req[s]
    BY <1>1 DEF Becomes, IInv, TypeInv
  <2>2. \A s \in Reqs : s # r => ~Unseals(req[s])
    BY <1>1, UnsealsHolds, HeldByOne
  <2>3. slot.st # "free" /\ Free.st = "free"
    BY <1>1 DEF IInv, RequestsInv, Fits, Holding, Free, Bare
  <2> QED BY <2>1, <2>2, <2>3, <1>2 DEF Sealed, Unseals
<1>5. LocalInv'
  <2>1. CASE local' = local
    BY <2>1, <1>4, NotRemembering
  <2>2. CASE Sets(r, v)
    BY <2>2, <1>4, Remembering
  <2> QED BY <2>1, <2>2
<1> QED BY <1>3, <1>5 DEF IInv, ToldInv

LEMMA JudgeKeeps ==
  ASSUME IInv, TypeInv', NEW r \in Reqs, Judge(r), Known(r)
  PROVE  IInv'
<1>1. /\ req[r].pc = "judge" /\ req[r] \in ReqRec /\ Fits(req[r])
      /\ req[r].settle # "none"
      /\ Settled(r) \in Values /\ Failed(r) \in Values /\ Undelivered(r) \in Values
  BY ValueTypes DEF Judge, At, IInv, TypeInv, RequestsInv, Fits, Settling
<1>2. /\ slot = Mine(r) /\ Mine(r).rq = req[r].rq /\ Mine(r).fs # 1
      /\ Mine(r).st = "in_flight"
  BY <1>1 DEF Fits, Holding, Settling, Owning, Mine
<1>3. /\ Settled(r).st = "settled" /\ Settled(r).rq = req[r].rq
      /\ Failed(r).st = "settle_failed" /\ Failed(r).rq = req[r].rq
      /\ Undelivered(r).st = "settle_unconfirmed" /\ Undelivered(r).rq = req[r].rq
      /\ Undelivered(r).fs = Mine(r).fs
  BY <1>2 DEF Settled, Failed, Undelivered, Mark, Bare
<1>4. UNCHANGED <<slot, paidFor, led, now, told, marked>>
  BY DEF Judge, history
<1>5. ASSUME NEW v \in Values, NEW a \in {"200", "402", "no"}, Says(r, v, a),
             v.rq = req[r].rq, Verdict(v),
             v.st \in Finals \cup {"settle_unconfirmed"},
             a = "200" => v.st = "settled",
             v.st = "settled" => a = "200" \/ paidFor = {},
             a = "402" => led = "failed" \/ paidFor = {}
      PROVE  IInv'
  BY <1>1, <1>4, <1>5, EndedKeeps DEF Says
<1>6. ASSUME Says(r, Undelivered(r), "no") PROVE IInv'
  <2>1. Verdict(Undelivered(r))
    BY <1>2, <1>3 DEF Verdict
  <2> QED BY <1>1, <1>3, <1>6, <2>1, <1>5
<1>7. ASSUME Says(r, Settled(r), "200"), led = "paid" PROVE IInv'
  <2>1. Verdict(Settled(r))
    BY <1>3, <1>7 DEF Verdict
  <2> QED BY <1>1, <1>3, <1>7, <2>1, <1>5 DEF Finals
<1>8. ASSUME Says(r, Failed(r), "402"), led = "failed" \/ paidFor = {}
      PROVE  IInv'
  <2>1. Verdict(Failed(r))
    BY <1>3, <1>8 DEF Verdict
  <2> QED BY <1>1, <1>3, <1>8, <2>1, <1>5 DEF Finals
<1>9. CASE req[r].settle = "failed"
  <2>1. paidFor = {} /\ Says(r, Failed(r), "402")
    BY <1>1, <1>9 DEF Fits, Settling, Judge
  <2> QED BY <2>1, <1>8
<1>10. CASE req[r].settle = "duplicate"
  BY <1>10, <1>6 DEF Judge
<1>11. ASSUME NEW sees \in Finds(Mine(r).fs), Confirm(r, sees)
       PROVE  IInv'
  <2>1. /\ sees # "replay"
        /\ sees = "paid" => led = "paid"
        /\ sees = "failed" => led = "failed"
    BY <1>2 DEF Finds
  <2>2. req[r].settle = "success" => led = "paid"
    BY <1>1 DEF Fits, Settling
  <2> QED BY <1>11, <2>1, <2>2, <1>6, <1>7, <1>8 DEF Confirm
<1> QED BY <1>1, <1>9, <1>10, <1>11 DEF Judge

LEMMA LookKeeps ==
  ASSUME IInv, TypeInv', NEW r \in Reqs, Look(r)
  PROVE  IInv'
<1> DEFINE Served == [Settled(r) EXCEPT !.own = req[r].id]
<1>1. /\ req[r].pc = "look" /\ req[r] \in ReqRec /\ Fits(req[r])
      /\ Settled(r) \in Values /\ Failed(r) \in Values /\ Undelivered(r) \in Values
      /\ Served \in Values
  BY ValueTypes DEF Look, At, IInv, TypeInv, RequestsInv
<1>2. /\ slot = Mine(r) /\ Mine(r).rq = req[r].rq /\ Mine(r).st = "redeeming"
      /\ Mine(r).fs = 1 => led # "none" /\ paidFor = {}
  BY <1>1 DEF Fits, Holding, Owning, Mine, IInv, SlotInv, Verdict
<1>3. /\ Settled(r).st = "settled" /\ Settled(r).rq = req[r].rq
      /\ Failed(r).st = "settle_failed" /\ Failed(r).rq = req[r].rq
      /\ Undelivered(r).st = "settle_unconfirmed" /\ Undelivered(r).rq = req[r].rq
      /\ Undelivered(r).fs = Mine(r).fs
      /\ Served.st = "settled" /\ Served.rq = req[r].rq
  BY <1>2 DEF Settled, Failed, Undelivered, Mark, Bare
<1>4. UNCHANGED <<slot, paidFor, led, now, told, marked>> /\ local' = local
  BY DEF Look, history, inst
<1>5. ASSUME NEW v \in Values, NEW a \in {"200", "402", "no"},
             Ends(r, "cas", v, a), v.rq = req[r].rq, Verdict(v),
             v.st \in Finals \cup {"settle_unconfirmed"},
             a = "200" => v.st = "settled",
             v.st = "settled" => a = "200" \/ paidFor = {},
             a = "402" => led = "failed" \/ paidFor = {}
      PROVE  IInv'
  BY <1>1, <1>4, <1>5, EndedKeeps
<1>6. ASSUME Ends(r, "cas", Undelivered(r), "no") PROVE IInv'
  <2>1. Verdict(Undelivered(r))
    BY <1>2, <1>3 DEF Verdict
  <2> QED BY <1>1, <1>3, <1>6, <2>1, <1>5
<1>7. ASSUME Ends(r, "cas", Served, "200"), led = "paid" PROVE IInv'
  <2>1. Verdict(Served)
    BY <1>3, <1>7 DEF Verdict
  <2> HIDE DEF Served
  <2> QED BY <1>1, <1>3, <1>7, <2>1, <1>5 DEF Finals
<1>8. ASSUME Ends(r, "cas", Failed(r), "402"), led = "failed" PROVE IInv'
  <2>1. Verdict(Failed(r))
    BY <1>3, <1>8 DEF Verdict
  <2> QED BY <1>1, <1>3, <1>8, <2>1, <1>5 DEF Finals
<1>9. ASSUME Ends(r, "cas", Settled(r), "no"), led = "paid", paidFor = {}
      PROVE  IInv'
  <2>1. Verdict(Settled(r))
    BY <1>3, <1>9 DEF Verdict
  <2> QED BY <1>1, <1>3, <1>9, <2>1, <1>5 DEF Finals
<1>10. PICK sees \in Finds(Mine(r).fs) :
         CASE sees = "paid" -> \/ Ends(r, "cas", Served, "200")
                               \/ Ends(r, "cas", Undelivered(r), "no")
           [] sees = "failed" -> Ends(r, "cas", Failed(r), "402")
           [] sees = "replay" -> Ends(r, "cas", Settled(r), "no")
           [] OTHER -> Ends(r, "cas", Undelivered(r), "no")
  BY DEF Look
<1>11. /\ sees = "paid" => led = "paid"
       /\ sees = "failed" => led = "failed"
       /\ sees = "replay" => led = "paid" /\ paidFor = {}
  BY <1>2 DEF Finds
<1> HIDE DEF Served
<1> QED BY <1>6, <1>7, <1>8, <1>9, <1>10, <1>11

\* A request that gives up the payment, or goes away, or looks once more.
LEMMA StandsBack ==
  ASSUME NEW q \in ReqRec, Fits(q), NEW l \in {"reply", "read"},
         q.paid => l = "reply", q.told => l = "reply", q.pc # "idle"
  PROVE  Fits(MovedTo(q, l)) /\ ~Unseals(MovedTo(q, l))
<1> DEFINE n == MovedTo(q, l)
<1>1. /\ n.pc = l /\ n.paid = q.paid /\ n.told = q.told /\ n.at = q.at
      /\ n.rq = q.rq
  BY DEF MovedTo, ReqRec
<1> HIDE DEF n
<1>2. Fits(n) /\ ~Unseals(n)
  BY <1>1 DEF Fits, Begins, TakesOver, Holding, Settling, Writing, Answers,
              Owning, Unseals
<1> QED BY <1>2 DEF n

LEMMA GivesUp ==
  ASSUME IInv, TypeInv', NEW r \in Reqs, NEW l \in {"reply", "read"},
         req[r].pc \in {"claim", "read", "take"}, req' = Goto(r, l),
         UNCHANGED <<slot, history, led, now>>,
         local' = local \/ Remembers(r, slot)
  PROVE  IInv'
<1> DEFINE n == MovedTo(req[r], l)
<1>1. /\ req \in [Reqs -> ReqRec] /\ req[r] \in ReqRec /\ Fits(req[r])
      /\ ~req[r].paid /\ ~req[r].told /\ req[r].pc # "idle"
  BY DEF IInv, TypeInv, RequestsInv, Fits, Answers
<1>2. n \in ReqRec /\ Becomes(r, n)
  BY <1>1, Moves, RecordsTyped DEF Steps
<1>3. n.id = req[r].id /\ ~n.paid
  BY <1>1 DEF MovedTo, ReqRec
<1>4. Fits(n) /\ ~Unseals(n)
  BY <1>1, StandsBack
<1> HIDE DEF n
<1>5. /\ SlotInv' /\ RequestsInv' /\ UnpaidInv' /\ UniqueIds'
      /\ (Sealed => Sealed')
  BY <1>1, <1>2, <1>3, <1>4, QuietStep DEF history
<1>6. slot.st = "settle_failed" => Sealed'
  BY <1>5 DEF IInv, SlotInv
<1>7. LocalInv'
  <2>1. CASE local' = local
    BY <2>1, <1>5, NotRemembering DEF history
  <2>2. CASE Remembers(r, slot)
    BY <2>2, <1>5, <1>6, Remembering DEF IInv, SlotInv, history
  <2> QED BY <2>1, <2>2
<1> QED BY <1>5, <1>7 DEF IInv, ToldInv, history

LEMMA ServeKeeps ==
  ASSUME IInv, TypeInv', NEW r \in Reqs, Serve(r), Known(r)
  PROVE  IInv'
<1>1. /\ req \in [Reqs -> ReqRec] /\ req[r] \in ReqRec /\ Fits(req[r])
      /\ req[r].pc = "serve" /\ Free \in Values
  BY ValueTypes DEF Serve, At, IInv, TypeInv, RequestsInv
<1>2. /\ slot = req[r].val /\ slot.st = "in_flight" /\ paidFor = {} /\ ~req[r].paid
      /\ ~req[r].told /\ slot.fs = 1 => led # "none"
  BY <1>1 DEF Fits, Holding, Settling, Owning, Answers, IInv, SlotInv, Verdict
<1>3. PICK n \in ReqRec : /\ Becomes(r, n) /\ Fits(n) /\ n.id = req[r].id
                          /\ ~n.paid
  <2>1. ASSUME NEW a \in {"402", "no"}, Ends(r, "casdel", Free, a)
        PROVE  \E n \in ReqRec : /\ Becomes(r, n) /\ Fits(n) /\ n.id = req[r].id
                                 /\ ~n.paid
    <3> DEFINE n == Ended(req[r], "casdel", Free, a)
    <3>1. n \in ReqRec /\ Becomes(r, n)
      BY <1>1, <2>1, Moves, RecordsTyped
    <3>2. /\ n.pc = "write" /\ n.todo.op = "casdel" /\ n.todo.next = Free
          /\ n.paid = FALSE /\ n.told = FALSE /\ n.at = req[r].at
          /\ n.val = req[r].val /\ n.rq = req[r].rq /\ n.id = req[r].id
      BY <1>1, <1>2 DEF Ended, ReqRec
    <3>3. Fits(n)
      <4> HIDE DEF n
      <4> QED BY <1>1, <1>2, <3>2 DEF Fits, Begins, TakesOver, Holding, Settling,
                 Writing, Answers, Owning
    <3> QED BY <3>1, <3>2, <3>3
  <2>2. ASSUME req' = Goto(r, "settle"), led = "none"
        PROVE  \E n \in ReqRec : /\ Becomes(r, n) /\ Fits(n) /\ n.id = req[r].id
                                 /\ ~n.paid
    <3> DEFINE n == MovedTo(req[r], "settle")
    <3>1. n \in ReqRec /\ Becomes(r, n)
      BY <1>1, <2>2, Moves, RecordsTyped DEF Steps
    <3>2. /\ n.pc = "settle" /\ n.paid = req[r].paid
          /\ n.told = req[r].told /\ n.at = req[r].at
          /\ n.val = req[r].val /\ n.rq = req[r].rq /\ n.id = req[r].id
      BY <1>1 DEF MovedTo, ReqRec
    <3>3. Fits(n)
      <4> HIDE DEF n
      <4> QED BY <1>1, <1>2, <2>2, <3>2 DEF Fits, Begins, TakesOver, Holding,
                 Settling, Writing, Answers, Owning
    <3> QED BY <3>1, <3>2, <3>3, <1>2
  <2> QED BY <2>1, <2>2 DEF Serve, Release
<1>4. /\ UNCHANGED <<slot, paidFor, led, now, told, marked>>
      /\ \A i \in Insts : local'[i] \in {local[i], "none"}
  BY SolanaAssumption DEF Serve, Release, Sets, Free, Bare, Finals, history, IInv,
                          TypeInv
<1>5. /\ SlotInv' /\ RequestsInv' /\ UnpaidInv' /\ UniqueIds'
      /\ (Sealed => Sealed')
  <2>1. Unseals(req[r]) /\ req[r].pc # "idle"
    BY <1>1 DEF Unseals
  <2>2. UNCHANGED <<slot, paidFor, led, now>> /\ (marked => marked')
    BY <1>4
  <2> QED BY <2>1, <2>2, <1>3, QuietStep
<1>6. LocalInv'
  BY <1>4, <1>5, NotRemembering
<1> QED BY <1>4, <1>5, <1>6 DEF IInv, ToldInv

LEMMA SettleAnswersKeeps ==
  ASSUME IInv, TypeInv', NEW r \in Reqs, SettleAnswers(r)
  PROVE  IInv'
<1>1. /\ req \in [Reqs -> ReqRec] /\ req[r] \in ReqRec /\ Fits(req[r])
      /\ req[r].pc = "asked"
  BY DEF SettleAnswers, At, IInv, TypeInv, RequestsInv
<1>2. PICK out \in Outcomes(r) :
        req' = [req EXCEPT ![r].pc = "judge", ![r].ask = "none",
                           ![r].settle = IF req[r].noted THEN out ELSE "none",
                           ![r].noted = FALSE]
  BY DEF SettleAnswers
<1> DEFINE n == Heard(req[r], out)
<1>3. /\ out \in {"failed", "unconfirmed", "duplicate", "success"}
      /\ out = "failed" => req[r].ask = "refused"
      /\ out = "success" => led = "paid"
  BY <1>2 DEF Outcomes
<1>4. n \in ReqRec /\ Becomes(r, n)
  BY <1>1, <1>2, <1>3, Moves, RecordsTyped
<1>5. /\ n.pc = "judge" /\ n.settle = out /\ n.paid = req[r].paid
      /\ n.told = req[r].told /\ n.at = req[r].at
      /\ n.val = req[r].val /\ n.rq = req[r].rq /\ n.id = req[r].id
  BY <1>1 DEF Heard, ReqRec, Fits, Settling
<1> HIDE DEF n
<1>6. Fits(n) /\ ~Unseals(n) /\ ~n.paid
  BY <1>1, <1>3, <1>5 DEF Fits, Begins, TakesOver, Holding, Settling, Writing,
                          Answers, Owning, Unseals
<1>7. UNCHANGED <<slot, paidFor, led, now, told, marked>> /\ local' = local
  BY DEF SettleAnswers, history, inst
<1>8. /\ SlotInv' /\ RequestsInv' /\ UnpaidInv' /\ UniqueIds'
      /\ (Sealed => Sealed')
  BY <1>1, <1>4, <1>5, <1>6, <1>7, QuietStep
<1>9. LocalInv'
  BY <1>7, <1>8, NotRemembering
<1> QED BY <1>7, <1>8, <1>9 DEF IInv, ToldInv

LEMMA ReadKeeps ==
  ASSUME IInv, TypeInv', NEW r \in Reqs, Read(r)
  PROVE  IInv'
<1>1. /\ req \in [Reqs -> ReqRec] /\ req[r] \in ReqRec /\ Fits(req[r])
      /\ req[r].pc = "read" /\ slot \in Values /\ now \in Time
  BY DEF Read, At, IInv, TypeInv, RequestsInv
<1>2. UNCHANGED <<slot, history, led, now>>
  BY DEF Read, Throws
<1>3. CASE req' = Refused(r) /\ (local' = local \/ Remembers(r, slot))
  BY <1>1, <1>2, <1>3, GivesUp DEF Refused
<1>4. ASSUME Redeems(r, slot), Remembers(r, slot),
             req' = [req EXCEPT ![r].pc = "take", ![r].val = slot,
                                ![r].start = now]
      PROVE  IInv'
  <2> DEFINE n == HasRead(req[r], "take", slot, now)
  <2>1. n \in ReqRec /\ Becomes(r, n)
    <3>1. n \in ReqRec
      BY <1>1, RecordsTyped DEF Steps
    <3> QED BY <3>1, <1>1, <1>4, Moves
  <2>2. /\ n.pc = "take" /\ n.val = slot /\ n.start = now
        /\ n.paid = req[r].paid /\ n.told = req[r].told /\ n.at = req[r].at
        /\ n.rq = req[r].rq /\ n.id = req[r].id
    BY <1>1 DEF HasRead, ReqRec
  <2>3. now \in Int /\ now <= now
    BY <1>1 DEF Time
  <2> HIDE DEF n
  <2>4. Fits(n) /\ ~Unseals(n) /\ ~n.paid
    BY <1>1, <1>4, <2>2, <2>3
    DEF Fits, Begins, TakesOver, Holding, Settling, Writing, Answers, Owning,
        Unseals, Redeems, LeaseOver, Matches
  <2>5. /\ SlotInv' /\ RequestsInv' /\ UnpaidInv' /\ UniqueIds'
        /\ (Sealed => Sealed')
    BY <1>1, <1>2, <2>1, <2>2, <2>4, QuietStep DEF history
  <2>6. LocalInv'
    BY <2>5, <1>2, <1>4, Remembering DEF IInv, SlotInv, history
  <2> QED BY <2>5, <2>6, <1>2 DEF IInv, ToldInv, history
<1> QED BY <1>3, <1>4 DEF Read

LEMMA LeaveKeeps ==
  ASSUME IInv, TypeInv', NEW r \in Reqs, Reply(r) \/ Dies(r)
  PROVE  IInv'
<1>1. /\ req \in [Reqs -> ReqRec] /\ req[r] \in ReqRec /\ Fits(req[r])
      /\ Idle \in ReqRec /\ Becomes(r, Idle)
      /\ Idle.pc = "idle" /\ Idle.paid = FALSE /\ Idle.told = FALSE
  BY ValueTypes DEF Reply, Dies, Becomes, Idle, IInv, TypeInv, RequestsInv
<1>2. Fits(Idle) /\ ~Unseals(Idle)
  BY <1>1 DEF Fits, Begins, TakesOver, Holding, Settling, Writing, Answers,
              Owning, Unseals
<1>3. UNCHANGED <<slot, paidFor, led, now, marked>>
      /\ \A i \in Insts : local'[i] \in {local[i], "none"}
  BY DEF Reply, Dies, history
<1>4. /\ SlotInv' /\ RequestsInv' /\ UnpaidInv' /\ UniqueIds'
      /\ (Sealed => Sealed')
  BY <1>1, <1>2, <1>3, QuietStep
<1>5. LocalInv'
  BY <1>3, <1>4, NotRemembering
<1>6. ToldInv'
  BY <1>1, <1>3 DEF Reply, Dies, history, IInv, ToldInv, Fits, Answers
<1> QED BY <1>4, <1>5, <1>6 DEF IInv

LEMMA OpenKeeps ==
  ASSUME IInv, TypeInv', NEW r \in Reqs, NEW q \in Rqs, Open(r, q)
  PROVE  IInv'
<1>1. PICK s \in StartSlots :
        req' = [req EXCEPT ![r] = [Idle EXCEPT !.pc = "claim", !.id = opened + 1,
                                     !.rq = q, !.at = now, !.start = s]]
  BY DEF Open
<1> DEFINE n == Begun(opened + 1, q, now, s)
<1>2. /\ n.pc = "claim" /\ n.id = opened + 1 /\ n.at = now /\ n.start = s
      /\ n.paid = FALSE /\ n.told = FALSE
  BY DEF Begun, Idle
<1>3. now \in Nat /\ MaxReq \in Nat /\ opened \in Nat
      /\ \A x \in Reqs : req[x].id \in Nat /\ req[x].id <= opened
  BY SolanaAssumption, StoreAssumption DEF IInv, TypeInv, Time, ReqRec
<1>4. Becomes(r, n)
  BY <1>1 DEF Becomes, Begun
<1>5. n \in ReqRec
  <2>1. req'[r] = n
    BY <1>4 DEF Becomes, IInv, TypeInv
  <2> QED BY <2>1 DEF TypeInv
<1> HIDE DEF n
<1>6. Fits(n) /\ ~Unseals(n)
  BY <1>2, <1>3 DEF Fits, Begins, TakesOver, Holding, Settling, Writing, Answers,
                    Owning, Unseals, StartSlots
<1>7. \A x \in Reqs : n.id # req[x].id
  BY <1>2, <1>3
<1>8. UNCHANGED <<slot, paidFor, led, now, told, marked>> /\ local' = local
  BY DEF Open, history, inst
<1>9. /\ SlotInv' /\ RequestsInv' /\ UnpaidInv' /\ UniqueIds'
      /\ (Sealed => Sealed')
  BY <1>2, <1>4, <1>5, <1>6, <1>7, <1>8, QuietStep
<1>10. LocalInv'
  BY <1>8, <1>9, NotRemembering
<1> QED BY <1>8, <1>9, <1>10 DEF IInv, ToldInv

\* A step that changes the slot or the payment, by a request that holds it or
\* takes it over while nobody does.
LEMMA MoverStep ==
  ASSUME IInv, TypeInv', NEW r \in Reqs, NEW n \in ReqRec, Becomes(r, n),
         UNCHANGED <<led, now, told>>,
         \A s \in Reqs : s # r => req[s].pc \notin Owning,
         slot'.rq = slot.rq \/ NonePaid,
         Fits(req[r])', n.id = req[r].id, req[r].pc # "idle"
  PROVE  RequestsInv' /\ UniqueIds' /\ ToldInv'
<1>1. /\ req'[r] = n /\ \A s \in Reqs : s # r => req'[s] = req[s]
  BY DEF Becomes, IInv, TypeInv
<1>2. RequestsInv'
  BY <1>1, OthersKeep DEF RequestsInv, NonePaid
<1>3. UniqueIds'
  BY <1>1 DEF IInv, UniqueIds
<1> QED BY <1>2, <1>3 DEF IInv, ToldInv

LEMMA SettleKeeps ==
  ASSUME IInv, TypeInv', NEW r \in Reqs, Settle(r), Known(r)
  PROVE  IInv'
<1>1. /\ req \in [Reqs -> ReqRec] /\ req[r] \in ReqRec /\ Fits(req[r])
      /\ req[r].pc = "settle"
  BY DEF Settle, At, IInv, TypeInv, RequestsInv
<1>2. PICK ask \in {"sent", "refused"} :
        /\ req' = [req EXCEPT ![r].pc = "asked", ![r].ask = ask,
                              ![r].noted = Known(r)]
        /\ paidFor' = IF ask = "sent" THEN paidFor \cup {req[r].rq} ELSE paidFor
  BY DEF Settle
<1> DEFINE n == Asked(req[r], ask, TRUE)
<1>3. n \in ReqRec /\ Becomes(r, n)
  <2>1. n \in ReqRec
    BY <1>1, RecordsTyped
  <2>2. Known(r) = TRUE
    BY DEF Known
  <2> QED BY <1>1, <1>2, <2>1, <2>2, Moves
<1>4. /\ n.pc = "asked" /\ n.ask = ask /\ n.noted /\ n.paid = req[r].paid
      /\ n.told = req[r].told /\ n.at = req[r].at
      /\ n.val = req[r].val /\ n.rq = req[r].rq /\ n.id = req[r].id
  BY <1>1 DEF Asked, ReqRec
<1>5. /\ slot = req[r].val /\ slot.st = "in_flight" /\ slot.fs # 1 /\ paidFor = {}
      /\ slot.rq = req[r].rq
      /\ ~req[r].paid /\ ~req[r].told /\ Unseals(req[r]) /\ req[r].pc \in Owning
  BY <1>1 DEF Fits, Holding, Settling, Owning, Answers, Unseals
<1>6. UNCHANGED <<slot, led, now, told, marked>> /\ local' = local
  BY DEF Settle, history, inst
<1>7. \A s \in Reqs : s # r => req[s].pc \notin Owning
  BY <1>5, HeldByOne
<1>8. req'[r] = n /\ \A s \in Reqs : s # r => req'[s] = req[s]
  BY <1>3 DEF Becomes, IInv, TypeInv
<1> HIDE DEF n
<1>9. paidFor' \subseteq {req[r].rq} /\ (ask = "refused" => paidFor' = {})
  BY <1>2, <1>5
<1>10. Fits(req[r])'
  BY <1>1, <1>4, <1>5, <1>6, <1>8, <1>9
  DEF Fits, Begins, TakesOver, Holding, Settling, Writing, Answers, Owning
<1>11. RequestsInv' /\ UniqueIds' /\ ToldInv'
  BY <1>1, <1>3, <1>4, <1>6, <1>7, <1>10, MoverStep
<1>12. SlotInv'
  BY <1>5, <1>6, <1>9 DEF SlotInv, Verdict
<1>13. UnpaidInv'
  <2>1. \A s \in Reqs : ~Unseals(req[s])'
    BY <1>4, <1>7, <1>8 DEF Unseals, Owning
  <2> QED BY <2>1 DEF UnpaidInv
<1>14. LocalInv'
  BY <1>5, <1>6, UnsealsHolds DEF IInv, LocalInv
<1> QED BY <1>11, <1>12, <1>13, <1>14 DEF IInv

\* A claim of the free slot, answered or not.
LEMMA ClaimKeeps ==
  ASSUME IInv, TypeInv', NEW r \in Reqs, Claim(r)
  PROVE  IInv'
<1>1. /\ req \in [Reqs -> ReqRec] /\ req[r] \in ReqRec /\ Fits(req[r])
      /\ req[r].pc = "claim" /\ ClaimOf(r) \in Values /\ 0 \in Time
      /\ req[r].pc # "idle"
  BY ValueTypes DEF Claim, At, IInv, TypeInv, RequestsInv
<1>2. UNCHANGED <<opened, led, history, now>>
  BY DEF Claim
<1>3. CASE slot' = slot /\ req' # [req EXCEPT ![r].pc = "serve",
                                     ![r].val = ClaimOf(r), ![r].start = 0]
  <2>1. \E l \in {"reply", "read"} : req' = Goto(r, l)
    BY <1>3 DEF Claim, Refused
  <2>2. local' = local \/ Remembers(r, slot)
    BY <1>3 DEF Claim, inst
  <2> QED BY <1>1, <1>2, <1>3, <2>1, <2>2, GivesUp
<1>4. ASSUME slot = Free, slot' = ClaimOf(r),
             local' = local \/ Sets(r, ClaimOf(r)),
             \/ req' = Goto(r, "reply")
             \/ req' = [req EXCEPT ![r].pc = "serve", ![r].val = ClaimOf(r),
                                   ![r].start = 0]
      PROVE  IInv'
  <2>1. paidFor = {} /\ NonePaid /\ \A s \in Reqs : req[s].pc \notin Owning
    BY <1>4, FreeMeans DEF Free, Bare
  <2>2. /\ ClaimOf(r).st = "in_flight" /\ ClaimOf(r).rq = req[r].rq
        /\ ClaimOf(r).fs = 1 => led # "none"
        /\ ClaimOf(r).own = req[r].id /\ ClaimOf(r).lease = req[r].at
    BY <1>1 DEF ClaimOf, Fits, Begins
  <2>3. PICK n \in ReqRec :
          /\ Becomes(r, n) /\ n.id = req[r].id /\ n.at = req[r].at
          /\ n.paid = req[r].paid /\ n.told = req[r].told /\ n.rq = req[r].rq
          /\ n.pc = "reply" \/ (n.pc = "serve" /\ n.val = ClaimOf(r))
    <3>1. CASE req' = Goto(r, "reply")
      <4> DEFINE n == MovedTo(req[r], "reply")
      <4>1. n \in ReqRec /\ Becomes(r, n)
        <5>1. n \in ReqRec
          BY <1>1, RecordsTyped DEF Steps
        <5> QED BY <5>1, <1>1, <3>1, Moves
      <4>2. /\ n.pc = "reply" /\ n.id = req[r].id /\ n.at = req[r].at
            /\ n.paid = req[r].paid /\ n.told = req[r].told /\ n.rq = req[r].rq
        BY <1>1 DEF MovedTo, ReqRec
      <4> QED BY <4>1, <4>2
    <3>2. CASE req' = [req EXCEPT ![r].pc = "serve", ![r].val = ClaimOf(r),
                                  ![r].start = 0]
      <4> DEFINE n == HasRead(req[r], "serve", ClaimOf(r), 0)
      <4>1. n \in ReqRec
        BY <1>1, RecordsTyped DEF Steps
      <4>2. Becomes(r, n)
        BY <1>1, <3>2, Moves
      <4>3. /\ n.pc = "serve" /\ n.id = req[r].id /\ n.at = req[r].at
            /\ n.paid = req[r].paid /\ n.told = req[r].told /\ n.rq = req[r].rq
            /\ n.val = ClaimOf(r)
        BY <1>1 DEF HasRead, ReqRec
      <4> QED BY <4>1, <4>2, <4>3
    <3> QED BY <1>4, <3>1, <3>2
  <2>4. req'[r] = n /\ \A s \in Reqs : s # r => req'[s] = req[s]
    BY <2>3 DEF Becomes, IInv, TypeInv
  <2>5. ~n.paid /\ ~n.told /\ n.at \in Time /\ n.at <= n.at
    BY <1>1, <2>3, StoreAssumption DEF Fits, Answers, ReqRec, Time
  <2>6. Fits(req[r])'
    BY <1>1, <1>2, <1>4, <2>1, <2>2, <2>3, <2>4, <2>5
    DEF Fits, Begins, TakesOver, Holding, Settling, Writing, Answers, Owning,
        history
  <2>7. RequestsInv' /\ UniqueIds' /\ ToldInv'
    BY <1>1, <1>2, <2>1, <2>3, <2>6, MoverStep DEF history
  <2>8. SlotInv'
    BY <1>2, <1>4, <2>1, <2>2 DEF SlotInv, Verdict, history
  <2>9. UnpaidInv'
    BY <2>1, <2>4, <2>5 DEF UnpaidInv, NonePaid
  <2>10. LocalInv'
    <3>1. \A i \in Insts : local'[i] \in {local[i], "none"}
      BY <1>4, <2>2, SolanaAssumption DEF Sets, Finals, IInv, TypeInv
    <3> QED BY <1>2, <1>4, <3>1, NotRemembering DEF Sealed, history
  <2> QED BY <2>7, <2>8, <2>9, <2>10 DEF IInv
<1>5. \/ slot' = slot /\ req' # [req EXCEPT ![r].pc = "serve",
                                   ![r].val = ClaimOf(r), ![r].start = 0]
      \/ /\ slot = Free /\ slot' = ClaimOf(r)
         /\ local' = local \/ Sets(r, ClaimOf(r))
         /\ \/ req' = Goto(r, "reply")
            \/ req' = [req EXCEPT ![r].pc = "serve", ![r].val = ClaimOf(r),
                                  ![r].start = 0]
  <2>1. \A l \in {"read", "reply"} :
          Goto(r, l) # [req EXCEPT ![r].pc = "serve",
                                   ![r].val = ClaimOf(r), ![r].start = 0]
    BY <1>1 DEF Goto, ReqRec
  <2>2. CASE Lost(SetNX(ClaimOf(r))) /\ req' = Refused(r) /\ local' = local
    BY <2>1, <2>2 DEF Lost, SetNX, Holds, Refused
  <2>3. CASE /\ Answered(SetNX(ClaimOf(r))) /\ Holds(Free)
             /\ Sets(r, ClaimOf(r))
             /\ req' = [req EXCEPT ![r].pc = "serve", ![r].val = ClaimOf(r),
                                   ![r].start = 0]
    BY <2>3 DEF Answered, SetNX, Holds
  <2>4. CASE /\ Answered(SetNX(ClaimOf(r))) /\ ~Holds(Free)
             /\ \E l \in {"read", "reply"} : req' = Goto(r, l)
    BY <2>1, <2>4 DEF Answered, SetNX, Holds
  <2> QED BY <2>2, <2>3, <2>4 DEF Claim, Refused, inst
<1> QED BY <1>3, <1>4, <1>5

\* Nobody holds what a request may take over.
LEMMA LapsedMeans ==
  ASSUME IInv, NEW r \in Reqs, req[r].pc = "take", slot = Mine(r)
  PROVE  \A s \in Reqs : req[s].pc \notin Owning
  BY HoldsStill, TakenMeans

LEMMA TakeKeeps ==
  ASSUME IInv, TypeInv', NEW r \in Reqs, Take(r)
  PROVE  IInv'
<1> DEFINE w == LeaseOf(r)
<1>1. /\ req \in [Reqs -> ReqRec] /\ req[r] \in ReqRec /\ Fits(req[r])
      /\ req[r].pc = "take" /\ w \in Values /\ 0 \in Time
      /\ req[r].pc # "idle"
  BY ValueTypes DEF Take, At, IInv, TypeInv, RequestsInv
<1>2. UNCHANGED <<local, opened, led, history, now>>
  BY DEF Take, inst
<1>3. CASE slot' = slot /\ req' = Refused(r)
  BY <1>1, <1>2, <1>3, GivesUp DEF Refused
<1>4. ASSUME slot = Mine(r), slot' = w,
             \/ req' = Goto(r, "reply")
             \/ req' = [req EXCEPT ![r].pc = "look", ![r].val = w, ![r].start = 0]
      PROVE  IInv'
  <2>1. \A s \in Reqs : req[s].pc \notin Owning
    BY <1>1, <1>4, LapsedMeans
  <2>2. /\ w.st = "redeeming" /\ w.rq = req[r].rq /\ w.rq = slot.rq
        /\ w.fs = slot.fs /\ w.own = req[r].id /\ w.lease = req[r].start
        /\ req[r].start >= req[r].at /\ req[r].start \in Time
        /\ slot.st \in {"in_flight", "settle_unconfirmed", "redeeming"}
    BY <1>1, <1>4 DEF LeaseOf, Mine, Fits, TakesOver, ReqRec, Values
  <2>3. PICK n \in ReqRec :
          /\ Becomes(r, n) /\ n.id = req[r].id /\ n.at = req[r].at
          /\ n.paid = req[r].paid /\ n.told = req[r].told /\ n.rq = req[r].rq
          /\ n.pc = "reply" \/ (n.pc = "look" /\ n.val = w)
    <3>1. CASE req' = Goto(r, "reply")
      <4> DEFINE n == MovedTo(req[r], "reply")
      <4>1. n \in ReqRec
        BY <1>1, RecordsTyped DEF Steps
      <4>2. Becomes(r, n)
        BY <1>1, <3>1, Moves
      <4>3. /\ n.pc = "reply" /\ n.id = req[r].id /\ n.at = req[r].at
            /\ n.paid = req[r].paid /\ n.told = req[r].told /\ n.rq = req[r].rq
        BY <1>1 DEF MovedTo, ReqRec
      <4> QED BY <4>1, <4>2, <4>3
    <3>2. CASE req' = [req EXCEPT ![r].pc = "look", ![r].val = w, ![r].start = 0]
      <4> DEFINE n == HasRead(req[r], "look", w, 0)
      <4>1. n \in ReqRec
        BY <1>1, RecordsTyped DEF Steps
      <4>2. Becomes(r, n)
        BY <1>1, <3>2, Moves
      <4>3. /\ n.pc = "look" /\ n.id = req[r].id /\ n.at = req[r].at
            /\ n.paid = req[r].paid /\ n.told = req[r].told /\ n.rq = req[r].rq
            /\ n.val = w
        BY <1>1 DEF HasRead, ReqRec
      <4> QED BY <4>1, <4>2, <4>3
    <3> QED BY <1>4, <3>1, <3>2
  <2>4. req'[r] = n /\ \A s \in Reqs : s # r => req'[s] = req[s]
    BY <2>3 DEF Becomes, IInv, TypeInv
  <2>5. ~n.paid /\ ~n.told
    BY <1>1, <2>3 DEF Fits, Answers
  <2> HIDE DEF w
  <2>6. Fits(req[r])'
    BY <1>1, <1>2, <1>4, <2>2, <2>3, <2>4, <2>5
    DEF Fits, Begins, TakesOver, Holding, Settling, Writing, Answers, Owning,
        history
  <2>7. RequestsInv' /\ UniqueIds' /\ ToldInv'
    BY <1>1, <1>2, <1>4, <2>1, <2>2, <2>3, <2>6, MoverStep DEF history
  <2>8. \A s \in Reqs : ~Unseals(req[s])'
    BY <2>1, <2>3, <2>4 DEF Unseals, Owning
  <2>9. Sealed'
    BY <1>4, <2>2, <2>8 DEF Sealed, Free, Bare
  <2>10. SlotInv'
    BY <1>2, <1>4, <2>2, <2>9 DEF IInv, SlotInv, Verdict, history
  <2>11. UnpaidInv'
    BY <2>8 DEF UnpaidInv
  <2>12. LocalInv'
    BY <1>2, <2>9, NotRemembering DEF history
  <2> QED BY <2>7, <2>10, <2>11, <2>12 DEF IInv
<1>5. \/ slot' = slot /\ req' = Refused(r)
      \/ /\ slot = Mine(r) /\ slot' = w
         /\ \/ req' = Goto(r, "reply")
            \/ req' = [req EXCEPT ![r].pc = "look", ![r].val = w, ![r].start = 0]
  BY DEF Take, Answered, Lost, CompareAndSet, Holds, Refused
<1> QED BY <1>3, <1>4, <1>5

\* The last write of a holder: answered, lost, or lost after it was applied.
LEMMA WriteKeeps ==
  ASSUME IInv, TypeInv', NEW r \in Reqs, Write(r)
  PROVE  IInv'
<1> DEFINE t == req[r].todo
           n == MovedTo(req[r], "reply")
<1>1. /\ req \in [Reqs -> ReqRec] /\ req[r] \in ReqRec /\ Fits(req[r])
      /\ req[r].pc = "write" /\ req[r].pc # "idle" /\ req[r].pc \in Owning
      /\ t.next \in Values
  BY DEF Write, At, IInv, TypeInv, RequestsInv, Owning, ReqRec, Todos
<1>2. UNCHANGED <<opened, led, paidFor, delivered, told, now>>
      /\ marked' = (marked \/ req[r].paid)
      /\ (local' = local \/ Remembers(r, t.next))
  BY DEF Write
<1>3. n \in ReqRec /\ Becomes(r, n)
  <2>1. n \in ReqRec
    BY <1>1, RecordsTyped DEF Steps
  <2> QED BY <2>1, <1>1, Moves DEF Write
<1>4. /\ n.pc = "reply" /\ n.id = req[r].id /\ n.at = req[r].at
      /\ n.paid = req[r].paid /\ n.told = req[r].told /\ n.rq = req[r].rq
  BY <1>1 DEF MovedTo, ReqRec
<1>5. Fits(n) /\ ~Unseals(n)
  BY <1>1, StandsBack
<1> HIDE DEF n
<1>6. /\ slot = req[r].val /\ slot.rq = req[r].rq
      /\ slot.st \in {"in_flight", "redeeming"}
  BY <1>1 DEF Fits, Holding
<1>7. \A s \in Reqs : s # r => req[s].pc \notin Owning
  BY <1>1, HeldByOne
<1>8. req'[r] = n /\ \A s \in Reqs : s # r => req'[s] = req[s]
  BY <1>3 DEF Becomes, IInv, TypeInv
<1>9. \A s \in Reqs : ~Unseals(req[s])'
  BY <1>5, <1>7, <1>8 DEF Unseals, Owning
<1>10. UnpaidInv'
  BY <1>9 DEF UnpaidInv
<1>11. slot' = slot \/ slot' = t.next
  <2>1. (t.op = "casdel" /\ t.next = Free) \/ t.op = "cas"
    BY <1>1 DEF Fits, Writing
  <2>2. After(r) \in {slot, t.next}
    BY <2>1 DEF After, CompareAndSet, CompareAndDelete
  <2> QED BY <2>2 DEF Write, Answered, Lost
<1>12. CASE t.op = "casdel"
  <2>1. paidFor = {} /\ t.next = Free /\ slot.st = "in_flight" /\ Unseals(req[r])
    BY <1>1, <1>12, UnsealsHolds DEF Fits, Writing, Unseals
  <2>2. NonePaid /\ ~Sealed
    BY <2>1, UnsealsHolds DEF IInv, UnpaidInv
  <2>3. Fits(req[r])'
    BY <1>4, <1>1, <1>2, <1>8, <2>2
    DEF Fits, Begins, TakesOver, Holding, Settling, Writing, Answers, Owning,
        NonePaid
  <2>4. RequestsInv' /\ UniqueIds' /\ ToldInv'
    BY <1>1, <1>2, <1>3, <1>4, <1>7, <2>2, <2>3, MoverStep
  <2>5. SlotInv'
    BY <1>2, <1>11, <2>1 DEF IInv, SlotInv, Verdict, Free, Bare
  <2>6. LocalInv'
    BY <1>2, <2>1, <2>2 DEF IInv, LocalInv, Remembers, Free, Bare, Finals
  <2> QED BY <1>10, <2>4, <2>5, <2>6 DEF IInv
<1>13. CASE t.op # "casdel"
  <2>1. /\ t.next.rq = req[r].rq /\ Verdict(t.next)
        /\ t.next.st \in {"settled", "settle_failed", "settle_unconfirmed"}
        /\ t.next.st = "settled" => req[r].paid \/ paidFor = {}
    BY <1>1, <1>13 DEF Fits, Writing, Finals
  <2>2. slot'.rq = slot.rq /\ slot' # Free
    BY <1>6, <1>11, <2>1 DEF Free, Bare
  <2>3. Fits(req[r])'
    BY <1>4, <1>1, <1>2, <1>8, <1>6, <2>2
    DEF Fits, Begins, TakesOver, Holding, Settling, Writing, Answers, Owning
  <2>4. RequestsInv' /\ UniqueIds' /\ ToldInv'
    BY <1>1, <1>2, <1>3, <1>4, <1>7, <2>2, <2>3, MoverStep
  <2>5. Sealed'
    BY <1>9, <2>2 DEF Sealed
  <2>6. SlotInv'
    BY <1>2, <1>6, <1>11, <2>1, <2>2, <2>5 DEF IInv, SlotInv, Verdict
  <2>7. LocalInv'
    BY <1>2, <2>1, <2>5, Remembering, NotRemembering
  <2> QED BY <1>10, <2>4, <2>6, <2>7 DEF IInv
<1> QED BY <1>12, <1>13

\* The chain's and the clock's steps.
LEMMA WorldKeeps ==
  ASSUME IInv, TypeInv', Land \/ Fail \/ Tick \/ \E i \in Insts : Recycled(i)
  PROVE  IInv'
<1>1. /\ UNCHANGED <<slot, req, opened, history>>
      /\ \A i \in Insts : local'[i] \in {local[i], "none"}
      /\ led' = led \/ led = "none"
      /\ now' = now \/ (now' = now + 1 /\ led' = led)
  BY DEF Land, Fail, Takes, Tick, Recycled, inst, IInv, TypeInv
<1>2. RequestsInv'
  <2> SUFFICES ASSUME NEW s \in Reqs PROVE Fits(req[s])'
    BY DEF RequestsInv
  <2>1. \/ now' = now
        \/ now' = now + 1 /\ (req[s].pc # "idle" => now - req[s].at < MaxReq)
    <3>1. req[s].pc \in Steps \cup {"idle"}
      BY DEF IInv, TypeInv, ReqRec
    <3> QED BY <3>1 DEF Land, Fail, Takes, Tick, Recycled
  <2> QED BY <1>1, <2>1, OthersKeep DEF history
<1>3. Sealed => Sealed'
  BY <1>1 DEF Sealed, Unseals
<1>4. SlotInv'
  BY <1>1, <1>3 DEF IInv, SlotInv, Verdict, history
<1>5. LocalInv'
  BY <1>1, <1>3, NotRemembering DEF history
<1>6. UnpaidInv' /\ UniqueIds' /\ ToldInv'
  <2>1. told => led' = led
    BY <1>1 DEF IInv, ToldInv
  <2> QED BY <1>1, <2>1 DEF IInv, UnpaidInv, NonePaid, Unseals, UniqueIds,
                            ToldInv, history
<1> QED BY <1>2, <1>4, <1>5, <1>6 DEF IInv

LEMMA InitInv == Init => IInv
<1> SUFFICES ASSUME Init PROVE IInv
  OBVIOUS
<1>1. TypeInv
  BY InitTypes
<1>2. /\ slot = Free /\ Free.st = "free" /\ paidFor = {} /\ ~told
      /\ \A i \in Insts : local[i] = "none"
      /\ \A r \in Reqs : /\ req[r].pc = "idle" /\ req[r].paid = FALSE
                         /\ req[r].told = FALSE
  BY DEF Init, Idle, Free, Bare
<1>3. \A r \in Reqs : Fits(req[r]) /\ ~Unseals(req[r])
  BY <1>2 DEF Fits, Begins, TakesOver, Holding, Settling, Writing, Answers,
              Owning, Unseals
<1> QED BY <1>1, <1>2, <1>3
        DEF IInv, SlotInv, Verdict, LocalInv, RequestsInv, UnpaidInv, ToldInv,
            UniqueIds

LEMMA NextInv == IInv /\ AttemptInv /\ [Next]_vars => IInv'
<1> SUFFICES ASSUME IInv, AttemptInv, [Next]_vars PROVE IInv'
  OBVIOUS
<1>1. TypeInv'
  BY NextTypes DEF IInv
<1>2. CASE UNCHANGED vars
  BY <1>2 DEF vars, inst, history, IInv, TypeInv, SlotInv, Verdict, LocalInv, Sealed,
     Unseals, RequestsInv, Fits, Begins, TakesOver, Holding, Settling, Writing,
     Answers, UnpaidInv, NonePaid, ToldInv, UniqueIds
<1>3. CASE Land \/ Fail \/ Tick \/ \E i \in Insts : Recycled(i)
  BY <1>1, <1>3, WorldKeeps
<1>4. ASSUME NEW r \in Reqs, NEW q \in Rqs, Open(r, q)
      PROVE  IInv'
  BY <1>1, <1>4, OpenKeeps
<1>5. ASSUME NEW r \in Reqs,
             \/ Claim(r) \/ Serve(r) \/ Settle(r) \/ SettleAnswers(r) \/ Judge(r)
             \/ Read(r) \/ Take(r) \/ Look(r) \/ Write(r) \/ Reply(r) \/ Dies(r)
      PROVE  IInv'
  <2>1. Serve(r) \/ Settle(r) \/ Judge(r) => Known(r)
    BY DEF Serve, Settle, Judge, At, AttemptInv, Paying
  <2> QED BY <1>1, <1>5, <2>1, ClaimKeeps, ServeKeeps, SettleKeeps,
             SettleAnswersKeeps, JudgeKeeps, ReadKeeps, TakeKeeps, LookKeeps,
             WriteKeeps, LeaveKeeps
<1> QED BY <1>2, <1>3, <1>4, <1>5 DEF Next

LEMMA Invariance == ASSUME OwnInstance PROVE Spec => []IInv
  BY InitInv, NextInv, AttemptThere, PTL DEF Spec

\* Told to pay again only of a payment that did not land: who ends with a 402
\* after a settle call has seen the transaction fail.  On a shared instance TLC
\* refutes it.
THEOREM RefusedIsNotCharged ==
  ASSUME OwnInstance PROVE Spec => []RefusedNotCharged
<1>1. IInv => RefusedNotCharged
  BY DEF IInv, ToldInv, RefusedNotCharged
<1> QED BY <1>1, Invariance, PTL

\* An instance's memory is right for good: the slot it was written with is never
\* given back, so nobody submits the payment after it.
THEOREM MemoryIsFinal ==
  ASSUME OwnInstance PROVE Spec => []LocalIsFinal
<1>1. IInv => LocalIsFinal
  BY DEF IInv, LocalInv, LocalIsFinal
<1> QED BY <1>1, Invariance, PTL

\* A payment submitted by the program that landed is never lost: the slot, or
\* the request that holds it, still says whose it is.
THEOREM ChargedIsRecoverable ==
  ASSUME OwnInstance PROVE Spec => []ChargedRecoverable
<1>1. IInv => ChargedRecoverable
  <2> SUFFICES ASSUME IInv, led = "paid", paidFor # {}
               PROVE  \/ /\ slot.st \in {"in_flight", "settle_unconfirmed",
                                         "redeeming"}
                         /\ slot.rq \in paidFor
                      \/ slot.st = "settled" /\ marked
    BY DEF ChargedRecoverable
  <2>1. slot.rq \in paidFor /\ slot.st \in States \cup {"free"}
    BY DEF IInv, SlotInv, TypeInv, Values
  <2>2. slot.st # "free"
    BY FreeMeans
  <2>3. slot.st # "settle_failed"
    BY DEF IInv, SlotInv, Verdict
  <2>4. slot.st = "settled" => marked
    BY DEF IInv, SlotInv
  <2> QED BY <2>1, <2>2, <2>3, <2>4 DEF States
<1> QED BY <1>1, Invariance, PTL

\* One payment, one delivery: to the request it was made for, and a second one
\* only if the store did not take the mark that said it was delivered.
THEOREM DeliveredOnlyOnce ==
  ASSUME OwnInstance PROVE Spec => []DeliveredOnce
<1>1. IInv => DeliveredToPayer
  BY DEF DeliveredToPayer, IInv, RequestsInv, Fits, Answers, SlotInv
<1> QED BY <1>1, Invariance, OneDeliveryPerPayment, PTL DEF DeliveredOnce
=============================================================================
