--------------------------- MODULE XrplSlotProofs ---------------------------
(* Theorems about XrplSlot, for any requests, transactions and bounds.  What   *)
(* they need of the instances is a hypothesis of those that need it.          *)
EXTENDS XrplSlot, TLAPS, FiniteSetTheorems

----------------------------------------------------------------------------
(* Types. *)

Todos == [op: {"none", "set", "del", "cas", "casany", "casdel"}, next: Values]
ReqRec == [pc: Steps \cup {"idle"}, id: 0..MaxReqs, kind: Kinds, at: Time,
           fs: Time, val: Values, att: Reqs \cup {None},
           ask: {"none", "sent", "refused"}, ran: BOOLEAN,
           settle: {"none", "failed", "unconfirmed", "success"},
           other: BOOLEAN, todo: Todos, paid: BOOLEAN, told: SUBSET Txs]

IdsInv == \A r \in Reqs : /\ req[r].id <= opened
                          /\ req[r].pc # "idle" => req[r].id \in Ids
Ops == {"set", "del", "cas", "casany", "casdel"}
Replies == {"200", "402", "no"}
\* A last write is one, and leaves what it says; a payment can be redeemed by its
\* transaction; a paid response is decided on before it is written.
Shaped(q) == /\ q.pc = "write" => q.todo.op \in Ops
             /\ q.pc \in {"take", "look"} => q.val.tx \in Txs
             /\ q.pc = "write" /\ q.todo.op \in {"del", "casdel"} => q.todo.next = Free
             /\ q.paid => q.pc \in {"write", "reply"}
TypeInv ==
  /\ slot \in Values /\ faults \in 0..MaxFaults
  /\ attempt \in [Insts -> Reqs \cup {None}]
  /\ req \in [Reqs -> ReqRec] /\ IdsInv /\ \A r \in Reqs : Shaped(req[r])
  /\ led \in [Txs -> {"none", "paid", "failed"}]
  /\ closed \in [Txs -> Time] /\ never \subseteq Txs
  /\ paidFor \in [Txs -> SUBSET Rqs]
  /\ opened \in 0..MaxReqs /\ told \subseteq Txs /\ marked \in BOOLEAN
  /\ delivered \in Nat /\ lostMarks \in Nat /\ now \in Time

LEMMA ValueTypes ==
  /\ Free \in Values /\ Failed \in Values /\ Settled \in Values
  /\ NoTodo \in Todos /\ Idle \in ReqRec /\ 0 \in Time
  /\ \A k \in Kinds : k.tx \in Txs /\ k.rq \in Rqs
  /\ \A r \in Reqs : TypeInv /\ req[r].pc # "idle" =>
       /\ ClaimOf(r) \in Values /\ LeaseOf(r) \in Values
       /\ Undelivered(r) \in Values /\ Manual(r) \in Values
       /\ Delivered(r) \in Values
       /\ \A s \in Reqs : [Undelivered(r) EXCEPT !.tx = Tx(s),
                                        !.rq = req[s].kind.rq] \in Values
<1> USE XrplAssumption, StoreAssumption
<1>1. /\ Free \in Values /\ Failed \in Values /\ Settled \in Values
      /\ NoTodo \in Todos /\ 0 \in Time
      /\ \A k \in Kinds : k.tx \in Txs /\ k.rq \in Rqs
  BY DEF Free, Failed, Settled, Bare, Values, States, NoTodo, Todos, Time
<1>2. Idle \in ReqRec
  BY <1>1 DEF Idle, ReqRec
<1>3. ASSUME NEW r \in Reqs, TypeInv, req[r].pc # "idle"
      PROVE  ClaimOf(r) \in Values /\ LeaseOf(r) \in Values
             /\ Undelivered(r) \in Values
  BY <1>1, <1>3 DEF TypeInv, IdsInv, ClaimOf, LeaseOf, Undelivered, Mine, Tx,
                    Values, States, ReqRec
<1>4. ASSUME NEW r \in Reqs, TypeInv, req[r].pc # "idle"
      PROVE  Manual(r) \in Values /\ Delivered(r) \in Values
             /\ \A s \in Reqs : [Undelivered(r) EXCEPT !.tx = Tx(s),
                                              !.rq = req[s].kind.rq] \in Values
  <2>1. Undelivered(r) \in Values /\ Mine(r) \in Values
    BY <1>3, <1>4 DEF TypeInv, Mine, ReqRec
  <2>2. Manual(r) \in Values /\ Delivered(r) \in Values
    BY <2>1 DEF Manual, Delivered, Values, States
  <2>3. \A s \in Reqs : Tx(s) \in Txs /\ req[s].kind.rq \in Rqs
    BY <1>1, <1>4 DEF TypeInv, ReqRec, Tx
  <2> QED BY <2>1, <2>2, <2>3 DEF Values
<1> QED BY <1>1, <1>2, <1>3, <1>4

\* The record each step leaves its request with.
Begun(i, k, t) == [Idle EXCEPT !.pc = "claim", !.id = i, !.kind = k, !.at = t,
                               !.fs = t]
MovedTo(q, l) == [q EXCEPT !.pc = l]
Claimed(q, v) == [q EXCEPT !.pc = "serve", !.val = v]
Served(q, ran) == [q EXCEPT !.pc = "settle", !.ran = ran]
Asked(q, ask, a) == [q EXCEPT !.pc = "asked", !.ask = ask, !.att = a]
Heard(q) == [q EXCEPT !.pc = "judge", !.att = None, !.ask = "none"]
NotedIn(q, out, other) == [q EXCEPT !.settle = out, !.other = other]
HasRead(q, l, v, t) == [q EXCEPT !.pc = l, !.val = v, !.fs = t]
ToldBy(q, a) ==
  IF a = "402" THEN {t \in {q.val.tx} \cap Txs : paidFor[t] # {}} ELSE {}
Ended(q, op, next, a) ==
  [q EXCEPT !.pc = "write", !.todo = [op |-> op, next |-> next],
            !.paid = a = "200", !.ran = FALSE, !.fs = 0, !.told = ToldBy(q, a)]

Rejected(q) == [q EXCEPT !.pc = "reply", !.paid = FALSE,
                         !.told = ToldBy(q, "402")]

LEMMA RecordsTyped ==
  /\ \A i \in Ids, k \in Kinds, t \in Time : Begun(i, k, t) \in ReqRec
  /\ \A q \in ReqRec :
       /\ \A l \in Steps \cup {"idle"} : MovedTo(q, l) \in ReqRec
       /\ \A v \in Values : Claimed(q, v) \in ReqRec
       /\ \A ran \in BOOLEAN : Served(q, ran) \in ReqRec
       /\ \A ask \in {"sent", "refused"}, a \in Reqs \cup {None} :
            Asked(q, ask, a) \in ReqRec
       /\ Heard(q) \in ReqRec /\ Rejected(q) \in ReqRec
       /\ \A out \in {"failed", "unconfirmed", "success"}, o \in BOOLEAN :
            NotedIn(q, out, o) \in ReqRec
       /\ \A l \in Steps, v \in Values, t \in Time :
            HasRead(q, l, v, t) \in ReqRec
       /\ \A op \in Ops, v \in Values, a \in Replies : Ended(q, op, v, a) \in ReqRec
<1>1. ASSUME NEW i \in Ids, NEW k \in Kinds, NEW t \in Time
      PROVE  Begun(i, k, t) \in ReqRec
  <2>1. i \in 0..MaxReqs /\ "claim" \in Steps \cup {"idle"}
    BY StoreAssumption DEF Ids, Steps
  <2> QED BY <2>1, ValueTypes DEF Begun, ReqRec
<1>2. ASSUME NEW q \in ReqRec
      PROVE  /\ \A l \in Steps \cup {"idle"} : MovedTo(q, l) \in ReqRec
             /\ \A v \in Values : Claimed(q, v) \in ReqRec
             /\ \A ran \in BOOLEAN : Served(q, ran) \in ReqRec
             /\ \A ask \in {"sent", "refused"}, a \in Reqs \cup {None} :
                  Asked(q, ask, a) \in ReqRec
             /\ Heard(q) \in ReqRec
  BY DEF MovedTo, Claimed, Served, Asked, Heard, ReqRec, Steps
<1>3. ASSUME NEW q \in ReqRec
      PROVE  /\ \A out \in {"failed", "unconfirmed", "success"}, o \in BOOLEAN :
                  NotedIn(q, out, o) \in ReqRec
             /\ \A l \in Steps, v \in Values, t \in Time :
                  HasRead(q, l, v, t) \in ReqRec
  BY DEF NotedIn, HasRead, ReqRec
<1>4. ASSUME NEW q \in ReqRec, NEW op \in Ops, NEW v \in Values, NEW a \in Replies
      PROVE  Ended(q, op, v, a) \in ReqRec
  <2>1. [op |-> op, next |-> v] \in Todos /\ ToldBy(q, a) \in SUBSET Txs
        /\ 0 \in Time
    BY ValueTypes DEF Todos, Ops, ToldBy
  <2> QED BY <2>1 DEF Ended, ReqRec, Steps
<1>5. ASSUME NEW q \in ReqRec
      PROVE  Rejected(q) \in ReqRec
  <2>1. ToldBy(q, "402") \in SUBSET Txs
    BY DEF ToldBy
  <2> QED BY <2>1 DEF Rejected, ReqRec, Steps
<1> QED BY <1>1, <1>2, <1>3, <1>4, <1>5

\* One request's record becomes n.
Becomes(r, n) == req' = [req EXCEPT ![r] = n]

LEMMA Moves ==
  ASSUME req \in [Reqs -> ReqRec], NEW r \in Reqs
  PROVE  /\ \A l : req' = Goto(r, l) => Becomes(r, MovedTo(req[r], l))
         /\ \A v : req' = [req EXCEPT ![r].pc = "serve", ![r].val = v]
                     => Becomes(r, Claimed(req[r], v))
         /\ \A ran : req' = [req EXCEPT ![r].pc = "settle", ![r].ran = ran]
                       => Becomes(r, Served(req[r], ran))
         /\ \A ask, a : req' = [req EXCEPT ![r].pc = "asked", ![r].ask = ask,
                                           ![r].att = a]
                          => Becomes(r, Asked(req[r], ask, a))
         /\ \A l, v, t : req' = [req EXCEPT ![r].pc = l, ![r].val = v,
                                            ![r].fs = t]
                           => Becomes(r, HasRead(req[r], l, v, t))
         /\ \A op, v, a : Ends(r, op, v, a)
                            => Becomes(r, Ended(req[r], op, v, a))
         /\ req' = [Refused(r) EXCEPT ![r].paid = FALSE, ![r].told = Judged(r)]
              => Becomes(r, Rejected(req[r]))
<1> USE DEF Becomes, ReqRec
<1>1. \A l : req' = Goto(r, l) => Becomes(r, MovedTo(req[r], l))
  BY DEF Goto, MovedTo
<1>2. ASSUME NEW v, req' = [req EXCEPT ![r].pc = "serve", ![r].val = v]
      PROVE  Becomes(r, Claimed(req[r], v))
  BY <1>2 DEF Claimed
<1>3. ASSUME NEW ran, req' = [req EXCEPT ![r].pc = "settle", ![r].ran = ran]
      PROVE  Becomes(r, Served(req[r], ran))
  BY <1>3 DEF Served
<1>4. ASSUME NEW ask, NEW a,
             req' = [req EXCEPT ![r].pc = "asked", ![r].ask = ask, ![r].att = a]
      PROVE  Becomes(r, Asked(req[r], ask, a))
  BY <1>4 DEF Asked
<1>5. ASSUME NEW l, NEW v, NEW t,
             req' = [req EXCEPT ![r].pc = l, ![r].val = v, ![r].fs = t]
      PROVE  Becomes(r, HasRead(req[r], l, v, t))
  BY <1>5 DEF HasRead
<1>6. ASSUME NEW op, NEW v, NEW a, Ends(r, op, v, a)
      PROVE  Becomes(r, Ended(req[r], op, v, a))
  BY <1>6 DEF Ends, Ended, ToldBy, Judged, Mine
<1>7. ASSUME req' = [Refused(r) EXCEPT ![r].paid = FALSE, ![r].told = Judged(r)]
      PROVE  Becomes(r, Rejected(req[r]))
  BY <1>7 DEF Refused, Goto, Rejected, ToldBy, Judged, Mine
<1> HIDE DEF Becomes, ReqRec
<1> QED BY <1>1, <1>2, <1>3, <1>4, <1>5, <1>6, <1>7

\* A settle's answer ends one wait and notes it where the request's Attempt is.
LEMMA AnswerMoves ==
  ASSUME TypeInv, NEW r \in Reqs, SettleAnswers(r)
  PROVE  \E out \in Outcomes(r), o \in BOOLEAN :
           /\ o => out # "failed"
           /\ \A s \in Reqs :
                LET q == IF s = r THEN Heard(req[s]) ELSE req[s]
                IN  req'[s] = IF s = req[r].att THEN NotedIn(q, out, o) ELSE q
           /\ req' \in [Reqs -> ReqRec]
<1>1. PICK out \in Outcomes(r), o \in BOOLEAN :
        /\ o => out # "failed"
        /\ req' = Noted([req EXCEPT ![r].pc = "judge", ![r].att = None,
                                    ![r].ask = "none"], r, out, o)
  BY DEF SettleAnswers
<1> DEFINE h == [req EXCEPT ![r] = Heard(req[r])]
<1>2. /\ req \in [Reqs -> ReqRec] /\ out \in {"failed", "unconfirmed", "success"}
      /\ \A q \in ReqRec : Heard(q) \in ReqRec /\ NotedIn(q, out, o) \in ReqRec
      /\ req[r].att \in Reqs \cup {None} /\ None \notin Reqs
  <2>1. req \in [Reqs -> ReqRec] /\ out \in {"failed", "unconfirmed", "success"}
    BY DEF TypeInv, Outcomes
  <2>2. req[r].att \in Reqs \cup {None} /\ None \notin Reqs
    BY <2>1, StoreAssumption DEF ReqRec
  <2> QED BY <2>1, <2>2, RecordsTyped
<1>3. /\ [req EXCEPT ![r].pc = "judge", ![r].att = None, ![r].ask = "none"] = h
      /\ h \in [Reqs -> ReqRec]
  <2>1. h \in [Reqs -> ReqRec]
    BY <1>2
  <2>2. [req EXCEPT ![r].pc = "judge", ![r].att = None, ![r].ask = "none"]
          = [req EXCEPT ![r] = [req[r] EXCEPT !.pc = "judge", !.att = None,
                                              !.ask = "none"]]
    BY <1>2 DEF ReqRec
  <2> QED BY <2>1, <2>2 DEF Heard
<1>4. \A s \in Reqs : h[s] = IF s = r THEN Heard(req[s]) ELSE req[s]
  BY <1>2
<1> HIDE DEF h
<1>5. CASE req[r].att = None
  BY <1>1, <1>2, <1>3, <1>4, <1>5 DEF Noted
<1>6. CASE req[r].att # None
  <2>1. req[r].att \in Reqs
    BY <1>2, <1>6
  <2>2. req' = [h EXCEPT ![req[r].att].settle = out, ![req[r].att].other = o]
    BY <1>1, <1>3, <1>6 DEF Noted
  <2>3. req' = [h EXCEPT ![req[r].att] = NotedIn(h[req[r].att], out, o)]
    <3>1. \A a \in Reqs : [h EXCEPT ![a].settle = out, ![a].other = o]
            = [h EXCEPT ![a] = [h[a] EXCEPT !.settle = out, !.other = o]]
      BY <1>3 DEF ReqRec
    <3> QED BY <2>1, <2>2, <3>1 DEF NotedIn
  <2>4. req' \in [Reqs -> ReqRec]
    BY <2>1, <2>3, <1>2, <1>3
  <2>5. \A s \in Reqs : req'[s] = IF s = req[r].att THEN NotedIn(h[s], out, o)
                                                     ELSE h[s]
    BY <2>1, <2>3, <1>3
  <2>6. \A s \in Reqs :
          LET q == IF s = r THEN Heard(req[s]) ELSE req[s]
          IN  req'[s] = IF s = req[r].att THEN NotedIn(q, out, o) ELSE q
    BY <2>5, <1>4
  <2> QED BY <1>1, <2>4, <2>6
<1> QED BY <1>5, <1>6

\* How each step leaves its request: what it becomes, and that it stays itself.
LEMMA StepTyped ==
  ASSUME TypeInv, NEW r \in Reqs,
         \/ Claim(r) \/ Serve(r) \/ Settle(r) \/ Judge(r) \/ Throw(r) \/ Read(r)
         \/ Take(r) \/ Look(r) \/ ThrowRedeem(r) \/ Write(r),
         req[r].pc # "idle"
  PROVE  \E n \in ReqRec : Becomes(r, n) /\ n.id = req[r].id /\ Shaped(n)
<1> DEFINE Goal == \E n \in ReqRec : /\ Becomes(r, n) /\ n.id = req[r].id
                                 /\ Shaped(n)
<1> SUFFICES Goal
  OBVIOUS
<1>1. /\ req \in [Reqs -> ReqRec] /\ req[r] \in ReqRec
      /\ slot \in Values /\ now \in Time /\ req[r].at \in Time
      /\ ClaimOf(r) \in Values /\ LeaseOf(r) \in Values
      /\ Settled \in Values /\ Failed \in Values /\ Free \in Values
      /\ Undelivered(r) \in Values /\ Manual(r) \in Values
      /\ Delivered(r) \in Values
      /\ \A s \in Reqs : [Undelivered(r) EXCEPT !.tx = Tx(s),
                                       !.rq = req[s].kind.rq] \in Values
      /\ Known(r) \in Reqs \cup {None} /\ Shaped(req[r])
  BY ValueTypes, XrplAssumption DEF TypeInv, Known, ReqRec
<1>2. ASSUME NEW l \in {"reply", "read"}, req' = Goto(r, l),
             l = "reply" \/ At(r, "claim")
      PROVE  Goal
  <2>1. MovedTo(req[r], l) \in ReqRec
    BY <1>1, RecordsTyped DEF Steps
  <2>2. MovedTo(req[r], l).id = req[r].id /\ Shaped(MovedTo(req[r], l))
    BY <1>1, <1>2 DEF MovedTo, ReqRec, Shaped, At
  <2> QED BY <2>1, <2>2, <1>1, <1>2, Moves
<1>3. ASSUME NEW l \in {"take", "look"}, NEW v \in Values, NEW t \in Time,
             At(r, "read") \/ At(r, "take"), v.tx \in Txs,
             req' = [req EXCEPT ![r].pc = l, ![r].val = v, ![r].fs = t]
      PROVE  Goal
  <2>1. HasRead(req[r], l, v, t) \in ReqRec
    BY <1>1, RecordsTyped DEF Steps
  <2>2. HasRead(req[r], l, v, t).id = req[r].id
        /\ Shaped(HasRead(req[r], l, v, t))
    BY <1>1, <1>3 DEF HasRead, ReqRec, Shaped, At
  <2> QED BY <2>1, <2>2, <1>1, <1>3, Moves
<1>4. ASSUME NEW op \in Ops, NEW v \in Values, NEW a \in Replies, Ends(r, op, v, a),
             op \in {"del", "casdel"} => v = Free
      PROVE  Goal
  <2>1. Ended(req[r], op, v, a) \in ReqRec
    BY <1>1, RecordsTyped
  <2>2. Ended(req[r], op, v, a).id = req[r].id
        /\ Shaped(Ended(req[r], op, v, a))
    BY <1>1, <1>4 DEF Ended, ReqRec, Shaped
  <2> QED BY <2>1, <2>2, <1>1, <1>4, Moves
<1>5. CASE Settle(r)
  <2>1. PICK ask \in {"sent", "refused"} :
          req' = [req EXCEPT ![r].pc = "asked", ![r].ask = ask,
                             ![r].att = Known(r)]
    BY <1>5 DEF Settle
  <2>2. Asked(req[r], ask, Known(r)) \in ReqRec
    BY <1>1, RecordsTyped
  <2>3. Asked(req[r], ask, Known(r)).id = req[r].id
        /\ Shaped(Asked(req[r], ask, Known(r)))
    BY <1>1, <1>5 DEF Asked, ReqRec, Shaped, Settle, At
  <2> QED BY <2>1, <2>2, <2>3, <1>1, Moves
<1>6. ASSUME NEW ran \in BOOLEAN, At(r, "serve"),
             req' = [req EXCEPT ![r].pc = "settle", ![r].ran = ran]
      PROVE  Goal
  <2>1. Served(req[r], ran) \in ReqRec
    BY <1>1, RecordsTyped
  <2>2. Served(req[r], ran).id = req[r].id /\ Shaped(Served(req[r], ran))
    BY <1>1, <1>6 DEF Served, ReqRec, Shaped, At
  <2> QED BY <1>6, <2>1, <2>2, <1>1, Moves
<1>7. ASSUME req' = [req EXCEPT ![r].pc = "serve", ![r].val = ClaimOf(r)],
             At(r, "claim")
      PROVE  Goal
  <2>1. Claimed(req[r], ClaimOf(r)) \in ReqRec
    BY <1>1, RecordsTyped
  <2>2. Claimed(req[r], ClaimOf(r)).id = req[r].id
        /\ Shaped(Claimed(req[r], ClaimOf(r)))
    BY <1>1, <1>7 DEF Claimed, ReqRec, Shaped, At
  <2> QED BY <1>7, <2>1, <2>2, <1>1, Moves
<1>17. ASSUME req' = [Refused(r) EXCEPT ![r].paid = FALSE, ![r].told = Judged(r)]
       PROVE  Goal
  <2>1. Rejected(req[r]) \in ReqRec
    BY <1>1, RecordsTyped
  <2>2. Rejected(req[r]).id = req[r].id /\ Shaped(Rejected(req[r]))
    BY <1>1 DEF Rejected, ReqRec, Shaped
  <2> QED BY <1>17, <2>1, <2>2, <1>1, Moves
<1> HIDE DEF Goal
<1> USE DEF Steps, Ops, Replies
<1>8. CASE Claim(r)
  BY <1>8, <1>1, <1>2, <1>7 DEF Claim, Refused
<1>9. CASE Serve(r)
  BY <1>9, <1>1, <1>4, <1>6 DEF Serve, Release
<1>10. CASE Judge(r)
  BY <1>10, <1>1, <1>4 DEF Judge, Says, Confirm, Release, NothingYet
<1>11. CASE Throw(r)
  BY <1>11, <1>1, <1>17, <1>4 DEF Throw, Release
<1>12. CASE Read(r)
  <2>1. slot.tx # None => slot.tx \in Txs
    BY <1>1 DEF Values
  <2> QED BY <1>12, <1>1, <1>2, <1>3, <2>1 DEF Read, Refused, Redeems
<1>13. CASE Take(r)
  <2>1. LeaseOf(r).tx \in Txs
    BY <1>1, <1>13 DEF Take, At, TypeInv, Shaped, LeaseOf, Mine, Values, ReqRec
  <2> QED BY <1>13, <1>1, <1>2, <1>3, <2>1 DEF Take, Refused
<1>14. CASE Look(r)
  BY <1>14, <1>1, <1>4 DEF Look, Looks, Says, NothingYet
<1>15. CASE ThrowRedeem(r)
  BY <1>15, <1>1, <1>4 DEF ThrowRedeem
<1>16. CASE Write(r)
  BY <1>16, <1>2 DEF Write
<1> QED BY <1>5, <1>8, <1>9, <1>10, <1>11, <1>12, <1>13, <1>14, <1>15, <1>16

LEMMA StepsNotIdle ==
  ASSUME TypeInv, NEW r \in Reqs,
         \/ Claim(r) \/ Serve(r) \/ Settle(r) \/ SettleAnswers(r) \/ Judge(r)
         \/ Throw(r) \/ Read(r) \/ Take(r) \/ Look(r) \/ ThrowRedeem(r)
         \/ Write(r) \/ Reply(r) \/ Dies(r)
  PROVE  req[r].pc # "idle"
  BY DEF Claim, Serve, Settle, SettleAnswers, Judge, Throw, Read, Take, Look,
         ThrowRedeem, Write, Reply, Dies, At, Live, Steps

LEMMA OneRecordTyped ==
  ASSUME TypeInv, NEW r \in Reqs, NEW n \in ReqRec, Becomes(r, n),
         n.pc # "idle" => n.id \in Ids, n.id <= opened', opened <= opened',
         opened' \in 0..MaxReqs, Shaped(n)
  PROVE  req' \in [Reqs -> ReqRec] /\ IdsInv' /\ \A s \in Reqs : Shaped(req[s])'
  BY StoreAssumption DEF TypeInv, IdsInv, ReqRec, Becomes, Shaped

LEMMA StoreTypes ==
  ASSUME TypeInv, NEW v \in Values, Answered(v) \/ Lost(v)
  PROVE  slot' \in Values /\ faults' \in 0..MaxFaults
  BY StoreAssumption DEF TypeInv, Answered, Lost

LEMMA StepTypes ==
  ASSUME TypeInv, NEW r \in Reqs, UNCHANGED opened,
         \/ Claim(r) \/ Serve(r) \/ Settle(r) \/ SettleAnswers(r) \/ Judge(r)
         \/ Throw(r) \/ Read(r) \/ Take(r) \/ Look(r) \/ ThrowRedeem(r) \/ Write(r)
  PROVE  TypeInv'
<1>1. /\ req[r].pc # "idle" /\ req[r] \in ReqRec /\ Mine(r) \in Values
      /\ req[r].kind.rq \in Rqs /\ Tx(r) \in Txs /\ slot \in Values
      /\ req[r].todo.next \in Values /\ Free \in Values
      /\ ClaimOf(r) \in Values /\ LeaseOf(r) \in Values
      /\ req \in [Reqs -> ReqRec] /\ IdsInv
  <2>1. req[r].pc # "idle"
    BY StepsNotIdle
  <2> QED BY <2>1, ValueTypes DEF TypeInv, ReqRec, Mine, Todos, Tx
<1>2. led' = led /\ closed' = closed /\ now' = now /\ told' = told
      /\ delivered' = delivered
  BY DEF Claim, Serve, Settle, SettleAnswers, Judge, Throw, Read, Take, Look,
         ThrowRedeem, Write, external, seen, history
<1>3. req' \in [Reqs -> ReqRec] /\ IdsInv' /\ \A s \in Reqs : Shaped(req[s])'
  <2>1. CASE SettleAnswers(r)
    <3>1. PICK out \in Outcomes(r), o \in BOOLEAN :
           /\ \A s \in Reqs :
                LET q == IF s = r THEN Heard(req[s]) ELSE req[s]
                IN  req'[s] = IF s = req[r].att THEN NotedIn(q, out, o) ELSE q
           /\ req' \in [Reqs -> ReqRec]
      BY <2>1, AnswerMoves
    <3>3. ~req[r].paid
      BY <2>1 DEF SettleAnswers, At, TypeInv, Shaped
    <3>2. ASSUME NEW s \in Reqs
          PROVE  /\ req'[s].id = req[s].id /\ Shaped(req'[s])
                 /\ req'[s].pc # "idle" => req[s].pc # "idle"
      <4> DEFINE q == IF s = r THEN Heard(req[s]) ELSE req[s]
      <4>1. q \in ReqRec /\ q.id = req[s].id /\ Shaped(q)
            /\ (q.pc # "idle" => req[s].pc # "idle")
        <5>1. req[s] \in ReqRec /\ Shaped(req[s]) /\ Heard(req[s]) \in ReqRec
          BY <1>1, RecordsTyped DEF TypeInv
        <5> QED BY <5>1, <1>1, <3>3 DEF Heard, ReqRec, Shaped
      <4>2. req'[s] = IF s = req[r].att THEN NotedIn(q, out, o) ELSE q
        BY <3>1
      <4> HIDE DEF q
      <4> QED BY <4>1, <4>2 DEF NotedIn, ReqRec, Shaped
    <3> QED BY <1>1, <3>1, <3>2 DEF IdsInv, Shaped
  <2>2. CASE ~SettleAnswers(r)
    <3>1. PICK n \in ReqRec : Becomes(r, n) /\ n.id = req[r].id /\ Shaped(n)
      BY <2>2, <1>1, StepTyped
    <3>2. n.id \in Ids /\ n.id <= opened' /\ opened <= opened'
          /\ opened' \in 0..MaxReqs
      BY <1>1, <3>1 DEF TypeInv, IdsInv
    <3> QED BY <3>1, <3>2, OneRecordTyped
  <2> QED BY <2>1, <2>2
<1>4. slot' \in Values /\ faults' \in 0..MaxFaults
  <2>1. ASSUME NEW v \in Values, Answered(v) \/ Lost(v)
        PROVE  slot' \in Values /\ faults' \in 0..MaxFaults
    BY <2>1, StoreTypes
  <2>2. CASE Claim(r)
    BY <2>2, <2>1, <1>1 DEF Claim, SetNX
  <2>3. CASE Take(r)
    BY <2>3, <2>1, <1>1 DEF Take, CompareAndSet
  <2>4. CASE Write(r)
    <3>1. PICK v : v = After(r) /\ (Answered(v) \/ Lost(v))
      BY <2>4 DEF Write
    <3>2. req[r].todo.op \in Ops
      BY <2>4 DEF Write, At, TypeInv, Shaped
    <3>3. v \in Values
      BY <3>1, <3>2, <1>1 DEF After, Put, Del, CompareAndSet, CompareAndDelete,
                              Ops
    <3> QED BY <3>1, <3>3, <2>1
  <2>5. CASE Read(r) \/ Throw(r) \/ ThrowRedeem(r)
    BY <2>5, StoreAssumption DEF Read, Throw, ThrowRedeem, Throws, TypeInv
  <2>6. CASE Serve(r) \/ Settle(r) \/ SettleAnswers(r) \/ Judge(r) \/ Look(r)
    BY <2>6 DEF Serve, Settle, SettleAnswers, Judge, Look, TypeInv
  <2> QED BY <2>2, <2>3, <2>4, <2>5, <2>6
<1>5. attempt' \in [Insts -> Reqs \cup {None}]
  BY XrplAssumption DEF TypeInv, Claim, Serve, Settle, SettleAnswers, Judge,
     Throw, Read, Take, Look, ThrowRedeem, Write
<1>6. never' \subseteq Txs
  <2>1. CASE Judge(r)
    BY <2>1, <1>1 DEF Judge, Says, Confirm, Release, NothingYet, NeverLanded,
                      TypeInv
  <2>2. CASE Look(r)
    <3>1. never' = never \/ never' = never \cup {Mine(r).tx}
      BY <2>2 DEF Look, Looks, Says, NothingYet, NeverLanded
    <3>2. Mine(r).tx \in Txs
      BY <2>2 DEF Look, At, TypeInv, Shaped, Mine
    <3> QED BY <3>1, <3>2 DEF TypeInv
  <2>3. CASE ~Judge(r) /\ ~Look(r)
    BY <2>3 DEF TypeInv, Claim, Serve, Settle, SettleAnswers, Throw, Read, Take,
                ThrowRedeem, Write, seen
  <2> QED BY <2>1, <2>2, <2>3
<1>7. /\ paidFor' \in [Txs -> SUBSET Rqs] /\ marked' \in BOOLEAN
      /\ lostMarks' \in Nat
  <2>1. CASE Write(r)
    BY <2>1, <1>1 DEF Write, TypeInv, ReqRec
  <2>2. CASE Settle(r)
    BY <2>2, <1>1 DEF Settle, TypeInv
  <2>3. CASE ~Write(r) /\ ~Settle(r)
    BY <2>3 DEF TypeInv, Claim, Serve, SettleAnswers, Judge, Throw, Read, Take,
                Look, ThrowRedeem, seen, history
  <2> QED BY <2>1, <2>2, <2>3
<1> QED BY <1>2, <1>3, <1>4, <1>5, <1>6, <1>7 DEF TypeInv

LEMMA OpenTypes ==
  ASSUME TypeInv, NEW r \in Reqs, NEW k \in Kinds, Open(r, k)
  PROVE  TypeInv'
<1> USE XrplAssumption, StoreAssumption
<1> DEFINE n == Begun(opened + 1, k, now)
<1>1. opened + 1 \in Ids /\ opened' = opened + 1 /\ opened' \in 0..MaxReqs
      /\ now \in Time
  BY DEF Open, TypeInv, Ids
<1>2. n \in ReqRec
  BY <1>1, RecordsTyped
<1>3. n.id = opened + 1 /\ n.pc = "claim" /\ ~n.paid
  BY DEF Begun, Idle
<1>4. Becomes(r, n)
  BY DEF Open, Begun, Becomes
<1>5. req' \in [Reqs -> ReqRec] /\ IdsInv' /\ \A s \in Reqs : Shaped(req[s])'
  <2> HIDE DEF n
  <2> QED BY <1>1, <1>2, <1>3, <1>4, OneRecordTyped DEF TypeInv, Shaped
<1> QED BY <1>1, <1>5 DEF Open, TypeInv, external, seen, history

LEMMA LeaveTypes ==
  ASSUME TypeInv, NEW r \in Reqs, Reply(r) \/ Dies(r), UNCHANGED opened
  PROVE  TypeInv'
<1>1. /\ Becomes(r, Idle) /\ Idle \in ReqRec
      /\ Idle.pc = "idle" /\ Idle.id = 0 /\ ~Idle.paid
  BY ValueTypes DEF Reply, Dies, Becomes, Idle
<1>2. req' \in [Reqs -> ReqRec] /\ IdsInv' /\ \A s \in Reqs : Shaped(req[s])'
  BY <1>1, OneRecordTyped, StoreAssumption DEF TypeInv, Shaped
<1>3. attempt' \in [Insts -> Reqs \cup {None}]
  BY XrplAssumption DEF Reply, Dies, TypeInv
<1>4. delivered' \in Nat /\ told' \subseteq Txs
  BY DEF Reply, Dies, TypeInv, seen, history, ReqRec
<1> QED BY <1>2, <1>3, <1>4 DEF Reply, Dies, TypeInv, external, seen, history

LEMMA InitTypes == Init => TypeInv
<1> SUFFICES ASSUME Init PROVE TypeInv
  OBVIOUS
<1>1. /\ req \in [Reqs -> ReqRec]
      /\ \A r \in Reqs : req[r].pc = "idle" /\ req[r].id = 0 /\ ~req[r].paid
  BY ValueTypes DEF Init, Idle
<1>2. IdsInv /\ \A r \in Reqs : Shaped(req[r])
  BY <1>1 DEF Init, IdsInv, Shaped
<1>3. 0 \in Nat /\ 0 \in 0..MaxFaults /\ 0 \in 0..MaxReqs
  BY StoreAssumption
<1> QED BY <1>1, <1>2, <1>3, ValueTypes DEF Init, TypeInv

LEMMA WorldTypes ==
  ASSUME TypeInv, Tick \/ \E t \in Txs : Land(t) \/ Fail(t), UNCHANGED opened
  PROVE  TypeInv'
<1>1. UNCHANGED <<slot, faults, attempt, req, opened, seen>>
  BY DEF Tick, Land, Fail, Takes
<1>2. IdsInv' /\ \A r \in Reqs : Shaped(req[r])'
  BY <1>1 DEF TypeInv, IdsInv, Shaped
<1>3. led' \in [Txs -> {"none", "paid", "failed"}] /\ closed' \in [Txs -> Time]
      /\ now' \in Time
  BY StoreAssumption DEF Tick, Land, Fail, Takes, TypeInv, external, Time
<1> QED BY <1>1, <1>2, <1>3 DEF TypeInv, seen, history

LEMMA NextTypes == TypeInv /\ [Next]_vars => TypeInv'
<1> SUFFICES ASSUME TypeInv, [Next]_vars PROVE TypeInv'
  OBVIOUS
<1>1. CASE UNCHANGED vars
  BY <1>1 DEF vars, external, seen, history, TypeInv, IdsInv, Shaped
<1>2. CASE UNCHANGED opened /\ (Tick \/ \E t \in Txs : Land(t) \/ Fail(t))
  BY <1>2, WorldTypes
<1>3. ASSUME NEW r \in Reqs, NEW k \in Kinds, Open(r, k)
      PROVE  TypeInv'
  BY <1>3, OpenTypes
<1>4. ASSUME NEW r \in Reqs, Reply(r) \/ Dies(r), UNCHANGED opened
      PROVE  TypeInv'
  BY <1>4, LeaveTypes
<1>5. ASSUME NEW r \in Reqs, UNCHANGED opened,
             \/ Claim(r) \/ Serve(r) \/ Settle(r) \/ SettleAnswers(r) \/ Judge(r)
             \/ Throw(r) \/ Read(r) \/ Take(r) \/ Look(r) \/ ThrowRedeem(r)
             \/ Write(r)
      PROVE  TypeInv'
  BY <1>5, StepTypes
<1> QED BY <1>1, <1>2, <1>3, <1>4, <1>5 DEF Next

LEMMA Typing == Spec => []TypeInv
  BY InitTypes, NextTypes, PTL DEF Spec

\* Every variable keeps its type, on any number of requests and transactions.
THEOREM XrplTypes == Spec => []TypeOK
<1>1. TypeInv => TypeOK
  BY DEF TypeInv, IdsInv, TypeOK, ReqRec, Todos
<1> QED BY <1>1, Typing, PTL

----------------------------------------------------------------------------
(* Who holds the slot.  A request holds it from its claim or its lease to its *)
(* last write, and, if it was paid, to its answer: an error there writes the   *)
(* slot again.  At most one does, and the slot is what it wrote last.         *)

Owns(q) == \/ q.pc \in {"serve", "settle", "asked", "judge", "look", "write"}
           \/ q.pc = "reply" /\ q.paid
\* The delivered mark of a holder.
MarkOf(q) == IF q.val.st = "in_flight" THEN Settled
             ELSE [q.val EXCEPT !.st = "settled", !.lease = None]

Timely(q) == q.pc # "idle" => q.at <= now /\ now - q.at <= MaxReq
Begins(q) == q.pc = "claim" => q.fs = q.at
TakesOver(q) ==
  q.pc = "take" =>
    /\ q.fs >= q.at /\ q.val.rq = q.kind.rq
    /\ q.val.st \in {"in_flight", "settle_unconfirmed", "redeeming"}
    /\ q.val.st = "in_flight" => q.val.fs \in Time /\ now - q.val.fs >= Lease
    /\ q.val.st = "redeeming" => LeaseOver(q.val, now)
Holding(q) ==
  Owns(q) =>
    /\ q.val.own = q.id /\ q.val.rq = q.kind.rq /\ q.val.tx \in Txs
    /\ \/ q.val.st = "in_flight" /\ q.val.fs = q.at /\ q.val.tx = q.kind.tx
       \/ q.val.st = "redeeming" /\ q.val.lease \in Time /\ q.val.lease >= q.at
    /\ q.pc \in {"serve", "settle", "asked", "judge"} => q.val.st = "in_flight"
    /\ q.pc = "look" => q.val.st = "redeeming"
    /\ slot = q.val \/ slot = MarkOf(q)
    /\ slot # q.val => q.pc = "reply" \/ (q.pc = "write" /\ ~q.paid)
    /\ q.pc = "write" => /\ q.todo.next.st \notin {"redeeming", "in_flight"}
                         /\ q.paid => q.todo.next = MarkOf(q)
Fits(q) == Timely(q) /\ Begins(q) /\ TakesOver(q) /\ Holding(q)

Alone(r) == \A s \in Reqs : s # r => ~Owns(req[s])
SlotShape == /\ slot.st = "redeeming" => slot.lease # None
             /\ slot.st = "in_flight" => slot.fs \in Time
HoldInv == /\ SlotShape
           /\ \A r \in Reqs : Fits(req[r]) /\ (Owns(req[r]) => Alone(r))

\* Two records that differ at most in what a settle notes.
Alike(q, p) == /\ q.pc = p.pc /\ q.id = p.id /\ q.kind = p.kind /\ q.at = p.at
               /\ q.fs = p.fs /\ q.val = p.val /\ q.todo = p.todo
               /\ q.paid = p.paid /\ q.told = p.told

LEMMA OthersFit ==
  ASSUME TypeInv, HoldInv, TypeInv', NEW s \in Reqs, Alike(req'[s], req[s]),
         \/ now' = now
         \/ now' = now + 1 /\ (req[s].pc # "idle" => now - req[s].at < MaxReq),
         slot' = slot \/ ~Owns(req[s])
  PROVE  Fits(req[s])'
<1> DEFINE q == req[s]
<1>1. /\ q \in ReqRec /\ Fits(q)
      /\ now \in Nat /\ q.at \in Nat /\ now' \in Nat
      /\ MaxReq \in Nat /\ Lease \in Nat
      /\ q.val.lease \in Time \cup {None} /\ Time \subseteq Nat
  BY XrplAssumption, StoreAssumption
  DEF HoldInv, TypeInv, ReqRec, Time, Values
<1>2. (q.pc # "idle" => now - q.at < MaxReq) \/ now' = now
  OBVIOUS
<1>3. slot' = slot \/ ~Owns(q)
  OBVIOUS
<1>4. now' = now \/ now' = now + 1
  OBVIOUS
<1>5. /\ req'[s].pc = q.pc /\ req'[s].id = q.id /\ req'[s].kind = q.kind
      /\ req'[s].at = q.at /\ req'[s].fs = q.fs /\ req'[s].val = q.val
      /\ req'[s].todo = q.todo /\ req'[s].paid = q.paid
  BY DEF Alike
<1> HIDE DEF q
<1>6. Timely(req[s])' /\ Begins(req[s])'
  BY <1>1, <1>2, <1>4, <1>5 DEF Fits, Timely, Begins
<1>7. TakesOver(req[s])'
  <2>1. /\ q.val.fs \in Time => q.val.fs \in Nat
        /\ q.val.lease = None \/ q.val.lease \in Nat
    BY <1>1
  <2>2. LeaseOver(q.val, now) => LeaseOver(q.val, now')
    BY <2>1, <1>1, <1>4 DEF LeaseOver
  <2>3. q.val.fs \in Time /\ now - q.val.fs >= Lease => now' - q.val.fs >= Lease
    BY <2>1, <1>1, <1>4
  <2> QED BY <1>1, <1>5, <2>2, <2>3 DEF Fits, TakesOver, LeaseOver
<1>8. Holding(req[s])'
  BY <1>1, <1>3, <1>5 DEF Fits, Holding, Owns, MarkOf
<1> QED BY <1>6, <1>7, <1>8 DEF Fits

\* A step of r that leaves the others' records, but for a note, and writes the
\* slot only if nobody else holds it.
LEMMA HoldStep ==
  ASSUME TypeInv, HoldInv, TypeInv', NEW r \in Reqs, now' = now,
         \A s \in Reqs : s # r => Alike(req'[s], req[s]),
         Fits(req[r])', SlotShape', slot' = slot \/ Alone(r),
         Owns(req[r])' => Alone(r)
  PROVE  HoldInv'
<1>1. \A s \in Reqs : Fits(req[s])'
  <2> SUFFICES ASSUME NEW s \in Reqs, s # r PROVE Fits(req[s])'
    OBVIOUS
  <2>1. slot' = slot \/ ~Owns(req[s])
    BY DEF Alone
  <2> QED BY <2>1, OthersFit
<1>2. \A s \in Reqs : s # r => (Owns(req[s])' <=> Owns(req[s]))
  BY DEF Owns, Alike
<1>3. ASSUME NEW s \in Reqs, Owns(req[s])'
      PROVE  Alone(s)'
  <2>1. CASE s = r
    BY <1>2, <1>3, <2>1 DEF Alone
  <2>2. CASE s # r
    <3>1. Alone(s) /\ ~Owns(req[r])'
      BY <1>2, <1>3, <2>2 DEF HoldInv, Alone
    <3> QED BY <1>2, <3>1 DEF Alone
  <2> QED BY <2>1, <2>2
<1> QED BY <1>1, <1>3 DEF HoldInv

\* The same for a step whose new record is known and that leaves the slot alone.
LEMMA HoldQuietly ==
  ASSUME TypeInv, HoldInv, TypeInv', NEW r \in Reqs, NEW n \in ReqRec,
         Becomes(r, n), UNCHANGED <<slot, now>>, Fits(n),
         Owns(n) => Owns(req[r])
  PROVE  HoldInv'
<1>1. /\ req'[r] = n /\ \A s \in Reqs : s # r => req'[s] = req[s]
  BY DEF Becomes, TypeInv
<1>2. Fits(req[r])'
  BY <1>1 DEF Fits, Timely, Begins, TakesOver, LeaseOver, Holding, Owns, MarkOf
<1>3. SlotShape'
  BY DEF HoldInv, SlotShape
<1>4. Owns(req[r])' => Alone(r)
  BY <1>1 DEF Owns, HoldInv
<1>5. \A s \in Reqs : s # r => Alike(req'[s], req[s])
  BY <1>1 DEF Alike
<1> QED BY <1>2, <1>3, <1>4, <1>5, HoldStep

\* A holder's last write, and one that gives up.
LEMMA EndsHold ==
  ASSUME TypeInv, HoldInv, TypeInv', NEW r \in Reqs, Owns(req[r]),
         NEW op \in Ops, NEW v \in Values, NEW a \in Replies,
         v.st \notin {"redeeming", "in_flight"},
         a = "200" => slot = Mine(r) /\ v = MarkOf(req[r]),
         Ends(r, op, v, a), UNCHANGED <<slot, now>>
  PROVE  HoldInv'
<1> DEFINE q == req[r]
           n == Ended(q, op, v, a)
<1>1. /\ req \in [Reqs -> ReqRec] /\ q \in ReqRec /\ Fits(q)
  BY DEF TypeInv, HoldInv
<1>2. n \in ReqRec /\ Becomes(r, n)
  <2>1. n \in ReqRec
    BY <1>1, RecordsTyped
  <2> QED BY <2>1, <1>1, Moves
<1>3. /\ n.pc = "write" /\ n.todo.next = v /\ n.paid = (a = "200")
      /\ n.at = q.at /\ n.val = q.val /\ n.kind = q.kind /\ n.id = q.id
  BY <1>1 DEF Ended, ReqRec
<1>4. Mine(r) = q.val /\ Owns(q) /\ q.pc # "idle"
  BY DEF Mine, Owns
<1>5. a = "200" => slot = q.val /\ v = MarkOf(q)
  BY <1>4
<1> HIDE DEF q, n
<1>6. Fits(n)
  BY <1>1, <1>3, <1>4, <1>5
  DEF Fits, Timely, Begins, TakesOver, Holding, Owns, MarkOf
<1> QED BY <1>2, <1>4, <1>6, HoldQuietly DEF q

LEMMA StandsBackHold ==
  ASSUME TypeInv, HoldInv, TypeInv', NEW r \in Reqs, req[r].pc # "idle",
         NEW l \in {"reply", "read"}, ~req[r].paid, req' = Goto(r, l),
         UNCHANGED <<slot, now>>
  PROVE  HoldInv'
<1> DEFINE q == req[r]
           n == MovedTo(q, l)
<1>1. /\ req \in [Reqs -> ReqRec] /\ q \in ReqRec /\ Fits(q) /\ ~q.paid
      /\ q.pc # "idle"
  BY DEF TypeInv, HoldInv
<1>2. n \in ReqRec /\ Becomes(r, n)
  <2>1. n \in ReqRec
    BY <1>1, RecordsTyped DEF Steps
  <2> QED BY <2>1, <1>1, Moves
<1>3. n.pc = l /\ n.paid = q.paid /\ n.at = q.at
  BY <1>1 DEF MovedTo, ReqRec
<1> HIDE DEF q, n
<1>4. Fits(n) /\ ~Owns(n)
  BY <1>1, <1>3 DEF Fits, Timely, Begins, TakesOver, Holding, Owns
<1> QED BY <1>2, <1>4, HoldQuietly

\* A slot that was released or told the outcome of is nobody's.
LEMMA NobodyHolds ==
  ASSUME TypeInv, HoldInv, slot.st \notin {"in_flight", "redeeming", "settled"}
  PROVE  \A s \in Reqs : ~Owns(req[s])
<1> SUFFICES ASSUME NEW s \in Reqs, Owns(req[s]) PROVE FALSE
  OBVIOUS
<1> DEFINE q == req[s]
<1>1. Holding(q) /\ q \in ReqRec
  BY DEF HoldInv, Fits, TypeInv
<1>2. MarkOf(q).st = "settled"
  BY <1>1 DEF MarkOf, Settled, Bare, ReqRec, Values
<1> QED BY <1>1, <1>2 DEF Holding

\* What somebody may take over is nobody's: a holder is gone after MaxReq, and a
\* lease or a claim lapses later.
LEMMA LapsedMeans ==
  ASSUME TypeInv, HoldInv, NEW r \in Reqs, At(r, "take"), Holds(Mine(r))
  PROVE  \A s \in Reqs : ~Owns(req[s])
<1> SUFFICES ASSUME NEW s \in Reqs, Owns(req[s]) PROVE FALSE
  OBVIOUS
<1> DEFINE q == req[s]
<1>1. /\ TakesOver(req[r]) /\ slot = req[r].val /\ req[r].pc = "take"
      /\ Timely(q) /\ Holding(q) /\ SlotShape /\ q \in ReqRec
  BY DEF HoldInv, Fits, Holds, Mine, At, TypeInv
<1>2. /\ slot.st \in {"in_flight", "settle_unconfirmed", "redeeming"}
      /\ slot.st = "in_flight" => slot.fs \in Time /\ now - slot.fs >= Lease
      /\ slot.st = "redeeming" => LeaseOver(slot, now)
  BY <1>1 DEF TakesOver
<1>3. slot = q.val
  <2>1. slot = q.val \/ slot = MarkOf(q)
    BY <1>1 DEF Holding
  <2>2. MarkOf(q).st = "settled"
    BY <1>1 DEF MarkOf, Settled, Bare, ReqRec, Values
  <2> QED BY <2>1, <2>2, <1>2
<1>4. /\ q.at \in Nat /\ now \in Nat /\ MaxReq \in Nat /\ Lease \in Nat
      /\ MaxReq < Lease
  BY <1>1, XrplAssumption, StoreAssumption, LeaseAssumption
  DEF TypeInv, ReqRec, Time
<1>5. now - q.at <= MaxReq
  BY <1>1 DEF Timely, Owns
<1>6. CASE slot.st = "in_flight"
  <2>1. slot.fs = q.at
    BY <1>1, <1>3, <1>6 DEF Holding
  <2> QED BY <2>1, <1>2, <1>4, <1>5, <1>6
<1>7. CASE slot.st = "redeeming"
  <2>1. slot.lease \in Time /\ slot.lease >= q.at
    BY <1>1, <1>3, <1>7 DEF Holding
  <2>2. slot.lease \in Nat /\ slot.lease # None
    BY <2>1, StoreAssumption DEF Time
  <2> QED BY <2>1, <2>2, <1>2, <1>4, <1>5, <1>7 DEF LeaseOver
<1> QED BY <1>2, <1>3, <1>6, <1>7, <1>1 DEF Holding

LEMMA OpenHold ==
  ASSUME TypeInv, HoldInv, TypeInv', NEW r \in Reqs, NEW k \in Kinds, Open(r, k)
  PROVE  HoldInv'
<1> DEFINE n == Begun(opened + 1, k, now)
<1>1. opened + 1 \in Ids /\ now \in Time /\ now \in Nat
  BY StoreAssumption DEF Open, TypeInv, Ids, Time
<1>2. n \in ReqRec
  BY <1>1, RecordsTyped
<1>3. n.pc = "claim" /\ ~n.paid /\ n.at = now /\ n.fs = now
  BY DEF Begun, Idle
<1>4. Becomes(r, n) /\ UNCHANGED <<slot, now>>
  BY DEF Open, Begun, Becomes
<1> HIDE DEF n
<1>5. Fits(n) /\ ~Owns(n)
  BY <1>1, <1>3, XrplAssumption
  DEF Fits, Timely, Begins, TakesOver, Holding, Owns
<1> QED BY <1>2, <1>4, <1>5, HoldQuietly

LEMMA ClaimHold ==
  ASSUME TypeInv, HoldInv, TypeInv', NEW r \in Reqs, Claim(r)
  PROVE  HoldInv'
<1> DEFINE q == req[r]
           v == ClaimOf(r)
           n == Claimed(q, v)
<1>1. /\ req \in [Reqs -> ReqRec] /\ q \in ReqRec /\ q.pc = "claim" /\ ~q.paid
      /\ Timely(q) /\ q.fs = q.at /\ v \in Values /\ now' = now
      /\ q.kind.tx \in Txs
  BY ValueTypes DEF Claim, At, TypeInv, Shaped, HoldInv, Fits, Begins, ReqRec,
                    seen, history
<1>2. CASE slot' = slot /\ \E l \in {"reply", "read"} : req' = Goto(r, l)
  BY <1>1, <1>2, StandsBackHold
<1>3. CASE /\ Holds(Free) /\ slot' = v
           /\ req' = [req EXCEPT ![r].pc = "serve", ![r].val = v]
  <2>1. n \in ReqRec /\ Becomes(r, n)
    BY <1>1, <1>3, RecordsTyped, Moves
  <2>2. /\ n.pc = "serve" /\ n.val = v /\ n.at = q.at /\ n.kind = q.kind
        /\ n.id = q.id /\ n.paid = q.paid
    BY <1>1 DEF Claimed, ReqRec
  <2>3. /\ v.st = "in_flight" /\ v.fs = q.at /\ v.own = q.id
        /\ v.tx = q.kind.tx /\ v.rq = q.kind.rq
    BY <1>1 DEF ClaimOf, Tx
  <2>4. \A s \in Reqs : ~Owns(req[s])
    BY <1>3, NobodyHolds DEF Holds, Free, Bare
  <2>5. /\ req'[r] = n /\ \A s \in Reqs : s # r => req'[s] = req[s]
    BY <2>1, <1>1 DEF Becomes
  <2>6. /\ req'[r].pc = "serve" /\ req'[r].val = v /\ req'[r].at = q.at
        /\ req'[r].kind = q.kind /\ req'[r].id = q.id
    BY <2>2, <2>5
  <2> HIDE DEF n, q, v
  <2>7. Fits(req[r])'
    BY <1>1, <1>3, <2>6, <2>3 DEF Fits, Timely, Begins, TakesOver, Holding, Owns
  <2>8. SlotShape'
    BY <1>1, <1>3, <2>3 DEF SlotShape, ReqRec
  <2>9. Alone(r) /\ \A s \in Reqs : s # r => Alike(req'[s], req[s])
    BY <2>4, <2>5 DEF Alone, Alike
  <2> QED BY <1>1, <2>7, <2>8, <2>9, HoldStep
<1>4. CASE req' = Goto(r, "reply") /\ Holds(Free) /\ slot' \in {slot, v}
  <2>1. Becomes(r, MovedTo(q, "reply"))
    BY <1>1, <1>4, Moves
  <2>2. MovedTo(q, "reply").pc = "reply" /\ ~MovedTo(q, "reply").paid
        /\ MovedTo(q, "reply").at = q.at
    BY <1>1 DEF MovedTo, ReqRec
  <2>3. /\ req'[r].pc = "reply" /\ ~req'[r].paid /\ req'[r].at = q.at
        /\ \A s \in Reqs : s # r => req'[s] = req[s]
    BY <2>1, <2>2, <1>1 DEF Becomes
  <2>4. \A s \in Reqs : ~Owns(req[s])
    BY <1>4, NobodyHolds DEF Holds, Free, Bare
  <2>5. Fits(req[r])' /\ ~Owns(req[r])'
    <3> HIDE DEF q
    <3> QED BY <2>3, <1>1 DEF Fits, Timely, Begins, TakesOver, Holding, Owns
  <2>6. SlotShape'
    <3>1. v.st = "in_flight" /\ v.fs = q.at
      BY <1>1 DEF ClaimOf, Tx
    <3> QED BY <3>1, <1>1, <1>4 DEF SlotShape, ReqRec, HoldInv
  <2>7. Alone(r) /\ \A s \in Reqs : s # r => Alike(req'[s], req[s])
    BY <2>3, <2>4 DEF Alone, Alike
  <2> QED BY <1>1, <2>5, <2>6, <2>7, HoldStep
<1> HIDE DEF q, n
<1> QED BY <1>2, <1>3, <1>4 DEF Claim, Answered, Lost, SetNX, Refused

LEMMA ServeHold ==
  ASSUME TypeInv, HoldInv, TypeInv', NEW r \in Reqs, Serve(r)
  PROVE  HoldInv'
<1> DEFINE q == req[r]
<1>1. /\ req \in [Reqs -> ReqRec] /\ q \in ReqRec /\ q.pc = "serve" /\ Fits(q)
      /\ UNCHANGED <<slot, now>>
  BY DEF Serve, At, TypeInv, HoldInv
<1>2. Owns(q)
  BY <1>1 DEF Owns
<1>3. ASSUME NEW a \in {"402", "no"}, Release(r, a)
      PROVE  HoldInv'
  <2>1. Free \in Values /\ Free.st = "free" /\ "del" \in Ops /\ a \in Replies
    BY ValueTypes DEF Free, Bare, Ops, Replies
  <2> QED BY <2>1, <1>1, <1>2, <1>3, EndsHold DEF Release
<1>4. ASSUME NEW ran \in BOOLEAN,
             req' = [req EXCEPT ![r].pc = "settle", ![r].ran = ran]
      PROVE  HoldInv'
  <2> DEFINE n == Served(q, ran)
  <2>1. n \in ReqRec /\ Becomes(r, n)
    BY <1>1, <1>4, RecordsTyped, Moves
  <2>2. /\ n.pc = "settle" /\ n.val = q.val /\ n.at = q.at /\ n.kind = q.kind
        /\ n.id = q.id
    BY <1>1 DEF Served, ReqRec
  <2> HIDE DEF n, q
  <2>3. Fits(n)
    BY <1>1, <2>2 DEF Fits, Timely, Begins, TakesOver, Holding, Owns, MarkOf
  <2> QED BY <2>1, <2>3, <1>1, <1>2, HoldQuietly DEF q
<1> QED BY <1>3, <1>4 DEF Serve

LEMMA SettleHold ==
  ASSUME TypeInv, HoldInv, TypeInv', NEW r \in Reqs, Settle(r)
  PROVE  HoldInv'
<1> DEFINE q == req[r]
<1>1. /\ req \in [Reqs -> ReqRec] /\ q \in ReqRec /\ q.pc = "settle" /\ Fits(q)
      /\ UNCHANGED <<slot, now>> /\ Known(r) \in Reqs \cup {None}
  BY XrplAssumption DEF Settle, At, TypeInv, HoldInv, Known
<1>2. PICK ask \in {"sent", "refused"} :
        req' = [req EXCEPT ![r].pc = "asked", ![r].ask = ask, ![r].att = Known(r)]
  BY DEF Settle
<1> DEFINE n == Asked(q, ask, Known(r))
<1>3. n \in ReqRec /\ Becomes(r, n)
  BY <1>1, <1>2, RecordsTyped, Moves
<1>4. /\ n.pc = "asked" /\ n.val = q.val /\ n.at = q.at /\ n.kind = q.kind
      /\ n.id = q.id
  BY <1>1 DEF Asked, ReqRec
<1>5. Owns(q)
  BY <1>1 DEF Owns
<1> HIDE DEF n, q
<1>6. Fits(n)
  BY <1>1, <1>4 DEF Fits, Timely, Begins, TakesOver, Holding, Owns, MarkOf
<1> QED BY <1>1, <1>3, <1>5, <1>6, HoldQuietly DEF q

LEMMA SettleAnswersHold ==
  ASSUME TypeInv, HoldInv, TypeInv', NEW r \in Reqs, SettleAnswers(r)
  PROVE  HoldInv'
<1> DEFINE q == req[r]
<1>1. PICK out \in Outcomes(r), o \in BOOLEAN :
        \A s \in Reqs :
          LET p == IF s = r THEN Heard(req[s]) ELSE req[s]
          IN  req'[s] = IF s = req[r].att THEN NotedIn(p, out, o) ELSE p
  BY AnswerMoves
<1>2. /\ q \in ReqRec /\ q.pc = "asked" /\ Fits(q) /\ UNCHANGED <<slot, now>>
      /\ Heard(q) \in ReqRec
  BY RecordsTyped DEF SettleAnswers, At, TypeInv, HoldInv
<1>3. \A p \in ReqRec : Alike(NotedIn(p, out, o), p)
  BY DEF NotedIn, Alike, ReqRec
<1>4. \A s \in Reqs : s # r => Alike(req'[s], req[s])
  <2> SUFFICES ASSUME NEW s \in Reqs, s # r PROVE Alike(req'[s], req[s])
    OBVIOUS
  <2>1. req'[s] = (IF s = req[r].att THEN NotedIn(req[s], out, o) ELSE req[s])
        /\ req[s] \in ReqRec
    BY <1>1 DEF TypeInv
  <2> QED BY <2>1, <1>3 DEF Alike
<1>5. Alike(req'[r], Heard(q))
  <2>1. req'[r] = IF r = req[r].att THEN NotedIn(Heard(q), out, o) ELSE Heard(q)
    BY <1>1
  <2> QED BY <2>1, <1>2, <1>3 DEF Alike
<1>6. /\ req'[r].pc = "judge" /\ req'[r].val = q.val /\ req'[r].at = q.at
      /\ req'[r].kind = q.kind /\ req'[r].id = q.id
  BY <1>2, <1>5 DEF Heard, Alike, ReqRec
<1>7. Owns(q)
  BY <1>2 DEF Owns
<1>8. SlotShape' /\ Alone(r)
  BY <1>2, <1>7 DEF HoldInv, SlotShape
<1> HIDE DEF q
<1>9. Fits(req[r])'
  BY <1>2, <1>6 DEF Fits, Timely, Begins, TakesOver, Holding, Owns, MarkOf
<1> QED BY <1>2, <1>4, <1>8, <1>9, HoldStep

LEMMA JudgeHold ==
  ASSUME TypeInv, HoldInv, TypeInv', NEW r \in Reqs, Judge(r)
  PROVE  HoldInv'
<1> DEFINE q == req[r]
<1>1. /\ q \in ReqRec /\ q.pc = "judge" /\ Fits(q) /\ UNCHANGED <<slot, now>>
      /\ Owns(q) /\ Mine(r) = q.val /\ q.pc # "idle"
  BY DEF Judge, At, TypeInv, HoldInv, Owns, Mine
<1>2. slot = Mine(r) /\ MarkOf(q) = Settled
  BY <1>1 DEF Fits, Holding, MarkOf
<1>3. /\ Free \in Values /\ Failed \in Values /\ Settled \in Values
      /\ Undelivered(r) \in Values /\ Manual(r) \in Values
  BY <1>1, ValueTypes
<1>4. /\ Free.st = "free" /\ Failed.st = "settle_failed" /\ Settled.st = "settled"
      /\ Undelivered(r).st = "settle_unconfirmed"
      /\ Manual(r).st = "settle_unconfirmed"
  BY <1>1 DEF Free, Failed, Settled, Bare, Undelivered, Manual, ReqRec, Values
<1>5. ASSUME NEW op \in Ops, NEW a \in Replies,
             NEW v \in {Free, Failed, Settled, Undelivered(r), Manual(r)},
             a = "200" => v = Settled, Ends(r, op, v, a)
      PROVE  HoldInv'
  <2>1. v \in Values /\ v.st \notin {"redeeming", "in_flight"}
    BY <1>3, <1>4
  <2>2. a = "200" => slot = Mine(r) /\ v = MarkOf(req[r])
    BY <1>2, <1>5
  <2> QED BY <2>1, <2>2, <1>1, <1>5, EndsHold
<1> HIDE DEF q
<1> QED BY <1>5 DEF Judge, Says, Confirm, Release, NothingYet, Ops, Replies

LEMMA ThrowHold ==
  ASSUME TypeInv, HoldInv, TypeInv', NEW r \in Reqs, Throw(r)
  PROVE  HoldInv'
<1> DEFINE q == req[r]
<1>1. /\ req \in [Reqs -> ReqRec] /\ q \in ReqRec /\ Fits(q) /\ Owns(q)
      /\ UNCHANGED <<slot, now>> /\ q.pc # "idle" /\ Known(r) \in Reqs \cup {None}
  BY XrplAssumption DEF Throw, Throws, At, TypeInv, HoldInv, Owns, Known
<1>2. CASE Release(r, "402")
  <2>1. Free \in Values /\ Free.st = "free" /\ "del" \in Ops /\ "402" \in Replies
    BY ValueTypes DEF Free, Bare, Ops, Replies
  <2> QED BY <2>1, <1>1, <1>2, EndsHold DEF Release
<1>3. CASE req' = [Refused(r) EXCEPT ![r].paid = FALSE, ![r].told = Judged(r)]
  <2> DEFINE n == Rejected(q)
  <2>1. n \in ReqRec /\ Becomes(r, n)
    BY <1>1, <1>3, RecordsTyped, Moves
  <2>2. n.pc = "reply" /\ ~n.paid /\ n.at = q.at
    BY <1>1 DEF Rejected, ReqRec
  <2> HIDE DEF n, q
  <2>3. Fits(n) /\ ~Owns(n)
    BY <1>1, <2>2 DEF Fits, Timely, Begins, TakesOver, Holding, Owns
  <2> QED BY <2>1, <2>3, <1>1, HoldQuietly
<1>4. ASSUME NEW s \in Reqs,
             Ends(r, "set", [Undelivered(r) EXCEPT !.tx = Tx(s),
                                !.rq = req[s].kind.rq], "no")
      PROVE  HoldInv'
  <2> DEFINE v == [Undelivered(r) EXCEPT !.tx = Tx(s), !.rq = req[s].kind.rq]
  <2>1. v \in Values /\ v.st = "settle_unconfirmed"
    BY <1>1, ValueTypes DEF Undelivered, Mine, ReqRec, Values
  <2>2. "set" \in Ops /\ "no" \in Replies /\ "no" # "200"
    BY DEF Ops, Replies
  <2> HIDE DEF v
  <2> QED BY <2>1, <2>2, <1>1, <1>4, EndsHold DEF v
<1> QED BY <1>1, <1>2, <1>3, <1>4 DEF Throw

LEMMA ReadHold ==
  ASSUME TypeInv, HoldInv, TypeInv', NEW r \in Reqs, Read(r)
  PROVE  HoldInv'
<1> DEFINE q == req[r]
<1>1. /\ req \in [Reqs -> ReqRec] /\ q \in ReqRec /\ q.pc = "read" /\ ~q.paid
      /\ Fits(q) /\ UNCHANGED <<slot, now>> /\ SlotShape /\ slot \in Values
      /\ now \in Time
  BY DEF Read, Throws, At, TypeInv, Shaped, HoldInv
<1>2. CASE req' = Refused(r)
  BY <1>1, <1>2, StandsBackHold DEF Refused
<1>3. ASSUME NEW m \in BOOLEAN, Redeems(r, slot, m),
             req' = [req EXCEPT ![r].pc = "take", ![r].val = slot, ![r].fs = now]
      PROVE  HoldInv'
  <2> DEFINE n == HasRead(q, "take", slot, now)
  <2>1. n \in ReqRec /\ Becomes(r, n)
    BY <1>1, <1>3, RecordsTyped, Moves DEF Steps
  <2>2. /\ n.pc = "take" /\ n.val = slot /\ n.fs = now /\ n.at = q.at
        /\ n.kind = q.kind /\ n.paid = q.paid
    BY <1>1 DEF HasRead, ReqRec
  <2>3. /\ slot.st \in {"in_flight", "settle_unconfirmed", "redeeming"}
        /\ slot.st = "in_flight" => slot.fs \in Time /\ now - slot.fs >= Lease
        /\ slot.rq = q.kind.rq
        /\ slot.st = "redeeming" => LeaseOver(slot, now)
    BY <1>1, <1>3 DEF Redeems, Stale, Matches, SlotShape
  <2> HIDE DEF n, q
  <2>4. Fits(n) /\ ~Owns(n)
    BY <1>1, <2>2, <2>3 DEF Fits, Timely, Begins, TakesOver, Holding, Owns
  <2> QED BY <1>1, <2>1, <2>4, HoldQuietly
<1> QED BY <1>2, <1>3 DEF Read

LEMMA TakeHold ==
  ASSUME TypeInv, HoldInv, TypeInv', NEW r \in Reqs, Take(r)
  PROVE  HoldInv'
<1> DEFINE q == req[r]
           v == LeaseOf(r)
<1>1. /\ req \in [Reqs -> ReqRec] /\ q \in ReqRec /\ q.pc = "take" /\ ~q.paid
      /\ Fits(q) /\ now' = now /\ SlotShape /\ q.val.tx \in Txs
      /\ q.at \in Time /\ v \in Values /\ Mine(r) = q.val
  BY ValueTypes DEF Take, At, TypeInv, Shaped, HoldInv, ReqRec, seen, history, Mine
<1>2. /\ v.st = "redeeming" /\ v.own = q.id /\ v.rq = q.kind.rq /\ v.tx = q.val.tx
      /\ v.lease = q.fs /\ q.fs \in Time /\ q.fs >= q.at /\ v.lease # None
  <2>1. /\ v.st = "redeeming" /\ v.own = q.id /\ v.rq = q.val.rq
        /\ v.tx = q.val.tx /\ v.lease = q.fs
    BY <1>1 DEF LeaseOf, ReqRec, Values
  <2>2. q.val.rq = q.kind.rq /\ q.fs >= q.at
    BY <1>1 DEF Fits, TakesOver
  <2>3. q.fs \in Time /\ q.fs # None
    BY <1>1, StoreAssumption DEF ReqRec, Time
  <2> QED BY <2>1, <2>2, <2>3
<1>3. CASE slot' = slot /\ req' = Refused(r)
  BY <1>1, <1>3, StandsBackHold DEF Refused
<1>4. CASE /\ Holds(Mine(r)) /\ slot' = v
           /\ req' = [req EXCEPT ![r].pc = "look", ![r].val = v,
                                 ![r].fs = req[r].at]
  <2> DEFINE n == HasRead(q, "look", v, q.at)
  <2>1. n \in ReqRec /\ Becomes(r, n)
    BY <1>1, <1>4, RecordsTyped, Moves DEF Steps
  <2>2. /\ n.pc = "look" /\ n.val = v /\ n.at = q.at /\ n.kind = q.kind
        /\ n.id = q.id
    BY <1>1 DEF HasRead, ReqRec
  <2>3. \A s \in Reqs : ~Owns(req[s])
    BY <1>1, <1>4, LapsedMeans DEF At
  <2>4. /\ req'[r] = n /\ \A s \in Reqs : s # r => req'[s] = req[s]
    BY <2>1, <1>1 DEF Becomes
  <2>5. /\ req'[r].pc = "look" /\ req'[r].val = v /\ req'[r].at = q.at
        /\ req'[r].kind = q.kind /\ req'[r].id = q.id
    BY <2>2, <2>4
  <2>6. SlotShape'
    BY <1>2, <1>4 DEF SlotShape
  <2>7. Alone(r) /\ \A s \in Reqs : s # r => Alike(req'[s], req[s])
    BY <2>3, <2>4 DEF Alone, Alike
  <2> HIDE DEF n, q, v
  <2>8. Fits(req[r])'
    BY <1>1, <1>2, <1>4, <2>5 DEF Fits, Timely, Begins, TakesOver, Holding, Owns
  <2> QED BY <1>1, <2>6, <2>7, <2>8, HoldStep
<1>5. CASE req' = Refused(r) /\ Holds(Mine(r)) /\ slot' \in {slot, v}
  <2>1. Becomes(r, MovedTo(q, "reply"))
    BY <1>1, <1>5, Moves DEF Refused
  <2>2. MovedTo(q, "reply").pc = "reply" /\ ~MovedTo(q, "reply").paid
        /\ MovedTo(q, "reply").at = q.at
    BY <1>1 DEF MovedTo, ReqRec
  <2>3. /\ req'[r].pc = "reply" /\ ~req'[r].paid /\ req'[r].at = q.at
        /\ \A s \in Reqs : s # r => req'[s] = req[s]
    BY <2>1, <2>2, <1>1 DEF Becomes
  <2>4. \A s \in Reqs : ~Owns(req[s])
    BY <1>1, <1>5, LapsedMeans DEF At
  <2>5. Fits(req[r])' /\ ~Owns(req[r])'
    <3> HIDE DEF q
    <3> QED BY <2>3, <1>1 DEF Fits, Timely, Begins, TakesOver, Holding, Owns
  <2>6. SlotShape'
    BY <1>1, <1>2, <1>5 DEF SlotShape
  <2>7. Alone(r) /\ \A s \in Reqs : s # r => Alike(req'[s], req[s])
    BY <2>3, <2>4 DEF Alone, Alike
  <2> QED BY <1>1, <2>5, <2>6, <2>7, HoldStep
<1> HIDE DEF q
<1> QED BY <1>3, <1>4, <1>5 DEF Take, Answered, Lost, CompareAndSet, Holds

LEMMA LookHold ==
  ASSUME TypeInv, HoldInv, TypeInv', NEW r \in Reqs, Look(r)
  PROVE  HoldInv'
<1> DEFINE q == req[r]
<1>1. /\ q \in ReqRec /\ q.pc = "look" /\ Fits(q) /\ UNCHANGED <<slot, now>>
      /\ Owns(q) /\ Mine(r) = q.val /\ q.pc # "idle"
  BY DEF Look, At, TypeInv, HoldInv, Owns, Mine
<1>2. slot = Mine(r) /\ MarkOf(q) = Delivered(r)
  BY <1>1 DEF Fits, Holding, MarkOf, Delivered
<1>3. /\ Free \in Values /\ Failed \in Values /\ Undelivered(r) \in Values
      /\ Delivered(r) \in Values
  BY <1>1, ValueTypes
<1>4. /\ Free.st = "free" /\ Failed.st = "settle_failed"
      /\ Undelivered(r).st = "settle_unconfirmed"
      /\ Delivered(r).st = "settled"
  BY <1>1 DEF Free, Failed, Delivered, Bare, Undelivered, ReqRec, Values
<1>5. ASSUME NEW op \in Ops, NEW a \in Replies,
             NEW v \in {Free, Failed, Undelivered(r), Delivered(r)},
             a = "200" => v = Delivered(r), Ends(r, op, v, a)
      PROVE  HoldInv'
  <2>1. v \in Values /\ v.st \notin {"redeeming", "in_flight"}
    BY <1>3, <1>4
  <2>2. a = "200" => slot = Mine(r) /\ v = MarkOf(req[r])
    BY <1>2, <1>5
  <2> QED BY <2>1, <2>2, <1>1, <1>5, EndsHold
<1> HIDE DEF q
<1> QED BY <1>5 DEF Look, Looks, Says, NothingYet, Ops, Replies

LEMMA ThrowRedeemHold ==
  ASSUME TypeInv, HoldInv, TypeInv', NEW r \in Reqs, ThrowRedeem(r)
  PROVE  HoldInv'
<1>1. /\ req[r] \in ReqRec /\ Owns(req[r]) /\ UNCHANGED <<slot, now>>
      /\ req[r].pc # "idle" /\ Ends(r, "casany", Undelivered(r), "no")
  BY DEF ThrowRedeem, Throws, At, TypeInv, Owns
<1>2. Undelivered(r) \in Values /\ Undelivered(r).st = "settle_unconfirmed"
  BY <1>1, ValueTypes DEF Undelivered, Mine, ReqRec, Values
<1> QED BY <1>1, <1>2, EndsHold DEF Ops, Replies

LEMMA WriteHold ==
  ASSUME TypeInv, HoldInv, TypeInv', NEW r \in Reqs, Write(r)
  PROVE  HoldInv'
<1> DEFINE q == req[r]
           n == MovedTo(q, "reply")
<1>1. /\ req \in [Reqs -> ReqRec] /\ q \in ReqRec /\ q.pc = "write" /\ Fits(q)
      /\ now' = now /\ Owns(q) /\ Alone(r) /\ Shaped(q) /\ SlotShape
      /\ req' = Goto(r, "reply")
  BY DEF Write, At, TypeInv, HoldInv, Owns
<1>2. slot' \in {slot, q.todo.next}
  <2>1. slot' \in {slot, After(r)}
    BY DEF Write, Answered, Lost
  <2>2. After(r) \in {slot, q.todo.next}
    BY <1>1 DEF After, Shaped, Ops, Put, Del, CompareAndSet, CompareAndDelete
  <2> QED BY <2>1, <2>2
<1>3. Becomes(r, n)
  BY <1>1, Moves
<1>4. /\ n.pc = "reply" /\ n.paid = q.paid /\ n.at = q.at /\ n.val = q.val
      /\ n.kind = q.kind /\ n.id = q.id
  BY <1>1 DEF MovedTo, ReqRec
<1>5. /\ req'[r] = n /\ \A s \in Reqs : s # r => req'[s] = req[s]
  BY <1>1, <1>3 DEF Becomes
<1>6. /\ req'[r].pc = "reply" /\ req'[r].paid = q.paid /\ req'[r].at = q.at
      /\ req'[r].val = q.val /\ req'[r].kind = q.kind /\ req'[r].id = q.id
  BY <1>4, <1>5
<1>7. q.todo.next.st \notin {"redeeming", "in_flight"}
      /\ (q.paid => q.todo.next = MarkOf(q))
  BY <1>1 DEF Fits, Holding
<1>8. SlotShape'
  BY <1>1, <1>2, <1>7 DEF SlotShape
<1>9. \A s \in Reqs : s # r => Alike(req'[s], req[s])
  BY <1>5 DEF Alike
<1> HIDE DEF q, n
<1>10. Fits(req[r])'
  BY <1>1, <1>2, <1>6, <1>7
  DEF Fits, Timely, Begins, TakesOver, Holding, Owns, MarkOf
<1> QED BY <1>1, <1>8, <1>9, <1>10, HoldStep

LEMMA LeaveHold ==
  ASSUME TypeInv, HoldInv, TypeInv', NEW r \in Reqs, Reply(r) \/ Dies(r)
  PROVE  HoldInv'
<1>1. Becomes(r, Idle) /\ UNCHANGED <<slot, now>>
  BY DEF Reply, Dies, Becomes, seen, history
<1>2. Idle \in ReqRec /\ Idle.pc = "idle"
  BY ValueTypes DEF Idle
<1>3. Fits(Idle) /\ ~Owns(Idle)
  BY <1>2 DEF Fits, Timely, Begins, TakesOver, Holding, Owns
<1> QED BY <1>1, <1>2, <1>3, HoldQuietly

LEMMA WorldHold ==
  ASSUME TypeInv, HoldInv, TypeInv',
         UNCHANGED vars \/ Tick \/ \E t \in Txs : Land(t) \/ Fail(t)
  PROVE  HoldInv'
<1>1. req' = req /\ slot' = slot
  BY DEF vars, Tick, Land, Fail, Takes
<1>2. ASSUME NEW s \in Reqs
      PROVE  Fits(req[s])'
  <2>1. Alike(req'[s], req[s])
    BY <1>1 DEF Alike
  <2>2. \/ now' = now
        \/ now' = now + 1 /\ (req[s].pc # "idle" => now - req[s].at < MaxReq)
    BY DEF vars, Tick, Live, Land, Fail, Takes, TypeInv, ReqRec
  <2> QED BY <1>1, <2>1, <2>2, OthersFit
<1> QED BY <1>1, <1>2 DEF HoldInv, SlotShape, Alone

LEMMA InitHold == Init => HoldInv
<1> SUFFICES ASSUME Init PROVE HoldInv
  OBVIOUS
<1>1. slot.st = "free" /\ \A r \in Reqs : req[r].pc = "idle"
  BY DEF Init, Idle, Free, Bare
<1> QED BY <1>1 DEF HoldInv, SlotShape, Fits, Timely, Begins, TakesOver, Holding,
                    Owns

LEMMA NextHold == TypeInv /\ TypeInv' /\ HoldInv /\ [Next]_vars => HoldInv'
<1> SUFFICES ASSUME TypeInv, TypeInv', HoldInv, [Next]_vars PROVE HoldInv'
  OBVIOUS
<1>1. CASE UNCHANGED vars \/ Tick \/ \E t \in Txs : Land(t) \/ Fail(t)
  BY <1>1, WorldHold
<1>2. ASSUME NEW r \in Reqs,
             \/ \E k \in Kinds : Open(r, k)
             \/ Claim(r) \/ Serve(r) \/ Settle(r) \/ SettleAnswers(r) \/ Judge(r)
             \/ Throw(r) \/ Read(r) \/ Take(r) \/ Look(r) \/ ThrowRedeem(r)
             \/ Write(r) \/ Reply(r) \/ Dies(r)
      PROVE  HoldInv'
  BY <1>2, OpenHold, ClaimHold, ServeHold, SettleHold, SettleAnswersHold, JudgeHold,
     ThrowHold, ReadHold, TakeHold, LookHold, ThrowRedeemHold, WriteHold, LeaveHold
<1> QED BY <1>1, <1>2 DEF Next

LEMMA Holders == Spec => [](TypeInv /\ HoldInv)
<1>1. Init => TypeInv /\ HoldInv
  BY InitTypes, InitHold
<1>2. TypeInv /\ HoldInv /\ [Next]_vars => (TypeInv /\ HoldInv)'
  BY NextTypes, NextHold
<1> QED BY <1>1, <1>2, PTL DEF Spec

\* While a lease is live, only the request that took it changes the slot: no
\* other request, first or redeeming, on any instance, overwrites it.
THEOREM LeaseIsRespected == Spec => LeaseRespected
<1> DEFINE Respects ==
      slot.st = "redeeming" /\ slot' # slot =>
        \/ \E r \in Reqs : req[r].id = slot.own /\ At(r, "write")
        \/ now - slot.lease >= Lease
<1>1. TypeInv /\ HoldInv /\ [Next]_vars => [Respects]_vars
  <2> SUFFICES ASSUME TypeInv, HoldInv, [Next]_vars,
                      slot.st = "redeeming", slot' # slot
               PROVE  Respects
    OBVIOUS
  <2>1. ASSUME NEW r \in Reqs, Write(r)
        PROVE  Respects
    <3>1. /\ Holding(req[r]) /\ Owns(req[r]) /\ At(r, "write")
          /\ req[r] \in ReqRec
      BY <2>1 DEF Write, At, HoldInv, Fits, Owns, TypeInv
    <3>2. MarkOf(req[r]).st = "settled"
      BY <3>1 DEF MarkOf, Settled, Bare, ReqRec, Values
    <3>3. slot = req[r].val /\ req[r].val.own = req[r].id
      BY <3>1, <3>2 DEF Holding
    <3> QED BY <3>1, <3>3
  <2>2. ASSUME NEW r \in Reqs, Take(r)
        PROVE  Respects
    <3>1. Holds(Mine(r)) /\ TakesOver(req[r]) /\ req[r].pc = "take" /\ SlotShape
      BY <2>2 DEF Take, At, Answered, Lost, CompareAndSet, Holds, HoldInv, Fits
    <3>2. LeaseOver(slot, now) /\ slot.lease # None
      BY <3>1 DEF TakesOver, Holds, Mine, SlotShape
    <3> QED BY <3>2 DEF LeaseOver
  <2>3. ASSUME NEW r \in Reqs, Claim(r)
        PROVE  FALSE
    BY <2>3 DEF Claim, Answered, Lost, SetNX, Holds, Free, Bare
  <2>4. ASSUME NEW r \in Reqs,
               \/ \E k \in Kinds : Open(r, k)
               \/ Serve(r) \/ Settle(r) \/ SettleAnswers(r) \/ Judge(r)
               \/ Throw(r) \/ Read(r) \/ Look(r) \/ ThrowRedeem(r)
               \/ Reply(r) \/ Dies(r)
        PROVE  FALSE
    BY <2>4 DEF Open, Serve, Settle, SettleAnswers, Judge, Throw, Throws, Read, Look,
       ThrowRedeem, Reply, Dies
  <2>5. CASE UNCHANGED vars \/ Tick \/ \E t \in Txs : Land(t) \/ Fail(t)
    BY <2>5 DEF vars, Tick, Land, Fail, Takes
  <2> QED BY <2>1, <2>2, <2>3, <2>4, <2>5 DEF Next
<1>2. Spec => [][Respects]_vars
  BY <1>1, Holders, PTL DEF Spec
<1> QED BY <1>2 DEF LeaseRespected

----------------------------------------------------------------------------
(* One payment, one delivery: what is delivered, or about to be, is accounted   *)
(* for by the delivered mark or by a mark the store lost.                     *)

\* A holder between its delivered mark and its answer, or about to take the mark
\* back.
Pends(q) == (q.pc = "reply" /\ q.paid) \/ (q.pc = "write" /\ slot # q.val)
Busy == \E r \in Reqs : Pends(req[r])
OnceInv == delivered + (IF Busy THEN 1 ELSE 0)
             <= lostMarks + (IF slot.st = "settled" THEN 1 ELSE 0)

LEMMA OnceQuietly ==
  ASSUME OnceInv, NEW r \in Reqs, UNCHANGED <<slot, delivered, lostMarks>>,
         \A s \in Reqs : s # r => Alike(req'[s], req[s]),
         Pends(req[r])' => Pends(req[r]),
         delivered \in Nat, lostMarks \in Nat
  PROVE  OnceInv'
<1>1. Busy' => Busy
  BY DEF Busy, Pends, Alike
<1> QED BY <1>1 DEF OnceInv

\* A claim or a takeover: nobody was at it.
LEMMA OnceTaken ==
  ASSUME TypeInv, OnceInv, NEW r \in Reqs, UNCHANGED <<delivered, lostMarks>>,
         \A s \in Reqs : ~Owns(req[s]),
         \A s \in Reqs : s # r => req'[s] = req[s],
         ~Pends(req[r])', slot.st # "settled"
  PROVE  OnceInv'
<1>1. ~Busy /\ ~Busy'
  BY DEF Busy, Pends, Owns
<1>2. delivered \in Nat /\ lostMarks \in Nat
  BY DEF TypeInv
<1> QED BY <1>1, <1>2 DEF OnceInv

LEMMA OnceEnds ==
  ASSUME TypeInv, HoldInv, OnceInv, NEW r \in Reqs, Owns(req[r]), ~At(r, "write"),
         NEW op, NEW v, NEW a, Ends(r, op, v, a),
         UNCHANGED <<slot, delivered, lostMarks>>
  PROVE  OnceInv'
<1> DEFINE q == req[r]
           n == Ended(q, op, v, a)
<1>1. /\ req \in [Reqs -> ReqRec] /\ q \in ReqRec /\ Holding(q)
      /\ delivered \in Nat /\ lostMarks \in Nat
  BY DEF TypeInv, HoldInv, Fits
<1>2. Becomes(r, n)
  BY <1>1, Moves
<1>3. n.pc = "write" /\ n.val = q.val
  BY <1>1 DEF Ended, ReqRec
<1>4. /\ req'[r].pc = "write" /\ req'[r].val = q.val
      /\ \A s \in Reqs : s # r => req'[s] = req[s]
  BY <1>1, <1>2, <1>3 DEF Becomes
<1>5. Pends(req[r])' => Pends(req[r])
  BY <1>1, <1>4 DEF Pends, Holding, Owns, At
<1>6. \A s \in Reqs : s # r => Alike(req'[s], req[s])
  BY <1>4 DEF Alike
<1> QED BY <1>1, <1>5, <1>6, OnceQuietly

\* A step of r that leaves it on its way, or gone, with no answer to give.
LEMMA OnceMoves ==
  ASSUME TypeInv, OnceInv, NEW r \in Reqs, NEW n, Becomes(r, n),
         n.pc \notin {"reply", "write"} \/ (n.pc = "reply" /\ ~n.paid),
         UNCHANGED <<slot, delivered, lostMarks>>
  PROVE  OnceInv'
<1>1. /\ req'[r] = n /\ \A s \in Reqs : s # r => req'[s] = req[s]
      /\ delivered \in Nat /\ lostMarks \in Nat
  BY DEF Becomes, TypeInv
<1>2. ~Pends(req[r])'
  BY <1>1 DEF Pends
<1>3. \A s \in Reqs : s # r => Alike(req'[s], req[s])
  BY <1>1 DEF Alike
<1> QED BY <1>1, <1>2, <1>3, OnceQuietly

LEMMA ClaimOnce ==
  ASSUME TypeInv, HoldInv, OnceInv, NEW r \in Reqs, Claim(r)
  PROVE  OnceInv'
<1> DEFINE q == req[r]
           v == ClaimOf(r)
<1>1. /\ req \in [Reqs -> ReqRec] /\ q \in ReqRec /\ q.pc = "claim" /\ ~q.paid
      /\ UNCHANGED <<delivered, lostMarks>>
  BY DEF Claim, At, TypeInv, Shaped, seen, history
<1>2. ASSUME NEW l \in {"reply", "read"}, req' = Goto(r, l)
      PROVE  /\ Becomes(r, MovedTo(q, l))
             /\ MovedTo(q, l).pc = l /\ ~MovedTo(q, l).paid
  <2>1. MovedTo(q, l).pc = l /\ ~MovedTo(q, l).paid
    BY <1>1 DEF MovedTo, ReqRec
  <2> QED BY <1>1, <1>2, <2>1, Moves
<1>3. CASE slot' = slot /\ \E l \in {"reply", "read"} : req' = Goto(r, l)
  <2>1. PICK l \in {"reply", "read"} : req' = Goto(r, l)
    BY <1>3
  <2> QED BY <1>1, <1>2, <1>3, <2>1, OnceMoves
<1>4. CASE Holds(Free)
  <2>1. slot.st # "settled" /\ \A s \in Reqs : ~Owns(req[s])
    BY <1>4, NobodyHolds DEF Holds, Free, Bare
  <2>2. CASE req' = Goto(r, "reply")
    <3>1. req'[r] = MovedTo(q, "reply") /\ \A s \in Reqs : s # r => req'[s] = req[s]
      BY <1>1, <1>2, <2>2 DEF Becomes
    <3>2. ~Pends(req[r])'
      BY <1>2, <2>2, <3>1 DEF Pends
    <3> QED BY <1>1, <2>1, <3>1, <3>2, OnceTaken
  <2>3. CASE req' = [req EXCEPT ![r].pc = "serve", ![r].val = v]
    <3>1. Becomes(r, Claimed(q, v)) /\ Claimed(q, v).pc = "serve"
      BY <1>1, <2>3, Moves DEF Claimed, ReqRec
    <3>2. req'[r].pc = "serve" /\ \A s \in Reqs : s # r => req'[s] = req[s]
      BY <1>1, <3>1 DEF Becomes
    <3>3. ~Pends(req[r])'
      BY <3>2 DEF Pends
    <3> QED BY <1>1, <2>1, <3>2, <3>3, OnceTaken
  <2> QED BY <1>4, <2>2, <2>3 DEF Claim, Refused
<1> HIDE DEF q, v
<1> QED BY <1>3, <1>4 DEF Claim, Answered, Lost, SetNX, Refused

LEMMA TakeOnce ==
  ASSUME TypeInv, HoldInv, OnceInv, NEW r \in Reqs, Take(r)
  PROVE  OnceInv'
<1> DEFINE q == req[r]
           v == LeaseOf(r)
           n == HasRead(q, "look", v, q.at)
           m == MovedTo(q, "reply")
<1>1. /\ req \in [Reqs -> ReqRec] /\ q \in ReqRec /\ q.pc = "take" /\ ~q.paid
      /\ UNCHANGED <<delivered, lostMarks>> /\ At(r, "take")
  BY DEF Take, At, TypeInv, Shaped, seen, history
<1>2. m.pc = "reply" /\ ~m.paid /\ n.pc = "look"
  BY <1>1 DEF MovedTo, HasRead, ReqRec
<1>3. \/ Becomes(r, m)
      \/ Becomes(r, n) /\ Holds(Mine(r))
  BY <1>1, Moves DEF Take, Refused
<1>4. /\ \A s \in Reqs : s # r => req'[s] = req[s]
      /\ ~Pends(req[r])'
  <2>1. /\ \A s \in Reqs : s # r => req'[s] = req[s]
        /\ req'[r] \in {m, n}
    BY <1>1, <1>3 DEF Becomes
  <2> HIDE DEF m, n
  <2> QED BY <1>2, <2>1 DEF Pends
<1>5. CASE Holds(Mine(r))
  <2>1. \A s \in Reqs : ~Owns(req[s])
    BY <1>1, <1>5, LapsedMeans
  <2>2. slot.st # "settled"
    BY <1>1, <1>5 DEF HoldInv, Fits, TakesOver, Holds, Mine
  <2> QED BY <1>1, <1>4, <2>1, <2>2, OnceTaken
<1>6. CASE ~Holds(Mine(r))
  <2>1. slot' = slot /\ Becomes(r, m)
    <3>1. slot' = slot
      BY <1>6 DEF Take, Answered, Lost, CompareAndSet, Holds
    <3> QED BY <1>3, <1>6, <3>1
  <2> HIDE DEF m
  <2> QED BY <1>1, <1>2, <2>1, OnceMoves
<1> QED BY <1>5, <1>6

LEMMA WriteOnce ==
  ASSUME TypeInv, HoldInv, HoldInv', OnceInv, NEW r \in Reqs, Write(r)
  PROVE  OnceInv'
<1> DEFINE q == req[r]
           n == MovedTo(q, "reply")
<1>1. /\ req \in [Reqs -> ReqRec] /\ q \in ReqRec /\ q.pc = "write" /\ Holding(q)
      /\ Owns(q) /\ Alone(r) /\ Shaped(q) /\ slot \in Values
      /\ req' = Goto(r, "reply") /\ delivered' = delivered
      /\ delivered \in Nat /\ lostMarks \in Nat /\ faults \in Nat
  BY StoreAssumption DEF Write, At, TypeInv, HoldInv, Fits, Owns
<1>2. Becomes(r, n) /\ n.pc = "reply" /\ n.paid = q.paid
  <2>1. n.pc = "reply" /\ n.paid = q.paid
    BY <1>1 DEF MovedTo, ReqRec
  <2> QED BY <1>1, <2>1, Moves
<1>3. /\ req'[r].pc = "reply" /\ req'[r].paid = q.paid
      /\ \A s \in Reqs : s # r => req'[s] = req[s]
  BY <1>1, <1>2 DEF Becomes
<1>4. \A s \in Reqs : s # r => ~Pends(req[s]) /\ ~Pends(req[s])'
  BY <1>1, <1>3 DEF Alone, Owns, Pends
<1>5. (Busy <=> slot # q.val) /\ (Busy' <=> q.paid)
  BY <1>1, <1>3, <1>4 DEF Busy, Pends
<1>6. MarkOf(q).st = "settled" /\ q.val.st # "settled"
  BY <1>1 DEF Holding, MarkOf, Settled, Bare, ReqRec, Values
<1>7. slot.st = "settled" <=> slot # q.val
  BY <1>1, <1>6 DEF Holding
<1>8. CASE ~q.paid
  <2>1. lostMarks' = lostMarks
    BY <1>8 DEF Write
  <2> QED BY <1>1, <1>5, <1>7, <1>8, <2>1 DEF OnceInv
<1>9. CASE q.paid
  <2>1. slot = q.val /\ q.todo.next = MarkOf(q) /\ slot.st # "settled"
    BY <1>1, <1>7, <1>9 DEF Holding
  <2>2. CASE slot' = q.todo.next
    <3>1. slot'.st = "settled"
      BY <1>6, <2>1, <2>2
    <3>2. lostMarks' = lostMarks
      BY <2>2 DEF Write
    <3> QED BY <1>1, <1>5, <1>9, <2>1, <3>1, <3>2 DEF OnceInv
  <2>3. CASE slot' # q.todo.next
    <3>1. After(r) = q.todo.next
      BY <1>1, <2>1 DEF After, Shaped, Ops, Put, Del, CompareAndSet,
                        CompareAndDelete, Holds, Mine
    <3>2. faults' = faults + 1
      BY <2>3, <3>1 DEF Write, Answered, Lost
    <3>3. lostMarks' = lostMarks + 1
      BY <1>1, <1>9, <2>3, <3>2 DEF Write
    <3> QED BY <1>1, <1>5, <1>9, <2>1, <3>3 DEF OnceInv
  <2> QED BY <2>2, <2>3
<1> QED BY <1>8, <1>9

LEMMA LeaveOnce ==
  ASSUME TypeInv, HoldInv, OnceInv, NEW r \in Reqs, Reply(r) \/ Dies(r)
  PROVE  OnceInv'
<1>1. /\ Becomes(r, Idle) /\ Idle.pc = "idle" /\ UNCHANGED <<slot, lostMarks>>
      /\ delivered \in Nat /\ lostMarks \in Nat
  BY DEF Reply, Dies, Becomes, Idle, seen, history, TypeInv
<1>2. CASE delivered' = delivered
  BY <1>1, <1>2, OnceMoves
<1>3. CASE delivered' # delivered
  <2>1. req[r].paid /\ At(r, "reply") /\ delivered' = delivered + 1
    BY <1>3 DEF Reply, Dies, seen, history, TypeInv
  <2>2. Alone(r) /\ Owns(req[r]) /\ Pends(req[r])
    BY <2>1 DEF HoldInv, Owns, At, Pends
  <2>3. Busy /\ ~Busy'
    BY <1>1, <2>2 DEF Busy, Pends, Alone, Owns, Becomes, TypeInv
  <2> QED BY <1>1, <2>1, <2>3 DEF OnceInv
<1> QED BY <1>2, <1>3

LEMMA FirstOnce ==
  ASSUME TypeInv, HoldInv, OnceInv, NEW r \in Reqs,
         \/ \E k \in Kinds : Open(r, k)
         \/ Serve(r) \/ Settle(r) \/ SettleAnswers(r) \/ Judge(r) \/ Throw(r)
  PROVE  OnceInv'
<1> DEFINE q == req[r]
<1>1. /\ req \in [Reqs -> ReqRec] /\ q \in ReqRec
      /\ UNCHANGED <<slot, delivered, lostMarks>>
      /\ delivered \in Nat /\ lostMarks \in Nat
  BY DEF TypeInv, Open, Serve, Settle, SettleAnswers, Judge, Throw, Throws, seen,
         history
<1>2. ASSUME NEW op, NEW v, NEW a, Owns(q), q.pc # "write", Ends(r, op, v, a)
      PROVE  OnceInv'
  BY <1>1, <1>2, OnceEnds DEF At
<1>3. ASSUME NEW k \in Kinds, Open(r, k)
      PROVE  OnceInv'
  <2> DEFINE n == Begun(opened + 1, k, now)
  <2>1. Becomes(r, n) /\ n.pc = "claim"
    BY <1>3 DEF Open, Begun, Idle, Becomes
  <2> HIDE DEF n
  <2> QED BY <1>1, <2>1, OnceMoves
<1>4. CASE Serve(r)
  <2>1. q.pc = "serve" /\ Owns(q)
    BY <1>4 DEF Serve, At, Owns
  <2>2. ASSUME NEW ran, req' = [req EXCEPT ![r].pc = "settle", ![r].ran = ran]
        PROVE  OnceInv'
    <3>1. Becomes(r, Served(q, ran)) /\ Served(q, ran).pc = "settle"
      BY <1>1, <2>2, Moves DEF Served, ReqRec
    <3> QED BY <1>1, <3>1, OnceMoves
  <2> HIDE DEF q
  <2> QED BY <1>2, <1>4, <2>1, <2>2 DEF Serve, Release
<1>5. CASE Settle(r)
  <2>1. PICK ask \in {"sent", "refused"} :
          req' = [req EXCEPT ![r].pc = "asked", ![r].ask = ask, ![r].att = Known(r)]
    BY <1>5 DEF Settle
  <2> DEFINE n == Asked(q, ask, Known(r))
  <2>2. Becomes(r, n) /\ n.pc = "asked"
    BY <1>1, <2>1, Moves DEF Asked, ReqRec
  <2> HIDE DEF n
  <2> QED BY <1>1, <2>2, OnceMoves
<1>6. CASE SettleAnswers(r)
  <2>1. PICK out \in Outcomes(r), o \in BOOLEAN :
          \A s \in Reqs :
            LET p == IF s = r THEN Heard(req[s]) ELSE req[s]
            IN  req'[s] = IF s = req[r].att THEN NotedIn(p, out, o) ELSE p
    BY <1>6, AnswerMoves
  <2>2. \A p \in ReqRec : /\ Heard(p) \in ReqRec /\ Alike(NotedIn(p, out, o), p)
                          /\ Heard(p).pc = "judge"
    <3>1. \A p \in ReqRec : Alike(NotedIn(p, out, o), p) /\ Heard(p).pc = "judge"
      BY DEF NotedIn, Heard, Alike, ReqRec
    <3> QED BY <3>1, RecordsTyped
  <2>3. \A s \in Reqs : s # r => Alike(req'[s], req[s])
    <3> SUFFICES ASSUME NEW s \in Reqs, s # r PROVE Alike(req'[s], req[s])
      OBVIOUS
    <3>1. req'[s] = (IF s = req[r].att THEN NotedIn(req[s], out, o) ELSE req[s])
          /\ req[s] \in ReqRec
      BY <2>1, <1>1
    <3> QED BY <3>1, <2>2 DEF Alike
  <2>4. req'[r].pc = "judge"
    <3>1. req'[r] = IF r = req[r].att THEN NotedIn(Heard(q), out, o) ELSE Heard(q)
      BY <2>1
    <3> QED BY <3>1, <2>2, <1>1 DEF Alike
  <2>5. ~Pends(req[r])'
    BY <2>4 DEF Pends
  <2> QED BY <1>1, <2>3, <2>5, OnceQuietly
<1>7. CASE Judge(r)
  <2>1. q.pc = "judge" /\ Owns(q)
    BY <1>7 DEF Judge, At, Owns
  <2> HIDE DEF q
  <2> QED BY <1>2, <1>7, <2>1 DEF Judge, Says, Confirm, Release, NothingYet
<1>8. CASE Throw(r)
  <2>1. q.pc # "write" /\ Owns(q)
    BY <1>8 DEF Throw, At, Owns
  <2>2. CASE req' = [Refused(r) EXCEPT ![r].paid = FALSE, ![r].told = Judged(r)]
    <3>1. Becomes(r, Rejected(q)) /\ Rejected(q).pc = "reply" /\ ~Rejected(q).paid
      BY <1>1, <2>2, Moves DEF Rejected, ReqRec
    <3> HIDE DEF q
    <3> QED BY <1>1, <3>1, OnceMoves
  <2> HIDE DEF q
  <2> QED BY <1>2, <1>8, <2>1, <2>2 DEF Throw, Release
<1> QED BY <1>3, <1>4, <1>5, <1>6, <1>7, <1>8

LEMMA RedeemOnce ==
  ASSUME TypeInv, HoldInv, OnceInv, NEW r \in Reqs,
         Read(r) \/ Look(r) \/ ThrowRedeem(r)
  PROVE  OnceInv'
<1> DEFINE q == req[r]
<1>1. /\ req \in [Reqs -> ReqRec] /\ q \in ReqRec
      /\ UNCHANGED <<slot, delivered, lostMarks>>
      /\ delivered \in Nat /\ lostMarks \in Nat
  BY DEF TypeInv, Read, Look, ThrowRedeem, Throws, seen, history
<1>2. ASSUME NEW op, NEW v, NEW a, Owns(q), q.pc # "write", Ends(r, op, v, a)
      PROVE  OnceInv'
  BY <1>1, <1>2, OnceEnds DEF At
<1>3. CASE Read(r)
  <2>1. ~q.paid
    BY <1>3 DEF Read, At, TypeInv, Shaped
  <2>2. CASE req' = Refused(r)
    <3> DEFINE n == MovedTo(q, "reply")
    <3>1. Becomes(r, n) /\ n.pc = "reply" /\ ~n.paid
      BY <1>1, <2>1, <2>2, Moves DEF Refused, MovedTo, ReqRec
    <3> HIDE DEF n
    <3> QED BY <1>1, <3>1, OnceMoves
  <2>3. CASE req' = [req EXCEPT ![r].pc = "take", ![r].val = slot, ![r].fs = now]
    <3> DEFINE n == HasRead(q, "take", slot, now)
    <3>1. Becomes(r, n) /\ n.pc = "take"
      BY <1>1, <2>3, Moves DEF HasRead, ReqRec
    <3> HIDE DEF n
    <3> QED BY <1>1, <3>1, OnceMoves
  <2> QED BY <1>3, <2>2, <2>3 DEF Read
<1>4. CASE Look(r)
  <2>1. q.pc = "look" /\ Owns(q)
    BY <1>4 DEF Look, At, Owns
  <2> HIDE DEF q
  <2> QED BY <1>2, <1>4, <2>1 DEF Look, Looks, Says, NothingYet
<1>5. CASE ThrowRedeem(r)
  <2>1. q.pc # "write" /\ Owns(q)
    BY <1>5 DEF ThrowRedeem, At, Owns
  <2> HIDE DEF q
  <2> QED BY <1>2, <1>5, <2>1 DEF ThrowRedeem
<1> QED BY <1>3, <1>4, <1>5

LEMMA InitOnce == Init => OnceInv
<1> SUFFICES ASSUME Init PROVE OnceInv
  OBVIOUS
<1>1. \A r \in Reqs : req[r].pc = "idle"
  BY DEF Init, Idle
<1>2. ~Busy /\ delivered = 0 /\ lostMarks = 0 /\ slot.st = "free"
  BY <1>1 DEF Init, Busy, Pends, Free, Bare
<1> QED BY <1>2 DEF OnceInv

LEMMA NextOnce ==
  TypeInv /\ HoldInv /\ HoldInv' /\ OnceInv /\ [Next]_vars => OnceInv'
<1> SUFFICES ASSUME TypeInv, HoldInv, HoldInv', OnceInv, [Next]_vars PROVE OnceInv'
  OBVIOUS
<1>1. CASE UNCHANGED vars \/ Tick \/ \E t \in Txs : Land(t) \/ Fail(t)
  <2>1. UNCHANGED <<slot, req, delivered, lostMarks>>
    BY <1>1 DEF vars, Tick, Land, Fail, Takes, seen, history
  <2> QED BY <2>1 DEF OnceInv, Busy, Pends
<1>2. ASSUME NEW r \in Reqs,
             \/ \E k \in Kinds : Open(r, k)
             \/ Claim(r) \/ Serve(r) \/ Settle(r) \/ SettleAnswers(r) \/ Judge(r)
             \/ Throw(r) \/ Read(r) \/ Take(r) \/ Look(r) \/ ThrowRedeem(r)
             \/ Write(r) \/ Reply(r) \/ Dies(r)
      PROVE  OnceInv'
  BY <1>2, FirstOnce, ClaimOnce, RedeemOnce, TakeOnce, WriteOnce, LeaveOnce
<1> QED BY <1>1, <1>2 DEF Next

LEMMA Onces == Spec => [](TypeInv /\ HoldInv /\ OnceInv)
<1>1. Init => TypeInv /\ HoldInv /\ OnceInv
  BY InitTypes, InitHold, InitOnce
<1>2. TypeInv /\ HoldInv /\ OnceInv /\ [Next]_vars
        => (TypeInv /\ HoldInv /\ OnceInv)'
  BY NextTypes, NextHold, NextOnce
<1> QED BY <1>1, <1>2, PTL DEF Spec

\* One payment is delivered once and once more for each delivered mark that the
\* store lost, whatever the requests overlap with, on one instance or on many.
THEOREM OneDeliveryPerPayment == Spec => []OneDelivery
<1>1. TypeInv /\ OnceInv => OneDelivery
  BY DEF TypeInv, OnceInv, OneDelivery
<1> QED BY <1>1, Onces, PTL

----------------------------------------------------------------------------
(* What the slot and the requests know of the ledger, if every request has an  *)
(* instance of its own: on a shared one a settle may note its outcome with      *)
(* another request's Attempt.                                               *)

OwnInstance == \A r, s \in Reqs : InstOf[r] = InstOf[s] => r = s

\* A settle of ours submitted t and nobody has proved that it never lands.
Charged(t) == paidFor[t] # {} /\ t \notin never
Uncharged == \A t \in Txs : ~Charged(t)
Unpaid == \A t \in Txs : Charged(t) => led[t] # "paid"
Dead(t) == t \in never \/ led[t] = "failed"

\* What a value of the slot, stored or about to be, says of the ledger.
Verdict(v) ==
  /\ v.st = "settled" => \E t \in Txs : led[t] = "paid"
  /\ v.st = "settle_failed" => \A t \in Txs : Charged(t) => led[t] = "failed"
  /\ v.st = "free" => Uncharged
  /\ v.st \in {"in_flight", "settle_unconfirmed", "redeeming"} =>
       /\ v.fs \in 0..now
       /\ \A t \in Txs : Charged(t) => /\ v.tx \in {t, None} /\ paidFor[t] = {v.rq}
                                       /\ led[t] = "paid" => closed[t] >= v.fs

Facts == /\ \A t, u \in Txs : led[t] # "none" /\ led[u] # "none" => t = u
         /\ \A t \in never : led[t] = "none"
         /\ \A t \in told : Dead(t)
SlotTrue == /\ Verdict(slot)
            /\ slot.st = "free" => slot = Free
            /\ slot.st = "settled" => marked \/ Unpaid
\* Nothing was submitted yet, or nothing will have been.
Unsent(q) == \/ q.pc \in {"serve", "settle"}
             \/ q.pc = "asked" /\ q.ask = "refused"
             \/ q.pc = "judge" /\ q.settle = "failed"
Settles(q) ==
  /\ Unsent(q) => Uncharged
  /\ q.pc = "settle" => /\ q.kind.tx \notin never
                        /\ led[q.kind.tx] = "paid" => closed[q.kind.tx] >= q.at
  /\ q.pc = "judge" => q.settle # "none"
  /\ q.pc = "judge" /\ q.settle = "success" => led[q.kind.tx] = "paid"
Writes(q) ==
  q.pc = "write" => /\ Verdict(q.todo.next)
                    /\ q.todo.next.st = "free" => q.todo.next = Free
                    /\ q.todo.next.st = "settled" => q.paid \/ Unpaid
Answers(q) ==
  /\ q.paid => /\ led[q.val.tx] = "paid" /\ paidFor[q.val.tx] \subseteq {q.val.rq}
               /\ q.val.st = "in_flight" => q.settle \in {"unconfirmed", "success"}
  /\ \A t \in q.told : Dead(t)
Honest(q) == /\ Owns(q) => Verdict(q.val)
             /\ Settles(q) /\ Writes(q) /\ Answers(q)
\* A claim holder's Attempt is its own, and so is the one its settle notes in.
Attempted(r) == /\ Owns(req[r]) /\ Mine(r).st = "in_flight" => Known(r) = r
                /\ At(r, "asked") => req[r].att = r
TrueInv == /\ Facts /\ SlotTrue
           /\ \A r \in Reqs : Honest(req[r]) /\ Attempted(r)

\* The world goes on, with no new submission.
World == <<led, closed, never, paidFor, now>>
Later ==
  /\ paidFor' = paidFor /\ never \subseteq never' /\ now <= now'
  /\ \A t \in Txs : \/ led'[t] = led[t] /\ closed'[t] = closed[t]
                    \/ /\ ~Used /\ t \notin never
                       /\ led'[t] = "paid" => closed'[t] = now

LEMMA LaterVerdict ==
  ASSUME TypeInv, TypeInv', Later
  PROVE  /\ \A v \in Values : Verdict(v) => Verdict(v)'
         /\ Uncharged => Uncharged'
         /\ (\E t \in Txs : led[t] = "paid") /\ Unpaid => Unpaid'
<1>1. \A t \in Txs : /\ Charged(t)' => Charged(t)
                     /\ led[t] # "none" => led'[t] = led[t]
  BY DEF Later, Charged, Used
<1>2. Uncharged => Uncharged'
  BY <1>1 DEF Uncharged
<1>3. (\E t \in Txs : led[t] = "paid") /\ Unpaid => Unpaid'
  <2>1. (\E t \in Txs : led[t] = "paid") => \A t \in Txs : led'[t] = led[t]
    BY DEF Later, Used
  <2> QED BY <2>1, <1>1 DEF Unpaid
<1>4. ASSUME NEW v \in Values, Verdict(v)
      PROVE  Verdict(v)'
  <2>1. v.st = "settled" => \E t \in Txs : led'[t] = "paid"
    BY <1>1, <1>4 DEF Verdict
  <2>2. v.st = "settle_failed" => \A t \in Txs : Charged(t)' => led'[t] = "failed"
    BY <1>1, <1>4 DEF Verdict
  <2>3. v.st = "free" => Uncharged'
    BY <1>2, <1>4 DEF Verdict
  <2>4. ASSUME v.st \in {"in_flight", "settle_unconfirmed", "redeeming"}
        PROVE  /\ v.fs \in 0..now'
               /\ \A t \in Txs : Charged(t)' =>
                    /\ v.tx \in {t, None} /\ paidFor'[t] = {v.rq}
                    /\ led'[t] = "paid" => closed'[t] >= v.fs
    <3>1. /\ now \in Nat /\ now' \in Nat /\ now <= now' /\ paidFor' = paidFor
      BY StoreAssumption DEF TypeInv, Time, Later
    <3>2. v.fs \in 0..now /\ v.fs \in 0..now' /\ v.fs <= now
      BY <1>4, <2>4, <3>1 DEF Verdict
    <3>3. \A t \in Txs : Charged(t) =>
            /\ v.tx \in {t, None} /\ paidFor[t] = {v.rq}
            /\ led[t] = "paid" => closed[t] >= v.fs
      BY <1>4, <2>4 DEF Verdict
    <3>4. ASSUME NEW t \in Txs, Charged(t)'
          PROVE  /\ v.tx \in {t, None} /\ paidFor'[t] = {v.rq}
                 /\ led'[t] = "paid" => closed'[t] >= v.fs
      <4>1. /\ v.tx \in {t, None} /\ paidFor'[t] = {v.rq}
            /\ led[t] = "paid" => closed[t] >= v.fs
        BY <1>1, <3>1, <3>3, <3>4
      <4>2. \/ led'[t] = led[t] /\ closed'[t] = closed[t]
            \/ led'[t] = "paid" => closed'[t] = now
        BY DEF Later
      <4> QED BY <4>1, <4>2, <3>1, <3>2
    <3> QED BY <3>2, <3>4
  <2> QED BY <2>1, <2>2, <2>3, <2>4 DEF Verdict
<1> QED BY <1>2, <1>3, <1>4

LEMMA CalmIsLater ==
  ASSUME TypeInv, UNCHANGED World
  PROVE  Later /\ \A t \in Txs : Dead(t) => Dead(t)'
  BY StoreAssumption DEF TypeInv, World, Later, Dead, Time

LEMMA SlotKept ==
  ASSUME TypeInv, TypeInv', SlotTrue, Later, slot' = slot, marked => marked'
  PROVE  SlotTrue'
<1>1. Verdict(slot)'
  BY LaterVerdict DEF TypeInv, SlotTrue
<1>2. slot.st = "settled" => marked' \/ Unpaid'
  BY LaterVerdict DEF SlotTrue, Verdict
<1> QED BY <1>1, <1>2 DEF SlotTrue

LEMMA FactsKept ==
  ASSUME TypeInv, TypeInv', Facts, led' = led,
         \A t \in never' : t \in never \/ led[t] = "none",
         \A t \in told' : t \in told \/ Dead(t)', never \subseteq never'
  PROVE  Facts'
  BY DEF Facts, Dead

\* A request that a step does not touch.
LEMMA OthersHonest ==
  ASSUME TypeInv, TypeInv', HoldInv, NEW s \in Reqs, req'[s] = req[s],
         Honest(req[s]), Attempted(s),
         \A t \in Txs : Dead(t) => Dead(t)',
         Owns(req[s]) => Later /\ never' = never /\ (Known(s) = s => Known(s)' = s)
  PROVE  Honest(req[s])' /\ Attempted(s)'
<1> DEFINE q == req[s]
<1>1. /\ q \in ReqRec /\ q.val \in Values /\ q.todo.next \in Values /\ Shaped(q)
      /\ q.told \subseteq Txs /\ q.kind.tx \in Txs /\ Timely(q)
  BY ValueTypes DEF TypeInv, ReqRec, Todos, HoldInv, Fits
<1>2. \A t \in q.told : Dead(t)'
  BY <1>1 DEF Honest, Answers
<1>3. CASE ~Owns(q)
  <2>1. ~q.paid /\ ~Unsent(q) /\ q.pc \notin {"write", "settle", "judge", "asked"}
    BY <1>1, <1>3 DEF Owns, Shaped, Unsent
  <2> QED BY <1>2, <1>3, <2>1
          DEF Honest, Settles, Writes, Answers, Attempted, Unsent, Owns, At
<1>4. CASE Owns(q)
  <2>1. /\ Later /\ never' = never /\ Verdict(q.val)
        /\ Settles(q) /\ Writes(q) /\ Answers(q)
    BY <1>4 DEF Honest
  <2>2. Verdict(q.val)' /\ (Uncharged => Uncharged')
    BY <1>1, <2>1, LaterVerdict
  <2>3. \A t \in Txs : led[t] # "none" => led'[t] = led[t]
    BY <2>1 DEF Later, Used
  <2>4. Settles(q)'
    <3>1. q.pc = "settle" /\ led'[q.kind.tx] = "paid" => closed'[q.kind.tx] >= q.at
      <4> SUFFICES ASSUME q.pc = "settle", led'[q.kind.tx] = "paid"
                   PROVE  closed'[q.kind.tx] >= q.at
        OBVIOUS
      <4>1. q.at <= now /\ q.at \in Nat /\ now \in Nat
        BY <1>1, StoreAssumption DEF Timely, TypeInv, ReqRec, Time
      <4>2. \/ led[q.kind.tx] = "paid" /\ closed'[q.kind.tx] = closed[q.kind.tx]
            \/ closed'[q.kind.tx] = now
        BY <1>1, <2>1 DEF Later
      <4>3. led[q.kind.tx] = "paid" => closed[q.kind.tx] >= q.at
        BY <2>1 DEF Settles
      <4> QED BY <4>1, <4>2, <4>3
    <3>2. q.pc = "judge" /\ q.settle = "success" => led'[q.kind.tx] = "paid"
      BY <1>1, <2>1, <2>3 DEF Settles
    <3>3. Unsent(q)' <=> Unsent(q)
      BY DEF Unsent
    <3>4. q.pc = "settle" => q.kind.tx \notin never'
      BY <2>1 DEF Settles
    <3>5. Unsent(q) => Uncharged'
      BY <2>1, <2>2 DEF Settles
    <3>6. q.pc = "judge" => q.settle # "none"
      BY <2>1 DEF Settles
    <3> QED BY <3>1, <3>2, <3>3, <3>4, <3>5, <3>6 DEF Settles
  <2>5. Writes(q)'
    <3> SUFFICES ASSUME q.pc = "write" PROVE Writes(q)'
      BY DEF Writes
    <3>1. Verdict(q.todo.next)'
      BY <1>1, <2>1, LaterVerdict DEF Writes
    <3>2. q.todo.next.st = "settled" => q.paid \/ Unpaid'
      BY <2>1, LaterVerdict DEF Writes, Verdict
    <3>3. q.todo.next.st = "free" => q.todo.next = Free
      BY <2>1 DEF Writes
    <3> QED BY <3>1, <3>2, <3>3 DEF Writes
  <2>6. Answers(q)'
    <3>1. q.paid => q.val.tx \in Txs
      BY <1>1, <1>4 DEF HoldInv, Fits, Holding
    <3>2. q.paid => led'[q.val.tx] = "paid" /\ paidFor'[q.val.tx] \subseteq {q.val.rq}
      BY <2>1, <2>3, <3>1 DEF Answers, Later
    <3> QED BY <1>2, <2>1, <3>2 DEF Answers
  <2>7. Attempted(s)'
    BY <1>4 DEF Attempted, Owns, Mine, At, Known
  <2> QED BY <2>2, <2>4, <2>5, <2>6, <2>7 DEF Honest
<1> QED BY <1>3, <1>4

\* A step of r, whose record and slot are known to be honest after it.
LEMMA TrueStep ==
  ASSUME TypeInv, TypeInv', HoldInv, TrueInv, NEW r \in Reqs,
         \A s \in Reqs : s # r => req'[s] = req[s],
         \A s \in Reqs : s # r /\ Known(s) = s => Known(s)' = s,
         UNCHANGED World \/ Alone(r),
         \A t \in Txs : Dead(t) => Dead(t)',
         Facts', SlotTrue', Honest(req[r])', Attempted(r)'
  PROVE  TrueInv'
<1> SUFFICES ASSUME NEW s \in Reqs, s # r
             PROVE  Honest(req[s])' /\ Attempted(s)'
  BY DEF TrueInv
<1>1. Honest(req[s]) /\ Attempted(s) /\ req'[s] = req[s]
  BY DEF TrueInv
<1>2. Owns(req[s]) => Later /\ never' = never
  <2>1. UNCHANGED World => Later /\ never' = never
    BY CalmIsLater DEF World
  <2> QED BY <2>1 DEF Alone
<1>3. Known(s) = s => Known(s)' = s
  OBVIOUS
<1> QED BY <1>1, <1>2, <1>3, OthersHonest

\* A step of r that leaves the world and the slot alone.
LEMMA CalmStep ==
  ASSUME TypeInv, TypeInv', HoldInv, TrueInv, NEW r \in Reqs,
         UNCHANGED <<World, slot>>, marked => marked',
         \A s \in Reqs : s # r => req'[s] = req[s],
         \A s \in Reqs : s # r /\ Known(s) = s => Known(s)' = s,
         \A t \in told' : t \in told \/ Dead(t),
         Honest(req[r])', Attempted(r)'
  PROVE  TrueInv'
<1>1. Later /\ \A t \in Txs : Dead(t) => Dead(t)'
  BY CalmIsLater
<1>2. Facts /\ SlotTrue /\ led' = led /\ never' = never /\ slot' = slot
      /\ told \subseteq Txs /\ told' \subseteq Txs
  BY DEF TrueInv, World, TypeInv
<1>3. Facts'
  BY <1>1, <1>2, FactsKept
<1>4. SlotTrue'
  BY <1>1, <1>2, SlotKept
<1> QED BY <1>1, <1>3, <1>4, TrueStep

\* A holder's last write is decided on.
LEMMA EndsCore ==
  ASSUME TypeInv, TypeInv', HoldInv, TrueInv, NEW r \in Reqs, Owns(req[r]),
         NEW op \in Ops, NEW v \in Values, NEW a \in Replies, Ends(r, op, v, a),
         UNCHANGED <<slot, led, closed, paidFor, now, marked, told, attempt>>,
         never \subseteq never', \A t \in never' : t \in never \/ led[t] = "none",
         Verdict(v)', v.st = "free" => v = Free,
         v.st = "settled" => a = "200" \/ Unpaid',
         a = "200" => /\ led[Mine(r).tx] = "paid"
                      /\ paidFor[Mine(r).tx] \subseteq {Mine(r).rq}
                      /\ Mine(r).st = "in_flight"
                           => req[r].settle \in {"unconfirmed", "success"},
         a = "402" => \A t \in Judged(r) : Dead(t)'
  PROVE  TrueInv'
<1> DEFINE q == req[r]
           n == Ended(q, op, v, a)
<1>1. /\ req \in [Reqs -> ReqRec] /\ q \in ReqRec /\ q.val \in Values
      /\ Mine(r) = q.val /\ Facts /\ SlotTrue /\ Honest(q) /\ Attempted(r)
  BY DEF TypeInv, ReqRec, Mine, TrueInv
<1>2. Becomes(r, n)
  BY <1>1, Moves
<1>3. /\ n.pc = "write" /\ n.todo.next = v /\ n.paid = (a = "200")
      /\ n.val = q.val /\ n.settle = q.settle /\ n.told = ToldBy(q, a)
  BY <1>1 DEF Ended, ReqRec
<1>4. /\ req'[r] = n /\ \A s \in Reqs : s # r => req'[s] = req[s]
  BY <1>1, <1>2 DEF Becomes
<1>5. Later /\ \A t \in Txs : Dead(t) => Dead(t)'
  BY StoreAssumption DEF Later, Dead, TypeInv, Time
<1>6. Facts' /\ SlotTrue'
  <2>1. \A t \in told' : t \in told
    OBVIOUS
  <2> QED BY <1>1, <1>5, <2>1, FactsKept, SlotKept
<1>7. \A t \in ToldBy(q, a) : Dead(t)'
  BY <1>1 DEF ToldBy, Judged
<1>8. \A w \in Values : w = q.val => Verdict(w)'
  BY <1>1, <1>5, LaterVerdict DEF Honest
<1>9. Honest(req[r])'
  <2> HIDE DEF n, q
  <2>1. Settles(req[r])'
    BY <1>3, <1>4 DEF Settles, Unsent
  <2>2. Writes(req[r])'
    BY <1>3, <1>4 DEF Writes
  <2>3. Answers(req[r])'
    BY <1>1, <1>3, <1>4, <1>7 DEF Answers, Mine, q
  <2>4. Verdict(req[r].val)'
    BY <1>1, <1>3, <1>4, <1>8
  <2> QED BY <2>1, <2>2, <2>3, <2>4 DEF Honest
<1>10. Attempted(r)'
  <2> HIDE DEF n
  <2> QED BY <1>1, <1>3, <1>4 DEF Attempted, Known, Mine, At
<1>11. Alone(r) /\ \A s \in Reqs : Known(s)' = Known(s)
  BY DEF HoldInv, Known
<1> QED BY <1>4, <1>5, <1>6, <1>9, <1>10, <1>11, TrueStep

LEMMA EndsTrue ==
  ASSUME TypeInv, TypeInv', HoldInv, TrueInv, NEW r \in Reqs, Owns(req[r]),
         NEW op \in Ops, NEW v \in Values, NEW a \in Replies, Ends(r, op, v, a),
         UNCHANGED <<slot, World, marked, told, attempt>>,
         Verdict(v), v.st = "free" => v = Free,
         v.st = "settled" => a = "200" \/ Unpaid,
         a = "200" => /\ led[Mine(r).tx] = "paid"
                      /\ paidFor[Mine(r).tx] \subseteq {Mine(r).rq}
                      /\ Mine(r).st = "in_flight"
                           => req[r].settle \in {"unconfirmed", "success"},
         a = "402" => \A t \in Judged(r) : Dead(t)
  PROVE  TrueInv'
<1>1. Later /\ (\A t \in Txs : Dead(t) => Dead(t)') /\ UNCHANGED World
  BY CalmIsLater
<1>2. /\ Verdict(v)'
      /\ v.st = "settled" => a = "200" \/ Unpaid'
  BY <1>1, LaterVerdict DEF Verdict
<1>3. a = "402" => \A t \in Judged(r) : Dead(t)'
  BY <1>1 DEF Judged
<1>4. UNCHANGED <<slot, led, closed, paidFor, now, marked, told, attempt>>
      /\ never' = never
  BY DEF World
<1> QED BY <1>2, <1>3, <1>4, EndsCore

\* What a holder may conclude from the payment it holds.
LEMMA HolderKnows ==
  ASSUME TypeInv, HoldInv, TrueInv, NEW r \in Reqs, Owns(req[r])
  PROVE  LET v == Mine(r) IN
         /\ v.tx \in Txs /\ v.tx # None /\ v.fs \in Nat
         /\ \A t \in Txs : Charged(t) => /\ t = v.tx /\ paidFor[t] = {v.rq}
                                         /\ led[t] = "paid" => closed[t] >= v.fs
         /\ Verdict(Undelivered(r)) /\ Verdict(Manual(r))
         /\ led[v.tx] = "paid" =>
              /\ Verdict(Settled) /\ Verdict(Delivered(r))
              /\ paidFor[v.tx] \subseteq {v.rq}
              /\ closed[v.tx] < v.fs => Unpaid
         /\ led[v.tx] = "failed" \/ Uncharged =>
              Verdict(Failed) /\ \A t \in Judged(r) : Dead(t)
         /\ Uncharged => Verdict(Free)
<1> DEFINE v == Mine(r)
<1>1. /\ Verdict(v) /\ Facts /\ v \in Values /\ v.tx \in Txs /\ v.tx # None
      /\ v.st \in {"in_flight", "redeeming"}
  BY StoreAssumption
  DEF TrueInv, Honest, HoldInv, Fits, Holding, Mine, TypeInv, ReqRec
<1>2. /\ v.fs \in 0..now /\ v.fs \in Nat
      /\ \A t \in Txs : Charged(t) => /\ t = v.tx /\ paidFor[t] = {v.rq}
                                      /\ led[t] = "paid" => closed[t] >= v.fs
  BY <1>1, StoreAssumption DEF Verdict, TypeInv, Time
<1>3. /\ Undelivered(r).st = "settle_unconfirmed" /\ Undelivered(r).fs = v.fs
      /\ Undelivered(r).tx = v.tx /\ Undelivered(r).rq = v.rq
      /\ Manual(r).st = "settle_unconfirmed" /\ Manual(r).fs = v.fs
      /\ Manual(r).tx = None /\ Manual(r).rq = v.rq
      /\ Settled.st = "settled" /\ Delivered(r).st = "settled"
      /\ Failed.st = "settle_failed" /\ Free.st = "free"
  BY <1>1 DEF Undelivered, Manual, Settled, Delivered, Failed, Free, Bare, Values
<1> HIDE DEF v
<1>4. Verdict(Undelivered(r)) /\ Verdict(Manual(r))
  BY <1>2, <1>3 DEF Verdict
<1>5. ASSUME led[v.tx] = "paid"
      PROVE  /\ Verdict(Settled) /\ Verdict(Delivered(r))
             /\ paidFor[v.tx] \subseteq {v.rq}
             /\ closed[v.tx] < v.fs => Unpaid
  <2>1. Verdict(Settled) /\ Verdict(Delivered(r))
    BY <1>1, <1>3, <1>5 DEF Verdict
  <2>2. v.tx \notin never
    BY <1>1, <1>5 DEF Facts
  <2>3. paidFor[v.tx] \subseteq {v.rq}
    BY <1>1, <1>2, <2>2 DEF Charged
  <2>4. closed[v.tx] < v.fs => Unpaid
    <3>1. closed[v.tx] \in Nat
      BY <1>1, StoreAssumption DEF TypeInv, Time
    <3> QED BY <1>1, <1>2, <3>1 DEF Unpaid
  <2> QED BY <2>1, <2>3, <2>4
<1>6. ASSUME led[v.tx] = "failed" \/ Uncharged
      PROVE  Verdict(Failed) /\ \A t \in Judged(r) : Dead(t)
  <2>1. Verdict(Failed)
    BY <1>2, <1>3, <1>6 DEF Verdict, Uncharged
  <2> QED BY <1>1, <1>6, <2>1 DEF Judged, Dead, Uncharged, Charged, v
<1>7. Uncharged => Verdict(Free)
  BY <1>3 DEF Verdict
<1> QED BY <1>1, <1>2, <1>4, <1>5, <1>6, <1>7 DEF v

\* A holder that finds its payment's transaction dead.
LEMMA BuriesTrue ==
  ASSUME TypeInv, TypeInv', HoldInv, TrueInv, NEW r \in Reqs, Owns(req[r]),
         NEW op \in Ops, Ends(r, op, Free, "402"), NeverLanded(Mine(r).tx),
         UNCHANGED <<slot, led, closed, paidFor, now, marked, told, attempt>>
  PROVE  TrueInv'
<1> DEFINE v == Mine(r)
<1>1. /\ \A t \in Txs : Charged(t) => t = v.tx
      /\ v.tx \in Txs
  BY HolderKnows
<1>2. never' = never \cup {v.tx} /\ led[v.tx] = "none"
  BY DEF NeverLanded
<1>3. Uncharged'
  BY <1>1, <1>2 DEF Uncharged, Charged
<1>4. Verdict(Free)'
  BY <1>3 DEF Verdict, Free, Bare
<1>5. \A t \in Judged(r) : Dead(t)'
  BY <1>2 DEF Judged, Dead
<1>6. Free \in Values /\ "402" \in Replies /\ Free.st = "free"
  BY ValueTypes DEF Replies, Free, Bare
<1> HIDE DEF v
<1>7. never \subseteq never' /\ \A t \in never' : t \in never \/ led[t] = "none"
  BY <1>2
<1> QED BY <1>4, <1>5, <1>6, <1>7, EndsCore

\* A step of r that leaves it with nothing to hold and nothing to deliver.
LEMMA QuietStep ==
  ASSUME TypeInv, TypeInv', HoldInv, TrueInv, NEW r \in Reqs, NEW n \in ReqRec,
         Becomes(r, n), n.pc \in {"idle", "claim", "read", "take", "reply"},
         ~n.paid, \A t \in n.told : Dead(t),
         UNCHANGED <<World, slot, marked>>,
         \A s \in Reqs : s # r /\ Known(s) = s => Known(s)' = s,
         \A t \in told' : t \in told \/ Dead(t)
  PROVE  TrueInv'
<1>1. /\ req'[r] = n /\ \A s \in Reqs : s # r => req'[s] = req[s]
      /\ n.told \subseteq Txs
  BY DEF Becomes, TypeInv, ReqRec
<1>2. ~Owns(n) /\ ~Unsent(n)
  BY DEF Owns, Unsent
<1>3. \A t \in n.told : Dead(t)'
  BY <1>1, CalmIsLater
<1>4. Honest(req[r])'
  <2>1. ~Owns(req[r])' /\ ~Unsent(req[r])'
    BY <1>1, <1>2 DEF Owns, Unsent
  <2>2. Settles(req[r])' /\ Writes(req[r])'
    BY <1>1, <2>1 DEF Settles, Writes
  <2>3. Answers(req[r])'
    BY <1>1, <1>3 DEF Answers
  <2> QED BY <2>1, <2>2, <2>3 DEF Honest
<1>5. Attempted(r)'
  BY <1>1, <1>2 DEF Attempted, Owns, At
<1> QED BY <1>1, <1>4, <1>5, CalmStep

LEMMA OpenTrue ==
  ASSUME TypeInv, TypeInv', HoldInv, TrueInv, NEW r \in Reqs, NEW k \in Kinds,
         Open(r, k)
  PROVE  TrueInv'
<1> DEFINE n == Begun(opened + 1, k, now)
<1>1. opened + 1 \in Ids /\ now \in Time
  BY StoreAssumption DEF Open, TypeInv, Ids
<1>2. n \in ReqRec
  BY <1>1, RecordsTyped
<1>3. n.pc = "claim" /\ ~n.paid /\ n.told = {}
  BY DEF Begun, Idle
<1>4. /\ Becomes(r, n) /\ UNCHANGED <<World, slot, marked, told>>
      /\ \A s \in Reqs : Known(s)' = Known(s)
  BY DEF Open, Begun, Becomes, World, external, seen, history, Known
<1> HIDE DEF n
<1> QED BY <1>2, <1>3, <1>4, QuietStep

LEMMA ClaimTrue ==
  ASSUME OwnInstance,
         TypeInv, TypeInv', HoldInv, TrueInv, NEW r \in Reqs, Claim(r)
  PROVE  TrueInv'
<1> DEFINE q == req[r]
           v == ClaimOf(r)
<1>1. /\ req \in [Reqs -> ReqRec] /\ q \in ReqRec /\ q.pc = "claim" /\ ~q.paid
      /\ q.fs = q.at /\ q.at <= now /\ q.at \in Nat /\ now \in Nat
      /\ v \in Values /\ UNCHANGED <<World, marked, told>>
      /\ Facts /\ SlotTrue /\ Answers(q)
  <2>1. /\ req \in [Reqs -> ReqRec] /\ q \in ReqRec /\ q.pc = "claim" /\ ~q.paid
        /\ q.at \in Nat /\ now \in Nat
    BY StoreAssumption DEF Claim, At, TypeInv, Shaped, ReqRec, Time
  <2>2. q.fs = q.at /\ q.at <= now
    BY <2>1 DEF HoldInv, Fits, Timely, Begins
  <2>3. v \in Values
    BY <2>1, ValueTypes
  <2>4. UNCHANGED <<World, marked, told>>
    BY DEF Claim, external, seen, history, World
  <2>5. Facts /\ SlotTrue /\ Answers(q)
    BY DEF TrueInv, Honest
  <2> QED BY <2>1, <2>2, <2>3, <2>4, <2>5
<1>2. \A s \in Reqs : s # r /\ Known(s) = s => Known(s)' = s
  <2>1. \A s \in Reqs : s # r => InstOf[s] # InstOf[r]
    BY DEF OwnInstance
  <2>2. /\ attempt \in [Insts -> Reqs \cup {None}] /\ InstOf \in [Reqs -> Insts]
        /\ attempt' = attempt \/ attempt' = [attempt EXCEPT ![InstOf[r]] = r]
    BY XrplAssumption DEF Claim, TypeInv
  <2> QED BY <2>1, <2>2 DEF Known
<1>3. ASSUME NEW l \in {"reply", "read"}, req' = Goto(r, l)
      PROVE  /\ MovedTo(q, l) \in ReqRec /\ Becomes(r, MovedTo(q, l))
             /\ MovedTo(q, l).pc = l /\ ~MovedTo(q, l).paid
             /\ MovedTo(q, l).told = q.told
  <2>1. MovedTo(q, l).pc = l /\ ~MovedTo(q, l).paid /\ MovedTo(q, l).told = q.told
    BY <1>1 DEF MovedTo, ReqRec
  <2>2. MovedTo(q, l) \in ReqRec
    BY <1>1, RecordsTyped DEF Steps
  <2> QED BY <1>1, <1>3, <2>1, <2>2, Moves
<1>4. CASE slot' = slot /\ \E l \in {"reply", "read"} : req' = Goto(r, l)
  <2>1. PICK l \in {"reply", "read"} : req' = Goto(r, l)
    BY <1>4
  <2> DEFINE n == MovedTo(q, l)
  <2>2. /\ n \in ReqRec /\ Becomes(r, n) /\ n.pc = l /\ ~n.paid
        /\ \A t \in n.told : Dead(t)
    BY <1>1, <1>3, <2>1 DEF Answers
  <2> HIDE DEF n
  <2> QED BY <1>1, <1>2, <1>4, <2>2, QuietStep
<1>5. CASE Holds(Free) /\ slot' \in {slot, v}
  <2>1. /\ v.st = "in_flight" /\ v.fs = q.at
    BY <1>1 DEF ClaimOf
  <2>2. Uncharged
    BY <1>1, <1>5 DEF SlotTrue, Verdict, Holds, Free, Bare
  <2>3. Verdict(v)
    BY <1>1, <2>1, <2>2 DEF Verdict, Uncharged
  <2>4. Later /\ \A t \in Txs : Dead(t) => Dead(t)'
    BY <1>1, CalmIsLater
  <2>5. Facts'
    BY <1>1, <2>4, FactsKept DEF World
  <2>6. SlotTrue'
    <3>1. CASE slot' = slot
      BY <1>1, <2>4, <3>1, SlotKept
    <3>2. CASE slot' = v
      BY <1>1, <2>1, <2>3, <2>4, <3>2, LaterVerdict DEF SlotTrue
    <3> QED BY <1>5, <3>1, <3>2
  <2>7. CASE req' = Goto(r, "reply")
    <3> DEFINE n == MovedTo(q, "reply")
    <3>1. /\ Becomes(r, n) /\ n.pc = "reply" /\ ~n.paid /\ n.told = q.told
      BY <1>3, <2>7
    <3>2. req'[r] = n /\ \A s \in Reqs : s # r => req'[s] = req[s]
      BY <1>1, <3>1 DEF Becomes
    <3>3. \A t \in n.told : Dead(t)'
      BY <1>1, <2>4, <3>1 DEF Answers, ReqRec
    <3> HIDE DEF n
    <3>4. Honest(req[r])' /\ Attempted(r)'
      BY <3>1, <3>2, <3>3
      DEF Honest, Settles, Writes, Answers, Owns, Unsent, Attempted, At
    <3> QED BY <1>1, <1>2, <2>4, <2>5, <2>6, <3>2, <3>4, TrueStep
  <2>8. CASE /\ req' = [req EXCEPT ![r].pc = "serve", ![r].val = v]
             /\ attempt' = [attempt EXCEPT ![InstOf[r]] = r]
    <3> DEFINE n == Claimed(q, v)
    <3>1. Becomes(r, n)
      BY <1>1, <2>8, Moves
    <3>2. n.pc = "serve" /\ n.val = v /\ n.paid = q.paid /\ n.told = q.told
      BY <1>1 DEF Claimed, ReqRec
    <3>3. req'[r] = n /\ \A s \in Reqs : s # r => req'[s] = req[s]
      BY <1>1, <3>1 DEF Becomes
    <3>4. \A t \in n.told : Dead(t)'
      BY <1>1, <2>4, <3>2 DEF Answers, ReqRec
    <3>5. /\ \A w \in Values : w = v => Verdict(w)'
          /\ Uncharged'
      BY <2>2, <2>3, <2>4, LaterVerdict
    <3>6. Known(r)' = r
      BY <2>8, XrplAssumption DEF Known, TypeInv
    <3> HIDE DEF n, v
    <3>7. Verdict(req[r].val)'
      BY <1>1, <3>2, <3>3, <3>5
    <3>8. Honest(req[r])' /\ Attempted(r)'
      BY <1>1, <3>2, <3>3, <3>4, <3>5, <3>6, <3>7
      DEF Honest, Settles, Writes, Answers, Attempted, At
    <3> QED BY <1>1, <1>2, <2>4, <2>5, <2>6, <3>3, <3>8, TrueStep
  <2> QED BY <1>5, <2>7, <2>8 DEF Claim, Refused
<1> HIDE DEF q, v
<1> QED BY <1>4, <1>5 DEF Claim, Answered, Lost, SetNX, Refused, Holds, v

LEMMA ServeTrue ==
  ASSUME TypeInv, TypeInv', HoldInv, TrueInv, NEW r \in Reqs, Serve(r)
  PROVE  TrueInv'
<1> DEFINE q == req[r]
<1>1. /\ req \in [Reqs -> ReqRec] /\ q \in ReqRec /\ q.pc = "serve" /\ Owns(q)
      /\ UNCHANGED <<slot, World, marked, told, attempt>> /\ Honest(q)
      /\ Attempted(r) /\ q.kind.tx \in Txs /\ Tx(r) = q.kind.tx /\ ~q.paid
      /\ q.val \in Values /\ Holding(q)
  BY ValueTypes
  DEF Serve, At, TypeInv, external, seen, history, World, TrueInv, Owns, Tx, Shaped,
      ReqRec, HoldInv, Fits
<1>2. Uncharged
  BY <1>1 DEF Honest, Settles, Unsent
<1>3. ASSUME NEW a \in {"402", "no"}, Release(r, a)
      PROVE  TrueInv'
  <2>1. Free \in Values /\ Free.st = "free" /\ "del" \in Ops /\ a \in Replies
    BY ValueTypes DEF Free, Bare, Ops, Replies
  <2>2. Verdict(Free) /\ \A t \in Judged(r) : Dead(t)
    BY <1>1, <1>2, HolderKnows
  <2> QED BY <1>1, <1>3, <2>1, <2>2, EndsTrue DEF Release
<1>4. ASSUME NEW ran \in BOOLEAN, ~Used, Tx(r) \notin never,
             req' = [req EXCEPT ![r].pc = "settle", ![r].ran = ran]
      PROVE  TrueInv'
  <2> DEFINE n == Served(q, ran)
  <2>1. Becomes(r, n)
    BY <1>1, <1>4, Moves
  <2>2. /\ n.pc = "settle" /\ n.val = q.val /\ n.kind = q.kind /\ n.paid = q.paid
        /\ n.told = q.told /\ n.at = q.at
    BY <1>1 DEF Served, ReqRec
  <2>3. req'[r] = n /\ \A s \in Reqs : s # r => req'[s] = req[s]
    BY <1>1, <2>1 DEF Becomes
  <2>4. Later /\ \A t \in Txs : Dead(t) => Dead(t)'
    BY <1>1, CalmIsLater
  <2>5. /\ \A w \in Values : w = q.val => Verdict(w)'
        /\ Uncharged' /\ \A t \in q.told : Dead(t)'
    BY <1>1, <1>2, <2>4, LaterVerdict DEF Honest, Answers, ReqRec
  <2>6. led'[q.kind.tx] = "none" /\ q.kind.tx \notin never'
    BY <1>1, <1>4 DEF Used, World
  <2>7. /\ \A s \in Reqs : Known(s)' = Known(s)
        /\ q.val.st = "in_flight" => Known(r) = r
    BY <1>1 DEF Known, Attempted, Mine
  <2> HIDE DEF n, q
  <2>8. Verdict(req[r].val)'
    BY <1>1, <2>2, <2>3, <2>5
  <2>9. Settles(req[r])'
    BY <2>2, <2>3, <2>5, <2>6 DEF Settles
  <2>10. Attempted(r)'
    BY <2>2, <2>3, <2>7 DEF Attempted, At, Mine
  <2>11. Honest(req[r])'
    BY <1>1, <2>2, <2>3, <2>5, <2>8, <2>9 DEF Honest, Writes, Answers
  <2> QED BY <1>1, <2>3, <2>7, <2>10, <2>11, CalmStep
<1> QED BY <1>3, <1>4 DEF Serve

LEMMA SettleTrue ==
  ASSUME TypeInv, TypeInv', HoldInv, TrueInv, NEW r \in Reqs, Settle(r)
  PROVE  TrueInv'
<1> DEFINE q == req[r]
<1>1. /\ req \in [Reqs -> ReqRec] /\ q \in ReqRec /\ q.pc = "settle" /\ Owns(q)
      /\ UNCHANGED <<slot, led, closed, never, now, marked, told, attempt>>
      /\ Holding(q) /\ Honest(q) /\ Attempted(r) /\ Facts /\ SlotTrue /\ ~q.paid
      /\ q.kind.tx \in Txs /\ Tx(r) = q.kind.tx /\ q.val \in Values
  BY ValueTypes
  DEF Settle, At, TypeInv, Shaped, external, ReqRec, HoldInv, Fits, TrueInv, Owns,
      Tx
<1>2. /\ q.val.st = "in_flight" /\ q.val.tx = q.kind.tx /\ q.val.fs = q.at
      /\ q.val.rq = q.kind.rq /\ slot = q.val /\ Known(r) = r
  <2>1. /\ q.val.st = "in_flight" /\ q.val.tx = q.kind.tx /\ q.val.fs = q.at
        /\ q.val.rq = q.kind.rq /\ slot = q.val
    BY <1>1 DEF Holding
  <2> QED BY <1>1, <2>1 DEF Attempted, Mine
<1>3. PICK ask \in {"sent", "refused"} :
        /\ req' = [req EXCEPT ![r].pc = "asked", ![r].ask = ask,
                              ![r].att = Known(r)]
        /\ paidFor' = IF ask = "refused" THEN paidFor
                      ELSE [paidFor EXCEPT ![Tx(r)] = @ \cup {q.kind.rq}]
  BY DEF Settle
<1> DEFINE n == Asked(q, ask, Known(r))
<1>4. Becomes(r, n)
  BY <1>1, <1>3, Moves
<1>5. /\ n.pc = "asked" /\ n.val = q.val /\ n.paid = q.paid /\ n.told = q.told
      /\ n.ask = ask /\ n.att = r
  BY <1>1, <1>2 DEF Asked, ReqRec
<1>6. req'[r] = n /\ \A s \in Reqs : s # r => req'[s] = req[s]
  BY <1>1, <1>4 DEF Becomes
<1>7. /\ Alone(r) /\ \A s \in Reqs : Known(s)' = Known(s)
      /\ \A t \in Txs : Dead(t)' <=> Dead(t)
  BY <1>1 DEF HoldInv, Known, Dead
<1>8. \A t \in q.told : Dead(t)'
  BY <1>1, <1>7 DEF Honest, Answers, ReqRec
<1>9. Facts'
  <2>1. \A t \in never' : t \in never \/ led[t] = "none"
    BY <1>1
  <2> QED BY <1>1, <2>1, FactsKept
<1>10. /\ Uncharged /\ q.kind.tx \notin never /\ q.val.fs \in 0..now
       /\ led[q.kind.tx] = "paid" => closed[q.kind.tx] >= q.at
  BY <1>1, <1>2 DEF Honest, Settles, Unsent, Verdict
<1>11. Attempted(r)'
  <2> HIDE DEF n, q
  <2> QED BY <1>2, <1>5, <1>6, <1>7 DEF Attempted, At, Mine
<1>12. (ask = "refused" => Uncharged')
  BY <1>1, <1>3, <1>10 DEF Uncharged, Charged
<1>13. \A w \in Values : w = q.val => Verdict(w)'
  <2>1. \A t \in Txs : Charged(t)' =>
          /\ t = q.kind.tx /\ paidFor'[t] = {q.kind.rq}
    <3> SUFFICES ASSUME NEW t \in Txs, Charged(t)'
                 PROVE  t = q.kind.tx /\ paidFor'[t] = {q.kind.rq}
      OBVIOUS
    <3>1. ask = "sent" /\ paidFor \in [Txs -> SUBSET Rqs]
      BY <1>12 DEF Uncharged, TypeInv
    <3>2. paidFor[t] = {} \/ t \in never
      BY <1>10 DEF Uncharged, Charged
    <3>3. t = q.kind.tx
      BY <1>1, <1>3, <3>1, <3>2 DEF Charged
    <3>4. paidFor[t] = {}
      BY <1>10, <3>2, <3>3
    <3> QED BY <1>1, <1>3, <3>1, <3>3, <3>4
  <2> HIDE DEF q
  <2> QED BY <1>1, <1>2, <1>10, <2>1 DEF Verdict
<1>14. SlotTrue'
  <2> HIDE DEF q
  <2> QED BY <1>1, <1>2, <1>13 DEF SlotTrue
<1>15. Honest(req[r])'
  <2> HIDE DEF n, q
  <2>1. Verdict(req[r].val)'
    BY <1>1, <1>5, <1>6, <1>13
  <2>2. Settles(req[r])'
    BY <1>5, <1>6, <1>12 DEF Settles, Unsent
  <2>3. Writes(req[r])' /\ Answers(req[r])'
    BY <1>1, <1>5, <1>6, <1>8 DEF Writes, Answers
  <2> QED BY <2>1, <2>2, <2>3 DEF Honest
<1> QED BY <1>6, <1>7, <1>9, <1>11, <1>14, <1>15, TrueStep

LEMMA SettleAnswersTrue ==
  ASSUME TypeInv, TypeInv', HoldInv, TrueInv, NEW r \in Reqs, SettleAnswers(r)
  PROVE  TrueInv'
<1> DEFINE q == req[r]
<1>1. /\ req \in [Reqs -> ReqRec] /\ q \in ReqRec /\ q.pc = "asked" /\ Owns(q)
      /\ UNCHANGED <<slot, World, marked, told, attempt>>
      /\ Holding(q) /\ Honest(q) /\ Attempted(r) /\ ~q.paid /\ q.att = r
      /\ q.kind.tx \in Txs /\ Tx(r) = q.kind.tx /\ q.val \in Values
  BY ValueTypes
  DEF SettleAnswers, At, TypeInv, Shaped, external, seen, history, World, ReqRec,
      HoldInv, Fits, TrueInv, Owns, Tx, Attempted
<1>2. PICK out \in Outcomes(r), o \in BOOLEAN :
        \A s \in Reqs :
          LET p == IF s = r THEN Heard(req[s]) ELSE req[s]
          IN  req'[s] = IF s = req[r].att THEN NotedIn(p, out, o) ELSE p
  BY AnswerMoves
<1>3. /\ req'[r] = NotedIn(Heard(q), out, o)
      /\ \A s \in Reqs : s # r => req'[s] = req[s]
  <2>1. req'[r] = IF r = req[r].att THEN NotedIn(Heard(q), out, o) ELSE Heard(q)
    BY <1>2
  <2>2. ASSUME NEW s \in Reqs, s # r
        PROVE  req'[s] = req[s]
    <3>1. req'[s] = (IF s = req[r].att THEN NotedIn(req[s], out, o) ELSE req[s])
      BY <1>2, <2>2
    <3> QED BY <1>1, <2>2, <3>1
  <2> QED BY <1>1, <2>1, <2>2
<1>4. /\ req'[r].pc = "judge" /\ req'[r].val = q.val /\ req'[r].paid = q.paid
      /\ req'[r].told = q.told /\ req'[r].settle = out /\ req'[r].kind = q.kind
  BY <1>1, <1>3 DEF Heard, NotedIn, ReqRec
<1>5. /\ out = "failed" => q.ask = "refused"
      /\ out \in {"failed", "unconfirmed", "success"}
      /\ out = "success" => led[q.kind.tx] = "paid"
  BY <1>1 DEF Outcomes
<1>6. Later /\ \A t \in Txs : Dead(t) => Dead(t)'
  BY <1>1, CalmIsLater
<1>7. /\ \A w \in Values : w = q.val => Verdict(w)'
      /\ \A t \in q.told : Dead(t)'
      /\ out = "failed" => Uncharged'
      /\ out = "success" => led'[q.kind.tx] = "paid"
  <2>1. out = "failed" => Uncharged
    BY <1>1, <1>5 DEF Honest, Settles, Unsent
  <2> QED BY <1>1, <1>5, <1>6, <2>1, LaterVerdict DEF Honest, Answers, ReqRec, World
<1>8. \A s \in Reqs : Known(s)' = Known(s)
  BY <1>1 DEF Known
<1> HIDE DEF q
<1>9. Attempted(r)'
  BY <1>1, <1>4, <1>8 DEF Attempted, At, Mine, q
<1>10. Honest(req[r])'
  <2>1. Verdict(req[r].val)'
    BY <1>1, <1>4, <1>7
  <2>2. Settles(req[r])'
    BY <1>4, <1>5, <1>7 DEF Settles, Unsent
  <2>3. Writes(req[r])' /\ Answers(req[r])'
    BY <1>1, <1>4, <1>7 DEF Writes, Answers
  <2> QED BY <2>1, <2>2, <2>3 DEF Honest
<1> QED BY <1>1, <1>3, <1>8, <1>9, <1>10, CalmStep

\* What a read of the ledger shows.
LEMMA ReadsTrue ==
  ASSUME TypeInv, NEW t \in Txs, NEW ref \in Nat, NEW sees \in Reads(t, ref)
  PROVE  /\ sees \in {"null", "untimed", "mismatch", "replay", "fresh", "failed"}
         /\ sees = "failed" => led[t] = "failed"
         /\ sees \in {"untimed", "mismatch", "replay", "fresh"} => led[t] = "paid"
         /\ sees = "replay" => closed[t] < ref
<1>1. closed[t] \in Nat /\ Skew \in Nat
  BY XrplAssumption, StoreAssumption DEF TypeInv, Time
<1>2. /\ sees \in {"null", "untimed", "mismatch", "replay", "fresh", "failed"}
      /\ sees = "failed" => led[t] = "failed"
      /\ sees \in {"untimed", "mismatch", "replay", "fresh"} => led[t] = "paid"
      /\ sees = "replay" => closed[t] < ref - Skew
  BY DEF Reads
<1> QED BY <1>1, <1>2

LEMMA JudgeTrue ==
  ASSUME TypeInv, TypeInv', HoldInv, TrueInv, NEW r \in Reqs, Judge(r)
  PROVE  TrueInv'
<1> DEFINE q == req[r]
           v == Mine(r)
<1>1. /\ q \in ReqRec /\ q.pc = "judge" /\ Owns(q) /\ Holding(q) /\ Honest(q)
      /\ UNCHANGED <<slot, led, closed, paidFor, now, marked, told, attempt>>
      /\ Tx(r) = q.kind.tx /\ v = q.val /\ q.at \in Nat
      /\ q.settle \in {"none", "failed", "unconfirmed", "success"}
  BY StoreAssumption
  DEF Judge, At, TypeInv, Shaped, external, history, ReqRec, HoldInv, Fits, TrueInv,
      Owns, Tx, Mine, Time
<1>2. v.st = "in_flight" /\ v.tx = Tx(r) /\ v.fs = q.at /\ Tx(r) \in Txs
  BY <1>1 DEF Holding
<1>3. /\ Verdict(Undelivered(r)) /\ Verdict(Manual(r))
      /\ led[Tx(r)] = "paid" => /\ Verdict(Settled)
                                /\ paidFor[v.tx] \subseteq {v.rq}
                                /\ closed[Tx(r)] < q.at => Unpaid
      /\ led[Tx(r)] = "failed" \/ Uncharged =>
           Verdict(Failed) /\ \A t \in Judged(r) : Dead(t)
  BY <1>1, <1>2, HolderKnows
<1>4. /\ Free \in Values /\ Failed \in Values /\ Settled \in Values
      /\ Undelivered(r) \in Values /\ Manual(r) \in Values
      /\ Failed.st = "settle_failed" /\ Settled.st = "settled"
      /\ Undelivered(r).st = "settle_unconfirmed"
      /\ Manual(r).st = "settle_unconfirmed"
  <2>1. /\ Free \in Values /\ Failed \in Values /\ Settled \in Values
        /\ Undelivered(r) \in Values /\ Manual(r) \in Values
    BY <1>1, ValueTypes
  <2> QED BY <1>1, <2>1 DEF Failed, Settled, Bare, Undelivered, Manual, ReqRec, Values
<1>5. /\ q.settle # "none"
      /\ q.settle = "failed" => Uncharged
      /\ q.settle = "success" => led[Tx(r)] = "paid"
  BY <1>1 DEF Honest, Settles, Unsent
<1>6. ASSUME NEW op \in Ops, NEW a \in Replies,
             NEW w \in {Failed, Settled, Undelivered(r), Manual(r)},
             Says(r, op, w, a), Verdict(w),
             w = Settled => a = "200" \/ Unpaid,
             a = "200" => led[v.tx] = "paid" /\ paidFor[v.tx] \subseteq {v.rq}
                          /\ q.settle \in {"unconfirmed", "success"},
             a = "402" => \A t \in Judged(r) : Dead(t)
      PROVE  TrueInv'
  <2>1. /\ w \in Values /\ w.st # "free"
        /\ w.st = "settled" => a = "200" \/ Unpaid
    BY <1>4, <1>6
  <2>2. UNCHANGED <<slot, World, marked, told, attempt>> /\ Ends(r, op, w, a)
    BY <1>1, <1>6 DEF World, Says
  <2> HIDE DEF v
  <2> QED BY <1>1, <1>6, <2>1, <2>2, EndsTrue DEF v
<1>7. CASE q.settle = "failed" /\ Says(r, "set", Failed, "402")
  <2>1. Failed # Settled
    BY <1>4
  <2> QED BY <1>3, <1>5, <1>6, <1>7, <2>1 DEF Ops, Replies
<1>8. CASE Says(r, "set", Manual(r), "no")
  <2>1. Manual(r) # Settled
    BY <1>4
  <2> QED BY <1>3, <1>6, <1>8, <2>1 DEF Ops, Replies
<1>9. ASSUME NEW op \in Ops, Says(r, op, Undelivered(r), "no")
      PROVE  TrueInv'
  <2>1. Undelivered(r) # Settled
    BY <1>4
  <2> QED BY <1>3, <1>6, <1>9, <2>1 DEF Replies
<1>10. ASSUME NEW sees \in Reads(Tx(r), q.at), Confirm(r, sees),
              q.settle \in {"unconfirmed", "success"}
       PROVE  TrueInv'
  <2>1. /\ sees \in {"null", "untimed", "mismatch", "replay", "fresh", "failed"}
        /\ sees = "failed" => led[Tx(r)] = "failed"
        /\ sees \in {"untimed", "mismatch", "replay", "fresh"} => led[Tx(r)] = "paid"
        /\ sees = "replay" => closed[Tx(r)] < q.at
    BY <1>1, <1>2, ReadsTrue
  <2>2. CASE sees = "failed" /\ Says(r, "set", Failed, "402")
    <3>1. Failed # Settled
      BY <1>4
    <3> QED BY <1>3, <1>6, <2>1, <2>2, <3>1 DEF Ops, Replies
  <2>3. CASE sees = "replay" /\ Says(r, "set", Settled, "no")
    BY <1>3, <1>6, <2>1, <2>3 DEF Ops, Replies
  <2>4. CASE Says(r, "set", Settled, "200") /\ led[Tx(r)] = "paid"
    BY <1>2, <1>3, <1>6, <1>10, <2>4 DEF Ops, Replies
  <2>5. CASE NothingYet(r, Tx(r), "set")
    <3>1. CASE Says(r, "set", Undelivered(r), "no")
      BY <1>9, <3>1 DEF Ops
    <3>2. CASE NeverLanded(Tx(r)) /\ Ends(r, "casdel", Free, "402")
      <4>1. NeverLanded(Mine(r).tx)
        BY <1>2, <3>2 DEF NeverLanded
      <4> QED BY <1>1, <3>2, <4>1, BuriesTrue DEF Ops
    <3> QED BY <2>5, <3>1, <3>2 DEF NothingYet
  <2>6. CASE Says(r, "set", Undelivered(r), "no")
    BY <1>9, <2>6 DEF Ops
  <2> HIDE DEF q, v
  <2> QED BY <1>5, <1>10, <2>1, <2>2, <2>3, <2>4, <2>5, <2>6 DEF Confirm, q
<1> HIDE DEF v
<1>11. q.settle # "none" /\ q.settle \in {"failed", "unconfirmed", "success"}
  BY <1>1, <1>5
<1>12. CASE q.settle = "failed"
  <2>1. Says(r, "set", Failed, "402")
    BY <1>12 DEF Judge
  <2> QED BY <1>7, <1>12, <2>1
<1>13. CASE q.settle # "failed"
  <2>1. \/ Says(r, "set", Manual(r), "no") \/ Says(r, "set", Undelivered(r), "no")
        \/ \E sees \in Reads(Tx(r), q.at) : Confirm(r, sees)
    BY <1>11, <1>13 DEF Judge
  <2> QED BY <1>8, <1>9, <1>10, <1>11, <1>13, <2>1 DEF Ops
<1> QED BY <1>12, <1>13

LEMMA ThrowTrue ==
  ASSUME TypeInv, TypeInv', HoldInv, TrueInv, NEW r \in Reqs, Throw(r)
  PROVE  TrueInv'
<1> DEFINE q == req[r]
           u == Undelivered(r)
<1>1. /\ req \in [Reqs -> ReqRec] /\ q \in ReqRec /\ Owns(q) /\ Holding(q)
      /\ Honest(q) /\ UNCHANGED <<slot, World, marked, told, attempt>>
      /\ Mine(r) = q.val /\ q.val.st = "in_flight" /\ Known(r) = r
      /\ q.pc \in {"serve", "judge", "reply"} /\ (q.pc = "reply" => q.paid)
      /\ q.pc # "idle"
  BY DEF Throw, Throws, First, At, TypeInv, external, seen, history, World, HoldInv,
         Fits, TrueInv, Attempted, Owns, Mine
<1>2. /\ Verdict(u) /\ u.st = "settle_unconfirmed" /\ u \in Values
      /\ Uncharged => Verdict(Free) /\ \A t \in Judged(r) : Dead(t)
  <2>1. u \in Values /\ u.st = "settle_unconfirmed"
    BY <1>1, ValueTypes DEF Undelivered, ReqRec, Values
  <2> QED BY <1>1, <2>1, HolderKnows
<1>3. /\ q.settle = "none" => q.pc = "serve"
      /\ q.settle = "failed" => q.pc # "reply"
  BY <1>1 DEF Honest, Settles, Answers
<1>4. (q.pc = "serve" \/ (q.pc = "judge" /\ q.settle = "failed")) => Uncharged
  BY <1>1 DEF Honest, Settles, Unsent
<1>5. CASE Release(r, "402") /\ q.settle = "none"
  <2>1. Free \in Values /\ Free.st = "free" /\ "del" \in Ops /\ "402" \in Replies
    BY ValueTypes DEF Free, Bare, Ops, Replies
  <2> QED BY <1>1, <1>2, <1>3, <1>4, <1>5, <2>1, EndsTrue DEF Release
<1>6. CASE /\ q.settle = "failed"
           /\ req' = [Refused(r) EXCEPT ![r].paid = FALSE, ![r].told = Judged(r)]
  <2> DEFINE n == Rejected(q)
  <2>1. n \in ReqRec /\ Becomes(r, n)
    BY <1>1, <1>6, RecordsTyped, Moves
  <2>2. n.pc = "reply" /\ ~n.paid /\ n.told = ToldBy(q, "402")
    BY <1>1 DEF Rejected, ReqRec
  <2>3. \A t \in n.told : Dead(t)
    BY <1>1, <1>2, <1>3, <1>4, <1>6, <2>2 DEF ToldBy, Judged
  <2>4. \A s \in Reqs : Known(s)' = Known(s)
    BY <1>1 DEF Known
  <2> HIDE DEF n
  <2> QED BY <1>1, <2>1, <2>2, <2>3, <2>4, QuietStep
<1>7. CASE Ends(r, "set", [u EXCEPT !.tx = Tx(r), !.rq = q.kind.rq], "no")
  <2>1. u.tx = Tx(r) /\ u.rq = q.kind.rq
    BY <1>1 DEF Holding, Undelivered, Tx, ReqRec, Values
  <2>2. [u EXCEPT !.tx = Tx(r), !.rq = q.kind.rq] = u
    <3> HIDE DEF u
    <3> QED BY <1>2, <2>1 DEF Values
  <2>3. Ends(r, "set", u, "no") /\ "set" \in Ops /\ "no" \in Replies
        /\ "no" \notin {"200", "402"}
    BY <1>7, <2>2 DEF Ops, Replies
  <2> HIDE DEF u
  <2> QED BY <1>1, <1>2, <2>3, EndsTrue
<1> HIDE DEF u
<1> QED BY <1>1, <1>5, <1>6, <1>7, StoreAssumption DEF Throw, u

LEMMA ReadTrue ==
  ASSUME TypeInv, TypeInv', HoldInv, TrueInv, NEW r \in Reqs, Read(r)
  PROVE  TrueInv'
<1> DEFINE q == req[r]
<1>1. /\ req \in [Reqs -> ReqRec] /\ q \in ReqRec /\ q.pc = "read" /\ ~q.paid
      /\ UNCHANGED <<World, slot, marked, told>> /\ slot \in Values /\ now \in Time
      /\ \A s \in Reqs : Known(s)' = Known(s)
      /\ \A t \in q.told : Dead(t)
  BY DEF Read, Throws, At, TypeInv, Shaped, external, seen, history, World, TrueInv,
         Honest, Answers, Known
<1>2. CASE req' = Refused(r)
  <2> DEFINE n == MovedTo(q, "reply")
  <2>1. n \in ReqRec /\ Becomes(r, n)
    BY <1>1, <1>2, RecordsTyped, Moves DEF Refused, Steps
  <2>2. n.pc = "reply" /\ ~n.paid /\ n.told = q.told
    BY <1>1 DEF MovedTo, ReqRec
  <2> HIDE DEF n
  <2> QED BY <1>1, <2>1, <2>2, QuietStep
<1>3. CASE req' = [req EXCEPT ![r].pc = "take", ![r].val = slot, ![r].fs = now]
  <2> DEFINE n == HasRead(q, "take", slot, now)
  <2>1. n \in ReqRec /\ Becomes(r, n)
    BY <1>1, <1>3, RecordsTyped, Moves DEF Steps
  <2>2. n.pc = "take" /\ ~n.paid /\ n.told = q.told
    BY <1>1 DEF HasRead, ReqRec
  <2> HIDE DEF n
  <2> QED BY <1>1, <2>1, <2>2, QuietStep
<1> QED BY <1>2, <1>3 DEF Read

LEMMA TakeTrue ==
  ASSUME TypeInv, TypeInv', HoldInv, TrueInv, NEW r \in Reqs, Take(r)
  PROVE  TrueInv'
<1> DEFINE q == req[r]
           v == LeaseOf(r)
           m == MovedTo(q, "reply")
           n == HasRead(q, "look", v, q.at)
<1>1. /\ req \in [Reqs -> ReqRec] /\ q \in ReqRec /\ q.pc = "take" /\ ~q.paid
      /\ UNCHANGED <<World, marked, told>> /\ Mine(r) = q.val /\ q.val \in Values
      /\ \A s \in Reqs : Known(s)' = Known(s)
      /\ \A t \in q.told : Dead(t)
      /\ Facts /\ SlotTrue /\ TakesOver(q) /\ q.told \subseteq Txs
  BY DEF Take, At, TypeInv, Shaped, external, seen, history, World, TrueInv, HoldInv,
         Fits, Honest, Answers, Known, Mine, ReqRec
<1>2. Later /\ \A t \in Txs : Dead(t) => Dead(t)'
  BY <1>1, CalmIsLater
<1>3. v \in Values
  BY <1>1, ValueTypes
<1>4. /\ m.pc = "reply" /\ ~m.paid /\ m.told = q.told /\ m \in ReqRec
      /\ n.pc = "look" /\ n.val = v /\ ~n.paid /\ n.told = q.told
  <2>1. m \in ReqRec
    BY <1>1, RecordsTyped DEF Steps
  <2> QED BY <1>1, <2>1 DEF MovedTo, HasRead, ReqRec
<1>5. \/ Becomes(r, m)
      \/ Becomes(r, n) /\ Holds(Mine(r)) /\ slot' = v
  BY <1>1, Moves DEF Take, Refused, Answered, CompareAndSet, Holds
<1>6. slot' = slot \/ (Holds(Mine(r)) /\ slot' = v)
  BY DEF Take, Answered, Lost, CompareAndSet, Holds
<1> HIDE DEF m, n
<1>7. CASE slot' = slot /\ Becomes(r, m)
  BY <1>1, <1>4, <1>7, QuietStep
<1>8. CASE Holds(Mine(r)) /\ slot' = v
  <2>1. /\ Verdict(q.val)
        /\ q.val.st \in {"in_flight", "settle_unconfirmed", "redeeming"}
    BY <1>1, <1>8 DEF SlotTrue, Holds, TakesOver
  <2>2. v.st = "redeeming" /\ v.fs = q.val.fs /\ v.tx = q.val.tx /\ v.rq = q.val.rq
    BY <1>1 DEF LeaseOf, ReqRec, Values
  <2> HIDE DEF v
  <2>3. Verdict(v)
    BY <2>1, <2>2 DEF Verdict
  <2>4. \A w \in Values : w = v => Verdict(w)'
    BY <1>2, <2>3, LaterVerdict
  <2>5. SlotTrue'
    BY <1>3, <1>8, <2>2, <2>4 DEF SlotTrue
  <2>6. /\ req'[r] \in {m, n} /\ \A s \in Reqs : s # r => req'[s] = req[s]
    BY <1>1, <1>5 DEF Becomes
  <2>7. \A s \in Reqs : ~Owns(req[s])
    BY <1>1, <1>8, LapsedMeans DEF At
  <2>8. Facts'
    BY <1>1, <1>2, FactsKept DEF World
  <2>9. \A t \in q.told : Dead(t)'
    BY <1>1, <1>2
  <2> HIDE DEF q
  <2>10. Honest(req[r])' /\ Attempted(r)'
    <3>1. CASE req'[r] = m
      BY <1>1, <1>4, <2>9, <3>1
      DEF Honest, Settles, Writes, Answers, Owns, Unsent, Attempted, At
    <3>2. CASE req'[r] = n
      <4>1. Verdict(req[r].val)'
        BY <1>3, <1>4, <2>4, <3>2
      <4>2. (req[r].val.st = "redeeming")'
        BY <1>4, <2>2, <3>2
      <4>3. Settles(req[r])' /\ Writes(req[r])' /\ Answers(req[r])'
        BY <1>1, <1>4, <2>9, <3>2 DEF Settles, Writes, Answers, Unsent
      <4> QED BY <1>4, <3>2, <4>1, <4>2, <4>3 DEF Honest, Attempted, At, Mine
    <3> QED BY <2>6, <3>1, <3>2
  <2> QED BY <1>1, <1>2, <2>5, <2>6, <2>8, <2>10, TrueStep
<1> QED BY <1>5, <1>6, <1>7, <1>8

LEMMA LookTrue ==
  ASSUME TypeInv, TypeInv', HoldInv, TrueInv, NEW r \in Reqs, Look(r)
  PROVE  TrueInv'
<1> DEFINE q == req[r]
           v == Mine(r)
<1>1. /\ q \in ReqRec /\ q.pc = "look" /\ Owns(q) /\ Holding(q) /\ Honest(q)
      /\ UNCHANGED <<slot, led, closed, paidFor, now, marked, told, attempt>>
      /\ v = q.val
  BY DEF Look, At, TypeInv, external, history, HoldInv, Fits, TrueInv, Owns, Mine
<1>2. /\ v.st = "redeeming" /\ v.tx \in Txs /\ v.fs \in Nat
      /\ Verdict(Undelivered(r))
      /\ led[v.tx] = "paid" => /\ Verdict(Delivered(r))
                               /\ paidFor[v.tx] \subseteq {v.rq}
                               /\ closed[v.tx] < v.fs => Unpaid
      /\ led[v.tx] = "failed" => Verdict(Failed) /\ \A t \in Judged(r) : Dead(t)
  <2>1. v.st = "redeeming"
    BY <1>1 DEF Holding
  <2> QED BY <1>1, <2>1, HolderKnows
<1>3. /\ Failed \in Values /\ Undelivered(r) \in Values /\ Delivered(r) \in Values
      /\ Failed.st = "settle_failed" /\ Undelivered(r).st = "settle_unconfirmed"
      /\ Delivered(r).st = "settled"
  <2>1. /\ Failed \in Values /\ Undelivered(r) \in Values /\ Delivered(r) \in Values
    BY <1>1, ValueTypes
  <2> QED BY <1>1, <2>1 DEF Failed, Bare, Undelivered, Delivered, ReqRec, Values
<1>4. ASSUME NEW op \in Ops, NEW a \in Replies,
             NEW w \in {Failed, Undelivered(r), Delivered(r)},
             Says(r, op, w, a), Verdict(w),
             w = Delivered(r) => a = "200" \/ Unpaid,
             a = "200" => led[v.tx] = "paid" /\ paidFor[v.tx] \subseteq {v.rq},
             a = "402" => \A t \in Judged(r) : Dead(t)
      PROVE  TrueInv'
  <2>1. /\ w \in Values /\ w.st # "free"
        /\ w.st = "settled" => a = "200" \/ Unpaid
    BY <1>3, <1>4
  <2>2. UNCHANGED <<slot, World, marked, told, attempt>> /\ Ends(r, op, w, a)
    BY <1>1, <1>4 DEF World, Says
  <2>3. Mine(r).st # "in_flight"
    BY <1>2
  <2> HIDE DEF v
  <2> QED BY <1>1, <1>4, <2>1, <2>2, <2>3, EndsTrue DEF v
<1>5. PICK sees \in Reads(v.tx, v.fs) : Looks(r, sees)
  BY DEF Look
<1>6. /\ sees \in {"null", "untimed", "mismatch", "replay", "fresh", "failed"}
      /\ sees = "failed" => led[v.tx] = "failed"
      /\ sees \in {"untimed", "mismatch", "replay", "fresh"} => led[v.tx] = "paid"
      /\ sees = "replay" => closed[v.tx] < v.fs
  <2> HIDE DEF v
  <2> QED BY <1>2, <1>5, ReadsTrue
<1>7. /\ Failed # Delivered(r) /\ Undelivered(r) # Delivered(r)
      /\ "cas" \in Ops /\ "casdel" \in Ops /\ Replies = {"200", "402", "no"}
  BY <1>3 DEF Ops, Replies
<1>8. CASE sees = "failed" /\ Says(r, "cas", Failed, "402")
  BY <1>2, <1>4, <1>6, <1>7, <1>8
<1>9. CASE sees = "replay" /\ Says(r, "cas", Delivered(r), "no")
  BY <1>2, <1>4, <1>6, <1>7, <1>9
<1>10. CASE sees = "fresh" /\ Says(r, "cas", Delivered(r), "200")
  BY <1>2, <1>4, <1>6, <1>7, <1>10
<1>11. CASE Says(r, "cas", Undelivered(r), "no")
  BY <1>2, <1>4, <1>7, <1>11
<1>12. CASE NeverLanded(v.tx) /\ Ends(r, "casdel", Free, "402")
  BY <1>1, <1>7, <1>12, BuriesTrue
<1> HIDE DEF q
<1> QED BY <1>5, <1>6, <1>8, <1>9, <1>10, <1>11, <1>12 DEF Looks, NothingYet

LEMMA ThrowRedeemTrue ==
  ASSUME TypeInv, TypeInv', HoldInv, TrueInv, NEW r \in Reqs, ThrowRedeem(r)
  PROVE  TrueInv'
<1>1. /\ req[r] \in ReqRec /\ Owns(req[r]) /\ req[r].pc # "idle"
      /\ UNCHANGED <<slot, World, marked, told, attempt>>
      /\ Ends(r, "casany", Undelivered(r), "no")
  BY DEF ThrowRedeem, Throws, At, TypeInv, Owns, external, seen, history, World
<1>2. Undelivered(r) \in Values /\ Undelivered(r).st = "settle_unconfirmed"
  BY <1>1, ValueTypes DEF Undelivered, Mine, ReqRec, Values
<1>3. Verdict(Undelivered(r))
  BY <1>1, HolderKnows
<1>4. "casany" \in Ops /\ "no" \in Replies /\ "no" \notin {"200", "402"}
  BY DEF Ops, Replies
<1> QED BY <1>1, <1>2, <1>3, <1>4, EndsTrue

\* The last write is one the holder knew to be true, or nothing.
LEMMA WriteTrue ==
  ASSUME TypeInv, TypeInv', HoldInv, TrueInv, NEW r \in Reqs, Write(r)
  PROVE  TrueInv'
<1> DEFINE q == req[r]
           n == MovedTo(q, "reply")
           w == q.todo.next
<1>1. /\ req \in [Reqs -> ReqRec] /\ q \in ReqRec /\ q.pc = "write" /\ Shaped(q)
      /\ w \in Values /\ Owns(q) /\ Alone(r) /\ Honest(q) /\ Attempted(r)
      /\ Facts /\ SlotTrue /\ req' = Goto(r, "reply")
      /\ UNCHANGED <<World, told, attempt>> /\ marked' = (marked \/ q.paid)
  BY DEF Write, At, TypeInv, HoldInv, TrueInv, Owns, ReqRec, Todos, World, external
<1>2. slot' \in {slot, w}
  <2>1. slot' \in {slot, After(r)}
    BY DEF Write, Answered, Lost
  <2>2. After(r) \in {slot, w} \cup {Free} /\ (After(r) = Free => After(r) \in {slot, w})
    BY <1>1 DEF After, Shaped, Ops, Put, Del, CompareAndSet, CompareAndDelete
  <2> QED BY <2>1, <2>2
<1>3. Becomes(r, n)
  BY <1>1, Moves
<1>4. /\ n.pc = "reply" /\ n.paid = q.paid /\ n.val = q.val /\ n.settle = q.settle
      /\ n.told = q.told
  BY <1>1 DEF MovedTo, ReqRec
<1>5. /\ req'[r] = n /\ \A s \in Reqs : s # r => req'[s] = req[s]
  BY <1>1, <1>3 DEF Becomes
<1>6. Later /\ never' = never /\ \A t \in Txs : Dead(t) => Dead(t)'
  BY <1>1, CalmIsLater DEF World
<1>7. Facts'
  <2>1. led' = led
    BY <1>1 DEF World
  <2> QED BY <1>1, <1>6, <2>1, FactsKept
<1>8. SlotTrue'
  <2>1. CASE slot' = slot
    BY <1>1, <1>6, <2>1, SlotKept
  <2>2. CASE slot' = w
    <3>1. \A v \in Values : v = w => Verdict(v)'
      BY <1>1, <1>6, LaterVerdict DEF Honest, Writes
    <3>2. Verdict(slot)'
      BY <1>1, <2>2, <3>1
    <3>3. w.st = "settled" => q.paid \/ Unpaid'
      BY <1>1, <1>6, LaterVerdict DEF Honest, Writes, Verdict
    <3>4. w.st = "free" => w = Free
      BY <1>1 DEF Honest, Writes
    <3> HIDE DEF w, q
    <3> QED BY <1>1, <2>2, <3>2, <3>3, <3>4 DEF SlotTrue
  <2> QED BY <1>2, <2>1, <2>2
<1>9. \A v \in Values : v = q.val => Verdict(v)'
  BY <1>1, <1>6, LaterVerdict DEF Honest
<1>10. \A t \in q.told : Dead(t)'
  BY <1>1, <1>6 DEF Honest, Answers, ReqRec
<1>11. Honest(req[r])'
  <2>0. q.val \in Values
    BY <1>1 DEF ReqRec
  <2>1. Verdict(req[r].val)'
    <3> HIDE DEF n, q
    <3> QED BY <1>4, <1>5, <1>9, <2>0
  <2>2. Settles(req[r])' /\ Writes(req[r])'
    <3> HIDE DEF n, q
    <3> QED BY <1>4, <1>5 DEF Settles, Writes, Unsent
  <2>3. q.paid => /\ led'[q.val.tx] = "paid" /\ paidFor'[q.val.tx] \subseteq {q.val.rq}
                  /\ q.val.st = "in_flight" => q.settle \in {"unconfirmed", "success"}
    BY <1>1 DEF Honest, Answers, World
  <2>4. Answers(req[r])'
    <3> HIDE DEF n, q
    <3> QED BY <1>4, <1>5, <1>10, <2>3 DEF Answers
  <2> QED BY <2>1, <2>2, <2>4 DEF Honest
<1>12. Attempted(r)'
  <2>1. Known(r)' = Known(r)
    BY <1>1 DEF Known
  <2> HIDE DEF n
  <2> QED BY <1>1, <1>4, <1>5, <2>1 DEF Attempted, Mine, At
<1>13. \A s \in Reqs : Known(s)' = Known(s)
  BY <1>1 DEF Known
<1> HIDE DEF q, n, w
<1> QED BY <1>1, <1>5, <1>6, <1>7, <1>8, <1>11, <1>12, <1>13, TrueStep

LEMMA LeaveTrue ==
  ASSUME OwnInstance, TypeInv, TypeInv', HoldInv, TrueInv, NEW r \in Reqs,
         Reply(r) \/ Dies(r)
  PROVE  TrueInv'
<1>1. /\ Becomes(r, Idle) /\ UNCHANGED <<World, slot, marked>>
      /\ told' \subseteq told \cup req[r].told
  BY DEF Reply, Dies, Becomes, seen, history, external, World
<1>2. Idle \in ReqRec /\ Idle.pc = "idle" /\ ~Idle.paid /\ Idle.told = {}
  BY ValueTypes DEF Idle
<1>3. \A t \in told' : t \in told \/ Dead(t)
  BY <1>1 DEF TrueInv, Honest, Answers
<1>4. \A s \in Reqs : s # r /\ Known(s) = s => Known(s)' = s
  <2> SUFFICES ASSUME NEW s \in Reqs, s # r, Known(s) = s PROVE Known(s)' = s
    OBVIOUS
  <2>1. attempt \in [Insts -> Reqs \cup {None}] /\ InstOf[s] \in Insts
        /\ InstOf[r] # InstOf[s]
    BY XrplAssumption DEF TypeInv, OwnInstance
  <2>2. attempt'[InstOf[s]] = attempt[InstOf[s]]
    BY <2>1 DEF Reply, Dies, Known
  <2> QED BY <2>2 DEF Known
<1> HIDE DEF Idle
<1> QED BY <1>1, <1>2, <1>3, <1>4, QuietStep

\* The ledger and the clock go on by themselves.
LEMMA WorldTrue ==
  ASSUME TypeInv, TypeInv', HoldInv, TrueInv,
         UNCHANGED vars \/ Tick \/ \E t \in Txs : Land(t) \/ Fail(t)
  PROVE  TrueInv'
<1>1. /\ UNCHANGED <<slot, attempt, req, never, paidFor, told, marked>>
      /\ Facts /\ SlotTrue
  BY DEF vars, Tick, Land, Fail, Takes, seen, history, external, TrueInv
<1>2. Later
  <2>1. now <= now'
    BY StoreAssumption DEF vars, Tick, Land, Fail, Takes, TypeInv, Time
  <2>2. \A t \in Txs : \/ led'[t] = led[t] /\ closed'[t] = closed[t]
                       \/ /\ ~Used /\ t \notin never
                          /\ led'[t] = "paid" => closed'[t] = now
    BY DEF vars, Tick, Land, Fail, Takes, external, TypeInv
  <2> QED BY <1>1, <2>1, <2>2 DEF Later
<1>3. Facts'
  <2>1. \/ led' = led
        \/ \E t \in Txs : /\ ~Used /\ t \notin never
                          /\ \A u \in Txs : u # t => led'[u] = led[u]
    BY DEF vars, Tick, Land, Fail, Takes, external, TypeInv
  <2>2. CASE led' = led
    BY <1>1, <2>2, FactsKept
  <2>3. ASSUME NEW t \in Txs, ~Used, t \notin never,
               \A u \in Txs : u # t => led'[u] = led[u]
        PROVE  Facts'
    BY <1>1, <2>3 DEF Facts, Used, Dead, TypeInv
  <2> QED BY <2>1, <2>2, <2>3
<1>4. SlotTrue'
  BY <1>1, <1>2, SlotKept
<1>5. \A t \in Txs : Dead(t) => Dead(t)'
  BY <1>1, <1>2 DEF Later, Dead, Used
<1>6. ASSUME NEW s \in Reqs
      PROVE  Honest(req[s])' /\ Attempted(s)'
  <2>1. Honest(req[s]) /\ Attempted(s) /\ Known(s)' = Known(s)
    BY <1>1 DEF TrueInv, Known
  <2> QED BY <1>1, <1>2, <1>5, <2>1, OthersHonest
<1> QED BY <1>3, <1>4, <1>6 DEF TrueInv

LEMMA InitTrue == Init => TrueInv
<1> SUFFICES ASSUME Init PROVE TrueInv
  OBVIOUS
<1>1. /\ slot = Free /\ Free.st = "free" /\ marked = FALSE /\ told = {} /\ never = {}
      /\ \A t \in Txs : led[t] = "none" /\ paidFor[t] = {}
  BY DEF Init, Free, Bare
<1>2. \A r \in Reqs : /\ req[r].pc = "idle" /\ ~req[r].paid /\ req[r].told = {}
  BY DEF Init, Idle
<1>3. Facts /\ SlotTrue
  BY <1>1 DEF Facts, SlotTrue, Verdict, Uncharged, Charged
<1>4. ASSUME NEW r \in Reqs PROVE Honest(req[r]) /\ Attempted(r)
  BY <1>2 DEF Honest, Owns, Settles, Unsent, Writes, Answers, Attempted, At
<1> QED BY <1>3, <1>4 DEF TrueInv

LEMMA NextTrue ==
  ASSUME OwnInstance
  PROVE  TypeInv /\ TypeInv' /\ HoldInv /\ TrueInv /\ [Next]_vars => TrueInv'
<1> SUFFICES ASSUME TypeInv, TypeInv', HoldInv, TrueInv, [Next]_vars PROVE TrueInv'
  OBVIOUS
<1>1. CASE UNCHANGED vars \/ Tick \/ \E t \in Txs : Land(t) \/ Fail(t)
  BY <1>1, WorldTrue
<1>2. ASSUME NEW r \in Reqs, \E k \in Kinds : Open(r, k) PROVE TrueInv'
  BY <1>2, OpenTrue
<1>3. ASSUME NEW r \in Reqs,
             \/ Claim(r) \/ Serve(r) \/ Settle(r) \/ SettleAnswers(r) \/ Judge(r)
             \/ Throw(r) \/ Read(r) \/ Take(r) \/ Look(r) \/ ThrowRedeem(r)
             \/ Write(r) \/ Reply(r) \/ Dies(r)
      PROVE  TrueInv'
  BY <1>3, ClaimTrue, ServeTrue, SettleTrue, SettleAnswersTrue, JudgeTrue, ThrowTrue,
     ReadTrue, TakeTrue, LookTrue, ThrowRedeemTrue, WriteTrue, LeaveTrue
<1> QED BY <1>1, <1>2, <1>3 DEF Next

LEMMA Truth ==
  ASSUME OwnInstance
  PROVE  Spec => [](TypeInv /\ HoldInv /\ OnceInv /\ TrueInv)
<1>1. Init => TypeInv /\ HoldInv /\ OnceInv /\ TrueInv
  BY InitTypes, InitHold, InitOnce, InitTrue
<1>2. TypeInv /\ HoldInv /\ OnceInv /\ TrueInv /\ [Next]_vars
        => (TypeInv /\ HoldInv /\ OnceInv /\ TrueInv)'
  BY NextTypes, NextHold, NextOnce, NextTrue
<1> QED BY <1>1, <1>2, PTL DEF Spec

\* What is delivered was paid for on the ledger, by the transaction of the
\* payment it was delivered for, and once.
THEOREM DeliveredOncePerPayment ==
  ASSUME OwnInstance
  PROVE  Spec => []DeliveredOnce
<1>1. TypeInv /\ HoldInv /\ TrueInv => DeliveredToPayer
  <2> SUFFICES ASSUME TypeInv, HoldInv, TrueInv, NEW r \in Reqs,
                      req[r].paid, At(r, "reply")
               PROVE  \E t \in Txs : /\ led[t] = "paid"
                                     /\ paidFor[t] # {} => req[r].kind.rq \in paidFor[t]
    BY DEF DeliveredToPayer
  <2>1. Holding(req[r]) /\ Owns(req[r]) /\ Answers(req[r])
    BY DEF HoldInv, Fits, TrueInv, Honest, Owns, At
  <2>2. /\ req[r].val.tx \in Txs /\ req[r].val.rq = req[r].kind.rq
        /\ led[req[r].val.tx] = "paid"
        /\ paidFor[req[r].val.tx] \subseteq {req[r].val.rq}
    BY <2>1 DEF Holding, Answers
  <2> QED BY <2>2
<1>2. TypeInv /\ OnceInv => OneDelivery
  BY DEF OnceInv, OneDelivery, TypeInv
<1>3. TypeInv /\ HoldInv /\ OnceInv /\ TrueInv => DeliveredOnce
  BY <1>1, <1>2 DEF DeliveredOnce
<1> QED BY <1>3, Truth, PTL

\* Whoever is answered 402, pay again, after getting past the claim, is answered
\* so of a transaction that failed or can never land.
THEOREM RefusedIsNotCharged ==
  ASSUME OwnInstance
  PROVE  Spec => []RefusedNotCharged
<1>1. TypeInv /\ TrueInv => RefusedNotCharged
  BY DEF TrueInv, Facts, Dead, RefusedNotCharged, TypeInv
<1> QED BY <1>1, Truth, PTL

\* A payment that landed and was not delivered stays in the slot with what a
\* redeem needs, or some request or a delivered mark accounts for it.
THEOREM ChargedIsRecoverable ==
  ASSUME OwnInstance
  PROVE  Spec => []ChargedRecoverable
<1>1. TypeInv /\ TrueInv => ChargedRecoverable
  <2> SUFFICES ASSUME TypeInv, TrueInv, NEW t \in Txs,
                      led[t] = "paid", paidFor[t] # {}, delivered = 0
               PROVE  \/ Redeemable(t)
                      \/ slot.st = "settled" /\ marked
    BY DEF ChargedRecoverable
  <2>1. Charged(t) /\ Verdict(slot) /\ SlotTrue
    BY DEF TrueInv, SlotTrue, Facts, Charged
  <2>2. slot.st \in States \cup {"free"}
    BY DEF TypeInv, Values
  <2>3. CASE slot.st \in {"in_flight", "settle_unconfirmed", "redeeming"}
    BY <2>1, <2>3 DEF Verdict, Redeemable
  <2>4. CASE slot.st = "settled"
    BY <2>1, <2>4 DEF SlotTrue, Unpaid
  <2>5. slot.st \notin {"settle_failed", "free"}
    BY <2>1 DEF Verdict, Uncharged
  <2> QED BY <2>2, <2>3, <2>4, <2>5 DEF States
<1> QED BY <1>1, Truth, PTL
=============================================================================
