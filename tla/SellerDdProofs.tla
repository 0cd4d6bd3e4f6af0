--------------------------- MODULE SellerDdProofs ---------------------------
(***************************************************************************)
(* Theorems about SellerDd, for any requests, authorizations, redeems, cron   *)
(* passes, caps and clocks, and any number of store errors and crashes.       *)
(***************************************************************************)
EXTENDS SellerDd, FiniteSetTheorems, TLAPS

----------------------------------------------------------------------------
(* Types. *)

LedgerType ==
  /\ spent \in Int /\ hosts \in Int
  /\ rec \subseteq Reqs /\ open \subseteq Reqs /\ index \subseteq Reqs
  /\ released \subseteq Reqs /\ lossRec \subseteq Reqs
  /\ loss \in [Reqs -> Int] /\ expires \in [Reqs -> Nat]
  /\ test \in [Reqs -> {"none", "signed", "landed"}]
StoreType ==
  /\ claim \in [Auths -> Claims] /\ verdict \in [Auths -> Reqs \cup {None}]
  /\ logged \subseteq Reqs /\ pend \subseteq Auths /\ closed \subseteq Auths
  /\ slots \in Int /\ fails \in Nat
SeenType ==
  /\ sent \subseteq Reqs /\ unsigned \subseteq Reqs /\ told \subseteq Auths
  /\ chain \in [Auths -> {"unused", "paid", "cancelled"}]
  /\ delivered \in [Reqs -> Nat]
ActorsType == req \in [Reqs -> Request] /\ act \in [Acts -> Actor]
MetersType == now \in Nat /\ faults \in Nat /\ crashes \in Nat
\* Who is under way knows what it works on.
KnownType ==
  /\ \A r \in Reqs : req[r].pc # "new" => Auth(r) \in Auths /\ req[r].rq \in Rqs
  /\ \A d \in Acts : /\ act[d].pc \notin {"idle", "adjust"} => act[d].auth \in Auths
                     /\ act[d].pc = "adjust" => act[d].by \in Reqs
TypeInv == /\ LedgerType /\ StoreType /\ SeenType /\ ActorsType /\ MetersType
           /\ KnownType

Places == {"new", "end"} \cup Early \cup Engine \cup Late
Turnings == {"idle", "probe", "judge", "close", "lose", "drop", "give", "hand",
             "adjust"}

\* A request goes on; an actor becomes n.
Goes(r, l) == /\ req' \in [Reqs -> Request] /\ act' = act
              /\ req'[r] = [req[r] EXCEPT !.pc = l]
              /\ \A q \in Reqs \ {r} : req'[q] = req[q]
Becomes(d, n) == /\ act' \in [Acts -> Actor] /\ req' = req
                 /\ act'[d] = n
                 /\ \A e \in Acts \ {d} : act'[e] = act[e]

LEMMA Going ==
  ASSUME TypeInv, NEW r \in Reqs, NEW l \in Places, Goto(r, l)
  PROVE  Goes(r, l)
<1>1. req[r] \in Request /\ [req[r] EXCEPT !.pc = l] \in Request
  BY DEF TypeInv, ActorsType, Request, Places
<1> QED BY <1>1 DEF TypeInv, ActorsType, Goto, Goes

LEMMA Ending ==
  ASSUME TypeInv, NEW r \in Reqs, End(r)
  PROVE  Goes(r, "end")
  BY Going DEF End, Places

LEMMA Turning ==
  ASSUME TypeInv, NEW d \in Acts, NEW l \in Turnings, Turn(d, l)
  PROVE  Becomes(d, [act[d] EXCEPT !.pc = l])
<1>1. act[d] \in Actor /\ [act[d] EXCEPT !.pc = l] \in Actor
  BY DEF TypeInv, ActorsType, Actor, Turnings
<1> QED BY <1>1 DEF TypeInv, ActorsType, Turn, Becomes

LEMMA IdleType == Idle \in Actor /\ Fresh \in Request /\ NoClaim \in Claims
  BY DEF Idle, Actor, Fresh, Request, NoClaim, Claims

LEMMA Stopping ==
  ASSUME TypeInv, NEW d \in Acts, Done(d)
  PROVE  Becomes(d, Idle)
  BY IdleType DEF TypeInv, ActorsType, Done, Becomes

\* Everything but the requests and the actors keeps its type.
RestType == LedgerType /\ StoreType /\ SeenType /\ MetersType

LEMMA FaultType == TypeInv /\ (Fault \/ UNCHANGED faults) => faults' \in Nat
  BY DEF TypeInv, MetersType, Fault

LEMMA AsType ==
  ASSUME TypeInv, NEW a,
         NEW s \in {"settled", "unconfirmed", "redeemed", "declined"}
  PROVE  As(a, s) \in [Auths -> Claims]
<1>1. [claim EXCEPT ![a].s = s] \in [Auths -> Claims]
  BY DEF TypeInv, StoreType, Claims
<1> DEFINE c == [claim EXCEPT ![a].s = s]
<1>2. [c EXCEPT ![a].exp = 0] \in [Auths -> Claims]
  <2> HIDE DEF c
  <2> QED BY <1>1 DEF c, Claims
<1>3. As(a, s) = [c EXCEPT ![a].exp = 0]
  BY DEF As
<1> QED BY <1>2, <1>3

\* The claim after a step of its request.
LEMMA ClaimTypes ==
  ASSUME TypeInv, NEW r \in Reqs
  PROVE  /\ \A a, s : s \in {"settled", "unconfirmed", "redeemed", "declined"}
                      => As(a, s) \in [Auths -> Claims]
         /\ [claim EXCEPT ![Auth(r)] = NoClaim] \in [Auths -> Claims]
         /\ [claim EXCEPT ![Auth(r)] = Inflight(r)] \in [Auths -> Claims]
<1>1. Inflight(r) \in Claims
  BY SellerDdAssumption
     DEF Inflight, Claims, TypeInv, ActorsType, Request, MetersType
<1> QED BY <1>1, AsType, IdleType DEF TypeInv, StoreType

LEMMA MoveType ==
  ASSUME TypeInv, NEW r \in Reqs,
         NEW s \in {"settled", "unconfirmed", "redeemed", "declined"}, Move(r, s)
  PROVE  claim' \in [Auths -> Claims] /\ faults' \in Nat
<1>1. claim' \in {claim, As(Auth(r), s)} /\ (Fault \/ UNCHANGED faults)
  BY DEF Move, Tried, Applied, Lost
<1> QED BY <1>1, ClaimTypes, FaultType DEF TypeInv, StoreType

\* The way to the engine.
LEMMA OpenType ==
  ASSUME TypeInv, NEW r \in Reqs, NEW a \in Auths, NEW rq \in Rqs, Open(r, a, rq)
  PROVE  /\ RestType' /\ act' = act /\ req' \in [Reqs -> Request]
         /\ req'[r].pc = "claim" /\ req'[r].auth = a /\ req'[r].rq = rq
         /\ ~req'[r].aged
         /\ \A q \in Reqs \ {r} : req'[q] = req[q]
<1> DEFINE n == [Fresh EXCEPT !.pc = "claim", !.auth = a, !.rq = rq]
<1>1. n \in Request
  BY DEF Fresh, Request, Early
<1>2. n.pc = "claim" /\ n.auth = a /\ n.rq = rq /\ ~n.aged
  BY DEF Fresh
<1>3. RestType'
  BY DEF Open, TypeInv, RestType, LedgerType, StoreType, SeenType, MetersType,
         ledger, counters, booking, losses, pays, store, seen, meters
<1>4. req' = [req EXCEPT ![r] = n] /\ act' = act
  BY DEF Open
<1> HIDE DEF n
<1> QED BY <1>1, <1>2, <1>3, <1>4 DEF TypeInv, ActorsType

LEMMA TryClaimType ==
  ASSUME TypeInv, NEW r \in Reqs, TryClaim(r)
  PROVE  RestType' /\ (Goes(r, "nonce") \/ Goes(r, "end"))
<1>1. /\ claim' \in {claim, [claim EXCEPT ![Auth(r)] = Inflight(r)]}
      /\ Fault \/ UNCHANGED faults
  BY DEF TryClaim, Applied, Lost
<1>2. claim' \in [Auths -> Claims] /\ faults' \in Nat
  BY <1>1, ClaimTypes, FaultType DEF TypeInv, StoreType
<1>3. Goes(r, "nonce") \/ Goes(r, "end")
  BY Going, Ending DEF TryClaim, Places, Early
<1> QED BY <1>2, <1>3
        DEF TryClaim, TypeInv, RestType, LedgerType, StoreType, SeenType,
            MetersType, ledger, counters, booking, losses, pays, seen

\* Steps that change nothing but where the request is.
LEMMA PlainType ==
  ASSUME TypeInv, NEW r \in Reqs,
         \/ CheckNonce(r) \/ Verify(r) \/ Refuse(r) \/ Block(r) \/ RefuseSign(r)
         \/ Confirm(r) \/ SettleOk(r)
  PROVE  /\ RestType'
         /\ UNCHANGED <<ledger, store, seen, meters>>
         /\ \/ CheckNonce(r) /\ Goes(r, "check")
            \/ Verify(r) /\ Goes(r, "slot")
            \/ Refuse(r) /\ Goes(r, "release")
            \/ Block(r) /\ Goes(r, "decline")
            \/ RefuseSign(r) /\ Goes(r, "unsign")
            \/ Confirm(r) /\ Goes(r, "cache")
            \/ SettleOk(r) /\ Goes(r, "refund")
<1>1. UNCHANGED <<ledger, store, seen, meters>>
  BY DEF CheckNonce, Verify, Refuse, Block, RefuseSign, Confirm, SettleOk
<1>2. RestType'
  BY <1>1 DEF TypeInv, RestType, LedgerType, StoreType, SeenType, MetersType,
              ledger, counters, booking, losses, pays, store, seen, meters
<1>3. {"check", "slot", "release", "decline", "unsign", "cache", "refund"}
        \subseteq Places
  BY DEF Places, Early, Engine, Late
<1>4. \A l \in Places : Goto(r, l) => Goes(r, l)
  BY Going
<1> QED BY <1>1, <1>2, <1>3, <1>4
        DEF CheckNonce, Verify, Refuse, Block, RefuseSign, Confirm, SettleOk

LEMMA ReleaseType ==
  ASSUME TypeInv, NEW r \in Reqs, Release(r)
  PROVE  RestType' /\ Goes(r, "end")
<1>1. /\ claim' \in {claim, [claim EXCEPT ![Auth(r)] = NoClaim]}
      /\ Fault \/ UNCHANGED faults
  BY DEF Release, Tried, Applied, Lost
<1>2. claim' \in [Auths -> Claims] /\ faults' \in Nat
  BY <1>1, ClaimTypes, FaultType DEF TypeInv, StoreType
<1> QED BY <1>2, Ending
        DEF Release, TypeInv, RestType, LedgerType, StoreType, SeenType,
            MetersType, ledger, counters, booking, losses, pays, seen

LEMMA SlotType ==
  ASSUME TypeInv, NEW r \in Reqs, TakeDeclineSlot(r)
  PROVE  RestType' /\ (Goes(r, "engine") \/ Goes(r, "release"))
<1>1. Goes(r, "engine") \/ Goes(r, "release")
  BY Going DEF TakeDeclineSlot, Places, Early, Engine
<1>2. slots' \in Int /\ faults' \in Nat
  BY FaultType DEF TakeDeclineSlot, Applied, Lost, TypeInv, StoreType
<1> QED BY <1>1, <1>2
        DEF TakeDeclineSlot, TypeInv, RestType, LedgerType, StoreType, SeenType,
            MetersType, ledger, counters, booking, losses, pays, seen

\* The engine.
LEMMA ReserveType ==
  ASSUME TypeInv, NEW r \in Reqs, Reserve(r)
  PROVE  /\ RestType'
         /\ \/ /\ TakeAll /\ Goes(r, "book") /\ UNCHANGED faults
               /\ expires' = [expires EXCEPT ![r] = now + TestValid]
            \/ /\ Goes(r, "decline") /\ UNCHANGED expires
               /\ UNCHANGED counters \/ (TakeAll /\ Fault)
<1>1. \/ /\ TakeAll /\ Goes(r, "book") /\ UNCHANGED faults
         /\ expires' = [expires EXCEPT ![r] = now + TestValid]
      \/ /\ Goes(r, "decline") /\ UNCHANGED expires
         /\ UNCHANGED counters \/ (TakeAll /\ Fault)
  BY Going DEF Reserve, Places, Engine, Late
<1>2. spent' \in Int /\ hosts' \in Int
  BY <1>1 DEF TakeAll, counters, TypeInv, LedgerType
<1>3. now + TestValid \in Nat
  BY CapsAssumption DEF TypeInv, MetersType
<1>4. expires' \in [Reqs -> Nat]
  BY <1>1, <1>3 DEF TypeInv, LedgerType
<1>5. faults' \in Nat
  BY FaultType DEF Reserve
<1> QED BY <1>1, <1>2, <1>4, <1>5
        DEF Reserve, TypeInv, RestType, LedgerType, StoreType, SeenType, MetersType,
            booking, losses, store, seen

LEMMA BookTestType ==
  ASSUME TypeInv, NEW r \in Reqs, BookTest(r)
  PROVE  /\ RestType'
         /\ \/ Goes(r, "sign") /\ Book(r, 3) /\ UNCHANGED faults
            \/ Goes(r, "unsign") /\ Fault /\ \E n \in 0..3 : Book(r, n)
<1>1. \/ Goes(r, "sign") /\ Book(r, 3) /\ UNCHANGED faults
      \/ Goes(r, "unsign") /\ Fault /\ \E n \in 0..3 : Book(r, n)
  BY Going DEF BookTest, Places, Engine
<1>2. /\ rec' \subseteq Reqs /\ open' \subseteq Reqs /\ index' \subseteq Reqs
      /\ released' \subseteq Reqs
  BY <1>1 DEF Book, TypeInv, LedgerType
<1>3. faults' \in Nat
  BY <1>1, FaultType
<1> QED BY <1>1, <1>2, <1>3
        DEF BookTest, TypeInv, RestType, LedgerType, StoreType, SeenType, MetersType,
            counters, losses, pays, store, seen

LEMMA SignType ==
  ASSUME TypeInv, NEW r \in Reqs, Sign(r)
  PROVE  RestType' /\ Goes(r, "watch")
<1>1. test' \in [Reqs -> {"none", "signed", "landed"}]
  BY DEF Sign, SignTest, TypeInv, LedgerType
<1>2. Goes(r, "watch")
  BY Going DEF Sign, Places, Engine
<1> QED BY <1>1, <1>2
        DEF Sign, TypeInv, RestType, LedgerType, StoreType, SeenType, MetersType,
            counters, booking, losses, store, seen, meters

LEMMA OnceType ==
  ASSUME TypeInv, NEW r \in Reqs,
         ReleaseUnsigned(r) \/ ReleaseUnused(r) \/ UNCHANGED <<counters, booking>>
  PROVE  /\ spent' \in Int /\ hosts' \in Int
         /\ rec' \subseteq Reqs /\ open' \subseteq Reqs /\ index' \subseteq Reqs
         /\ released' \subseteq Reqs
<1>1. CASE UNCHANGED <<counters, booking>>
  BY <1>1 DEF counters, booking, TypeInv, LedgerType
<1>2. CASE ReleaseUnsigned(r)
  BY <1>2 DEF ReleaseUnsigned, Once, counters, booking, TypeInv, LedgerType
<1>3. CASE ReleaseUnused(r)
  BY <1>3 DEF ReleaseUnused, Once, counters, booking, TypeInv, LedgerType
<1> QED BY <1>1, <1>2, <1>3

LEMMA UnsignType ==
  ASSUME TypeInv, NEW r \in Reqs, Unsign(r)
  PROVE  RestType' /\ Goes(r, "decline")
<1>1. ReleaseUnsigned(r) \/ UNCHANGED <<counters, booking>>
  BY DEF Unsign
<1>2. faults' \in Nat
  BY FaultType DEF Unsign
<1>3. Goes(r, "decline")
  BY Going DEF Unsign, Places, Late
<1> QED BY <1>1, <1>2, <1>3, OnceType
        DEF Unsign, TypeInv, RestType, LedgerType, StoreType, SeenType, MetersType,
            losses, pays, store, seen

\* The loss ledger moves by one entry at most.
LEMMA LoseType ==
  ASSUME TypeInv, NEW r \in Reqs, NEW b \in BOOLEAN, Lose(r, b)
  PROVE  /\ loss' \in [Reqs -> Int] /\ lossRec' \subseteq Reqs /\ faults' \in Nat
         /\ \E n \in 0..2 : RecordLoss(r, b, n)
         /\ Fault \/ (UNCHANGED faults /\ RecordLoss(r, b, 2))
<1>1. /\ \E n \in 0..2 : RecordLoss(r, b, n)
      /\ Fault \/ (UNCHANGED faults /\ RecordLoss(r, b, 2))
  BY DEF Lose
<1>2. loss' \in [Reqs -> Int] /\ lossRec' \subseteq Reqs
  BY <1>1 DEF RecordLoss, TypeInv, LedgerType
<1> QED BY <1>1, <1>2, FaultType

LEMMA FailChecksType ==
  ASSUME TypeInv, NEW r \in Reqs, FailChecks(r)
  PROVE  RestType' /\ Goes(r, "decline")
<1>1. Lose(r, TRUE) \/ Lose(r, FALSE)
  BY DEF FailChecks
<1>2. loss' \in [Reqs -> Int] /\ lossRec' \subseteq Reqs /\ faults' \in Nat
  BY <1>1, LoseType
<1>3. Goes(r, "decline")
  BY Going DEF FailChecks, Places, Late
<1> QED BY <1>2, <1>3
        DEF FailChecks, TypeInv, RestType, LedgerType, StoreType, SeenType,
            MetersType, counters, booking, pays, store, seen

LEMMA LoseTestType ==
  ASSUME TypeInv, NEW r \in Reqs, LoseTest(r)
  PROVE  RestType' /\ Goes(r, "end")
<1>1. loss' \in [Reqs -> Int] /\ lossRec' \subseteq Reqs /\ faults' \in Nat
  BY LoseType DEF LoseTest
<1> QED BY <1>1, Ending
        DEF LoseTest, TypeInv, RestType, LedgerType, StoreType, SeenType,
            MetersType, counters, booking, pays, store, seen

LEMMA SignerFailsType ==
  ASSUME TypeInv, NEW r \in Reqs, SignerFails(r)
  PROVE  RestType' /\ Goes(r, "decline")
<1>1. Goes(r, "decline")
  BY Going DEF SignerFails, Places, Late
<1> QED BY <1>1
        DEF SignerFails, TypeInv, RestType, LedgerType, StoreType, SeenType,
            MetersType, ledger, counters, booking, losses, pays, store, meters

\* After the engine.
LEMMA MovesType ==
  ASSUME TypeInv, NEW r \in Reqs, Decline(r) \/ Undo(r) \/ Unconfirm(r) \/ Mark(r)
  PROVE  /\ RestType'
         /\ \/ Decline(r) /\ Goes(r, "end")
            \/ Undo(r) /\ Goes(r, "lose")
            \/ Unconfirm(r) /\ Goes(r, "pend")
            \/ Mark(r) /\ Goes(r, "end")
<1>1. claim' \in [Auths -> Claims] /\ faults' \in Nat
  BY MoveType DEF Decline, Undo, Unconfirm, Mark
<1>2. delivered' \in [Reqs -> Nat]
  BY DEF Decline, Undo, Unconfirm, Mark, Deliver, seen, TypeInv, SeenType
<1>3. \/ Decline(r) /\ Goes(r, "end")
      \/ Undo(r) /\ Goes(r, "lose")
      \/ Unconfirm(r) /\ Goes(r, "pend")
      \/ Mark(r) /\ Goes(r, "end")
  BY Going, Ending DEF Decline, Undo, Unconfirm, Mark, Places, Late
<1>4. /\ UNCHANGED <<ledger, verdict, logged, pend, closed, slots, fails, chain,
                     sent, unsigned, told, now, crashes>>
  BY DEF Decline, Undo, Unconfirm, Mark, seen
<1> QED BY <1>1, <1>2, <1>3, <1>4
        DEF TypeInv, RestType, LedgerType, StoreType, SeenType, MetersType,
            ledger, counters, booking, losses, pays

LEMMA CacheType ==
  ASSUME TypeInv, NEW r \in Reqs, CacheVerdict(r)
  PROVE  /\ RestType'
         /\ \/ Goes(r, "log") /\ verdict' = [verdict EXCEPT ![Auth(r)] = r]
               /\ UNCHANGED faults
            \/ Goes(r, "undo") /\ Fault
               /\ verdict' \in {verdict, [verdict EXCEPT ![Auth(r)] = r]}
<1>1. \/ Goes(r, "log") /\ verdict' = [verdict EXCEPT ![Auth(r)] = r]
         /\ UNCHANGED faults
      \/ Goes(r, "undo") /\ Fault
         /\ verdict' \in {verdict, [verdict EXCEPT ![Auth(r)] = r]}
  BY Going DEF CacheVerdict, Applied, Lost, Places, Late
<1>2. verdict' \in [Auths -> Reqs \cup {None}] /\ faults' \in Nat
  BY <1>1, FaultType DEF TypeInv, StoreType
<1> QED BY <1>1, <1>2
        DEF CacheVerdict, TypeInv, RestType, LedgerType, StoreType, SeenType,
            MetersType, ledger, counters, booking, losses, pays, seen

LEMMA LogType ==
  ASSUME TypeInv, NEW r \in Reqs, LogReceipt(r)
  PROVE  /\ RestType'
         /\ \/ Goes(r, "settle") /\ logged' = logged \cup {r} /\ UNCHANGED faults
            \/ Goes(r, "undo") /\ Fault /\ logged' \in {logged, logged \cup {r}}
<1>1. \/ Goes(r, "settle") /\ logged' = logged \cup {r} /\ UNCHANGED faults
      \/ Goes(r, "undo") /\ Fault /\ logged' \in {logged, logged \cup {r}}
  BY Going DEF LogReceipt, Applied, Lost, Places, Late
<1>2. logged' \subseteq Reqs /\ faults' \in Nat
  BY <1>1, FaultType DEF TypeInv, StoreType
<1> QED BY <1>1, <1>2
        DEF LogReceipt, TypeInv, RestType, LedgerType, StoreType, SeenType,
            MetersType, ledger, counters, booking, losses, pays, seen

LEMMA SettleType ==
  ASSUME TypeInv, NEW r \in Reqs, Settle(r)
  PROVE  RestType' /\ Goes(r, "asked")
<1>1. Goes(r, "asked")
  BY Going DEF Settle, Places, Late
<1> QED BY <1>1
        DEF Settle, TypeInv, RestType, LedgerType, StoreType, SeenType, MetersType,
            ledger, counters, booking, losses, pays, store, meters

LEMMA SettleFailsType ==
  ASSUME TypeInv, NEW r \in Reqs, SettleFails(r)
  PROVE  RestType' /\ Goes(r, "unconf")
<1>1. Goes(r, "unconf")
  BY Going DEF SettleFails, Places, Late
<1>2. fails' \in Nat /\ faults' \in Nat
  BY FaultType, SellerDdAssumption DEF SettleFails, TypeInv, StoreType
<1> QED BY <1>1, <1>2
        DEF SettleFails, TypeInv, RestType, LedgerType, StoreType, SeenType,
            MetersType, ledger, counters, booking, losses, pays, seen

LEMMA PendType ==
  ASSUME TypeInv, NEW r \in Reqs, Pend(r)
  PROVE  RestType' /\ Goes(r, "end")
<1>1. pend' \subseteq Auths /\ faults' \in Nat
  BY FaultType DEF Pend, Tried, Applied, Lost, TypeInv, StoreType, KnownType, At
<1> QED BY <1>1, Ending
        DEF Pend, TypeInv, RestType, LedgerType, StoreType, SeenType, MetersType,
            ledger, counters, booking, losses, pays, seen

LEMMA RefundType ==
  ASSUME TypeInv, NEW r \in Reqs, RefundSlot(r)
  PROVE  RestType' /\ Goes(r, "mark")
<1>1. slots' \in Int /\ faults' \in Nat
  BY FaultType DEF RefundSlot, Tried, Applied, Lost, TypeInv, StoreType
<1>2. Goes(r, "mark")
  BY Going DEF RefundSlot, Places, Late
<1> QED BY <1>1, <1>2
        DEF RefundSlot, TypeInv, RestType, LedgerType, StoreType, SeenType,
            MetersType, ledger, counters, booking, losses, pays, seen

\* Redeems and cron passes.
LEMMA RedeemType ==
  ASSUME TypeInv, NEW d \in Acts, NEW a \in Auths, NEW rq \in Rqs, Redeem(d, a, rq)
  PROVE  /\ RestType'
         /\ Becomes(d, [Idle EXCEPT !.pc = "probe", !.auth = a, !.by = verdict[a]])
<1>1. [Idle EXCEPT !.pc = "probe", !.auth = a, !.by = verdict[a]] \in Actor
  BY DEF Idle, Actor, TypeInv, StoreType
<1> QED BY <1>1
        DEF Redeem, Becomes, TypeInv, RestType, ActorsType, LedgerType, StoreType,
            SeenType, MetersType, ledger, counters, booking, losses, pays, store,
            seen, meters

LEMMA CronType ==
  ASSUME TypeInv, NEW d \in Acts, NEW a \in Auths, Cron(d, a)
  PROVE  /\ RestType'
         /\ Becomes(d, [Idle EXCEPT !.pc = "probe", !.auth = a, !.by = verdict[a],
                                    !.cron = TRUE])
<1>1. [Idle EXCEPT !.pc = "probe", !.auth = a, !.by = verdict[a], !.cron = TRUE]
        \in Actor
  BY DEF Idle, Actor, TypeInv, StoreType
<1> QED BY <1>1
        DEF Cron, Becomes, TypeInv, RestType, ActorsType, LedgerType, StoreType,
            SeenType, MetersType, ledger, counters, booking, losses, pays, store,
            seen, meters

LEMMA ProbeType ==
  ASSUME TypeInv, NEW d \in Acts, Probe(d)
  PROVE  /\ RestType'
         /\ \/ Becomes(d, Idle)
            \/ /\ act'[d].used <=> chain[act[d].auth] # "unused"
               /\ act'[d].used \in BOOLEAN
               /\ Becomes(d, [act[d] EXCEPT !.pc = "judge", !.used = act'[d].used])
<1> DEFINE u == chain[act[d].auth] # "unused"
<1>1. act[d] \in Actor /\ u \in BOOLEAN
  BY DEF TypeInv, ActorsType
<1>2. ASSUME act' = [act EXCEPT ![d].pc = "judge", ![d].used = u], req' = req
      PROVE  /\ act'[d].used <=> u
             /\ act'[d].used \in BOOLEAN
             /\ Becomes(d, [act[d] EXCEPT !.pc = "judge", !.used = act'[d].used])
  <2> HIDE DEF u
  <2>1. [act[d] EXCEPT !.pc = "judge", !.used = u] \in Actor
    BY <1>1 DEF Actor
  <2>2. act' = [act EXCEPT ![d] = [act[d] EXCEPT !.pc = "judge", !.used = u]]
    BY <1>2 DEF TypeInv, ActorsType
  <2>3. act'[d] = [act[d] EXCEPT !.pc = "judge", !.used = u]
    BY <2>2 DEF TypeInv, ActorsType
  <2>4. act'[d].used = u
    BY <1>1, <2>3 DEF Actor
  <2> QED BY <1>1, <1>2, <2>1, <2>2, <2>3, <2>4
          DEF Becomes, TypeInv, ActorsType
<1>3. RestType'
  BY DEF Probe, TypeInv, RestType, LedgerType, StoreType, SeenType, MetersType,
         ledger, counters, booking, losses, pays, store, seen, meters
<1>4. Done(d) \/ (act' = [act EXCEPT ![d].pc = "judge", ![d].used = u] /\ req' = req)
  BY DEF Probe
<1> QED BY <1>2, <1>3, <1>4, Stopping

LEMMA JudgeType ==
  ASSUME TypeInv, NEW d \in Acts, Judge(d)
  PROVE  /\ RestType'
         /\ \/ /\ act[d].used /\ ~act[d].cron /\ UNCHANGED pend
               /\ Becomes(d, [act[d] EXCEPT !.pc = "give"])
            \/ /\ MayClose(d) /\ UNCHANGED pend
               /\ Becomes(d, [act[d] EXCEPT !.pc = "close"])
            \/ /\ Becomes(d, Idle) /\ pend' \in {pend, pend \ {act[d].auth}}
<1>1. \/ /\ act[d].used /\ ~act[d].cron /\ UNCHANGED pend
         /\ Becomes(d, [act[d] EXCEPT !.pc = "give"])
      \/ /\ MayClose(d) /\ UNCHANGED pend
         /\ Becomes(d, [act[d] EXCEPT !.pc = "close"])
      \/ /\ Becomes(d, Idle) /\ pend' \in {pend, pend \ {act[d].auth}}
  BY Turning, Stopping DEF Judge, Turnings, Tried, Applied, Lost
<1>2. pend' \subseteq Auths
  BY <1>1 DEF TypeInv, StoreType
<1>3. faults' \in Nat
  BY FaultType DEF Judge, Tried, Applied, Lost
<1> QED BY <1>1, <1>2, <1>3
        DEF Judge, TypeInv, RestType, LedgerType, StoreType, SeenType, MetersType,
            ledger, counters, booking, losses, pays, seen

LEMMA CloseType ==
  ASSUME TypeInv, NEW d \in Acts, Close(d)
  PROVE  /\ RestType' /\ act[d].auth \in Auths
         /\ \/ /\ act[d].auth \notin closed /\ closed' = closed \cup {act[d].auth}
               /\ Becomes(d, [act[d] EXCEPT !.pc = "lose"]) /\ UNCHANGED faults
            \/ /\ Becomes(d, [act[d] EXCEPT !.pc = "drop"])
               /\ \/ act[d].auth \in closed /\ UNCHANGED <<closed, faults>>
                  \/ Fault /\ closed' \in {closed, closed \cup {act[d].auth}}
<1>1. act[d].auth \in Auths
  BY DEF Close, Doing, TypeInv, KnownType
<1>2. \/ /\ act[d].auth \notin closed /\ closed' = closed \cup {act[d].auth}
         /\ Becomes(d, [act[d] EXCEPT !.pc = "lose"]) /\ UNCHANGED faults
      \/ /\ Becomes(d, [act[d] EXCEPT !.pc = "drop"])
         /\ \/ act[d].auth \in closed /\ UNCHANGED <<closed, faults>>
            \/ Fault /\ closed' \in {closed, closed \cup {act[d].auth}}
  BY Turning DEF Close, Turnings, Applied, Lost
<1>3. closed' \subseteq Auths /\ faults' \in Nat
  BY <1>1, <1>2, FaultType DEF TypeInv, StoreType
<1> QED BY <1>1, <1>2, <1>3
        DEF Close, TypeInv, RestType, LedgerType, StoreType, SeenType, MetersType,
            ledger, counters, booking, losses, pays, seen

LEMMA LoseClosedType ==
  ASSUME TypeInv, NEW d \in Acts, LoseClosed(d)
  PROVE  /\ RestType' /\ Becomes(d, [act[d] EXCEPT !.pc = "drop"])
         /\ \/ act[d].by = None /\ UNCHANGED <<losses, faults>>
            \/ act[d].by \in Reqs /\ Lose(act[d].by, TRUE)
<1>1. act[d].by \in Reqs \cup {None}
  BY DEF TypeInv, ActorsType, Actor
<1>2. \/ act[d].by = None /\ UNCHANGED <<losses, faults>>
      \/ act[d].by \in Reqs /\ Lose(act[d].by, TRUE)
  BY <1>1 DEF LoseClosed
<1>3. loss' \in [Reqs -> Int] /\ lossRec' \subseteq Reqs /\ faults' \in Nat
  <2>1. CASE act[d].by = None /\ UNCHANGED <<losses, faults>>
    BY <2>1 DEF losses, TypeInv, LedgerType, MetersType
  <2>2. CASE act[d].by \in Reqs /\ Lose(act[d].by, TRUE)
    BY <2>2, LoseType
  <2> QED BY <1>2, <2>1, <2>2
<1>4. Becomes(d, [act[d] EXCEPT !.pc = "drop"])
  BY Turning DEF LoseClosed, Turnings
<1> QED BY <1>2, <1>3, <1>4
        DEF LoseClosed, TypeInv, RestType, LedgerType, StoreType, SeenType,
            MetersType, counters, booking, pays, store, seen

LEMMA SwappedType ==
  ASSUME TypeInv, NEW d \in Acts, NEW s \in {"redeemed", "declined"}
  PROVE  /\ Swapped(d, s) \in {claim, As(act[d].auth, s)}
         /\ Swapped(d, s) \in [Auths -> Claims]
<1>1. As(act[d].auth, s) \in [Auths -> Claims]
  BY AsType
<1>2. Swapped(d, s) \in {claim, As(act[d].auth, s)}
  BY DEF Swapped
<1> QED BY <1>1, <1>2 DEF TypeInv, StoreType

LEMMA DropType ==
  ASSUME TypeInv, NEW d \in Acts, Drop(d)
  PROVE  /\ RestType' /\ Becomes(d, Idle) /\ act[d].auth \in Auths
         /\ pend' \in {pend, pend \ {act[d].auth}}
         /\ \/ act[d].cron /\ UNCHANGED <<claim, told>>
            \/ /\ ~act[d].cron /\ told' = told \cup {act[d].auth}
               /\ \/ claim' = Swapped(d, "declined")
                  \/ claim' = claim /\ Fault
<1>1. act[d].auth \in Auths
  BY DEF Drop, Doing, TypeInv, KnownType
<1>2. /\ pend' \in {pend, pend \ {act[d].auth}}
      /\ \/ act[d].cron /\ UNCHANGED <<claim, told>>
         \/ /\ ~act[d].cron /\ told' = told \cup {act[d].auth}
            /\ \/ claim' = Swapped(d, "declined")
               \/ claim' = claim /\ Fault
      /\ Fault \/ UNCHANGED faults
  BY DEF Drop, Tried, Applied, Lost
<1>3. /\ pend' \subseteq Auths /\ told' \subseteq Auths /\ faults' \in Nat
      /\ claim' \in [Auths -> Claims]
  BY <1>1, <1>2, FaultType, SwappedType DEF TypeInv, StoreType, SeenType
<1>4. Becomes(d, Idle)
  BY Stopping DEF Drop
<1> QED BY <1>1, <1>2, <1>3, <1>4
        DEF Drop, TypeInv, RestType, LedgerType, StoreType, SeenType, MetersType,
            ledger, counters, booking, losses, pays

LEMMA GiveType ==
  ASSUME TypeInv, NEW d \in Acts, Give(d)
  PROVE  /\ RestType' /\ Becomes(d, [act[d] EXCEPT !.pc = "hand"])
         /\ pend' \in {pend, pend \ {act[d].auth}}
         /\ \/ claim' = Swapped(d, "redeemed")
            \/ claim' = claim /\ Fault
<1>1. /\ pend' \in {pend, pend \ {act[d].auth}}
      /\ \/ claim' = Swapped(d, "redeemed")
         \/ claim' = claim /\ Fault
      /\ Fault \/ UNCHANGED faults
  BY DEF Give, Applied, Lost
<1>2. pend' \subseteq Auths /\ faults' \in Nat /\ claim' \in [Auths -> Claims]
  BY <1>1, FaultType, SwappedType DEF TypeInv, StoreType
<1>3. Becomes(d, [act[d] EXCEPT !.pc = "hand"])
  BY Turning DEF Give, Turnings
<1> QED BY <1>1, <1>2, <1>3
        DEF Give, TypeInv, RestType, LedgerType, StoreType, SeenType, MetersType,
            ledger, counters, booking, losses, pays, seen

LEMMA HandType ==
  ASSUME TypeInv, NEW d \in Acts, Hand(d)
  PROVE  RestType' /\ Becomes(d, Idle)
<1>1. slots' \in Int /\ faults' \in Nat
  BY FaultType DEF Hand, Tried, Applied, Lost, TypeInv, StoreType
<1>2. delivered' \in [Reqs -> Nat]
  <2> DEFINE b == act[d].by
  <2>1. b \in Reqs \cup {None} /\ delivered' = [delivered EXCEPT ![b] = @ + 1]
    BY DEF Hand, Deliver, TypeInv, ActorsType, Actor
  <2> HIDE DEF b
  <2>2. CASE b \in Reqs
    BY <2>1, <2>2 DEF TypeInv, SeenType
  <2>3. CASE b = None
    BY <2>1, <2>3, SellerDdAssumption DEF TypeInv, SeenType
  <2> QED BY <2>1, <2>2, <2>3
<1> QED BY <1>1, <1>2, Stopping
        DEF Hand, TypeInv, RestType, LedgerType, StoreType, SeenType, MetersType,
            ledger, counters, booking, losses, pays

LEMMA ReconcileType ==
  ASSUME TypeInv, NEW d \in Acts, NEW r \in Reqs, Reconcile(d, r)
  PROVE  /\ RestType'
         /\ \/ /\ UNCHANGED <<open, faults>> /\ r \in rec
               /\ act'[d].used <=> test[r] = "landed"
               /\ Becomes(d, [Idle EXCEPT !.pc = "adjust", !.by = r,
                                          !.used = act'[d].used])
            \/ /\ Fault /\ open' = open \ {r} /\ UNCHANGED <<req, act>>
<1> DEFINE u == test[r] = "landed"
<1>1. u \in BOOLEAN
  OBVIOUS
<1>2. ASSUME act' = [act EXCEPT ![d] = [Idle EXCEPT !.pc = "adjust", !.by = r,
                                                    !.used = u]],
             req' = req
      PROVE  /\ act'[d].used <=> u
             /\ Becomes(d, [Idle EXCEPT !.pc = "adjust", !.by = r,
                                        !.used = act'[d].used])
  <2> HIDE DEF u
  <2>1. [Idle EXCEPT !.pc = "adjust", !.by = r, !.used = u] \in Actor
    BY <1>1 DEF Idle, Actor
  <2>2. act'[d] = [Idle EXCEPT !.pc = "adjust", !.by = r, !.used = u]
    BY <1>2 DEF TypeInv, ActorsType
  <2>3. act'[d].used = u
    BY <1>1, <2>2 DEF Idle
  <2> QED BY <1>2, <2>1, <2>2, <2>3 DEF Becomes, TypeInv, ActorsType
<1>3. open' \subseteq Reqs /\ faults' \in Nat
  BY FaultType DEF Reconcile, TypeInv, LedgerType, MetersType
<1>4. \/ /\ UNCHANGED <<open, faults>> /\ r \in rec /\ req' = req
         /\ act' = [act EXCEPT ![d] = [Idle EXCEPT !.pc = "adjust", !.by = r,
                                                   !.used = u]]
      \/ /\ Fault /\ open' = open \ {r} /\ UNCHANGED <<req, act>>
  BY DEF Reconcile
<1>5. RestType'
  BY <1>3 DEF Reconcile, TypeInv, RestType, LedgerType, StoreType, SeenType,
            MetersType, counters, losses, pays, store, seen
<1> QED BY <1>2, <1>4, <1>5

LEMMA AdjustType ==
  ASSUME TypeInv, NEW d \in Acts, Adjust(d)
  PROVE  RestType' /\ Becomes(d, Idle) /\ act[d].by \in Reqs
<1>1. act[d].by \in Reqs
  BY DEF Adjust, Doing, TypeInv, KnownType
<1>2. ASSUME NEW r \in Reqs, NEW n \in 0..2, ReleaseLoss(r, n)
      PROVE  loss' \in [Reqs -> Int] /\ lossRec' \subseteq Reqs
  BY <1>2 DEF ReleaseLoss, losses, TypeInv, LedgerType
<1>3. CASE UNCHANGED <<counters, rec, index, released, losses>>
           /\ Tried(open, open \ {act[d].by})
  <2>1. open' \subseteq Reqs /\ faults' \in Nat
    BY <1>3, FaultType DEF Tried, Applied, Lost, TypeInv, LedgerType
  <2> QED BY <1>1, <1>3, <2>1, Stopping
          DEF Adjust, TypeInv, RestType, LedgerType, StoreType, SeenType,
              MetersType, counters, losses, pays, store, seen
<1>4. CASE /\ ReleaseUnused(act[d].by)
           /\ Fault \/ UNCHANGED faults
           /\ \E n \in 0..2 : ReleaseLoss(act[d].by, n)
  <2>1. /\ spent' \in Int /\ hosts' \in Int
        /\ rec' \subseteq Reqs /\ open' \subseteq Reqs /\ index' \subseteq Reqs
        /\ released' \subseteq Reqs
    BY <1>1, <1>4, OnceType
  <2>2. loss' \in [Reqs -> Int] /\ lossRec' \subseteq Reqs /\ faults' \in Nat
    BY <1>1, <1>2, <1>4, FaultType
  <2> QED BY <1>1, <2>1, <2>2, Stopping
          DEF Adjust, TypeInv, RestType, LedgerType, StoreType, SeenType,
              MetersType, pays, store, seen
<1> QED BY <1>3, <1>4 DEF Adjust

\* The chain, crashes and the clock.
LEMMA LandType ==
  ASSUME TypeInv, NEW a \in Auths, Land(a) \/ Cancel(a)
  PROVE  RestType' /\ UNCHANGED <<req, act>>
<1>1. chain' \in [Auths -> {"unused", "paid", "cancelled"}]
  BY DEF Land, Cancel, TypeInv, SeenType
<1> QED BY <1>1
        DEF Land, Cancel, TypeInv, RestType, LedgerType, StoreType, SeenType,
            MetersType, ledger, counters, booking, losses, pays, store, meters

LEMMA TestLandsType ==
  ASSUME TypeInv, NEW r \in Reqs, TestLands(r)
  PROVE  RestType' /\ UNCHANGED <<req, act>>
<1>1. test' \in [Reqs -> {"none", "signed", "landed"}]
  BY DEF TestLands, LandTest, TypeInv, LedgerType
<1> QED BY <1>1
        DEF TestLands, TypeInv, RestType, LedgerType, StoreType, SeenType,
            MetersType, counters, booking, losses, store, seen, meters

LEMMA CrashType ==
  /\ \A r \in Reqs : TypeInv /\ Crash(r) => RestType' /\ Goes(r, "end")
  /\ \A d \in Acts : TypeInv /\ CrashAct(d) => RestType' /\ Becomes(d, Idle)
<1>1. TypeInv /\ Die => RestType'
  BY SellerDdAssumption
     DEF Die, TypeInv, RestType, LedgerType, StoreType, SeenType, MetersType,
         ledger, counters, booking, losses, pays, store, seen
<1> QED BY <1>1, Ending, Stopping DEF Crash, CrashAct

LEMMA TickType ==
  ASSUME TypeInv, Tick
  PROVE  /\ RestType' /\ now' = now + 1
         /\ req' \in [Reqs -> Request] /\ act' \in [Acts -> Actor]
         /\ \A r \in Reqs : /\ req'[r].pc = req[r].pc /\ req'[r].auth = req[r].auth
                            /\ req'[r].rq = req[r].rq
                            /\ Busy(r) => ~req[r].aged /\ req'[r].aged
         /\ \A d \in Acts : /\ act'[d].pc = act[d].pc /\ act'[d].auth = act[d].auth
                            /\ act'[d].by = act[d].by /\ act'[d].cron = act[d].cron
                            /\ act'[d].used = act[d].used
                            /\ act[d].pc = "judge" => SlowReads
<1>1. RestType' /\ now' = now + 1
  BY DEF Tick, TypeInv, RestType, LedgerType, StoreType, SeenType, MetersType,
         ledger, counters, booking, losses, pays, store, seen
<1>2. ASSUME NEW r \in Reqs
      PROVE  /\ req'[r] \in Request
             /\ req'[r].pc = req[r].pc /\ req'[r].auth = req[r].auth
             /\ req'[r].rq = req[r].rq
             /\ Busy(r) => ~req[r].aged /\ req'[r].aged
  <2> DEFINE b == Busy(r)
  <2>1. b \in BOOLEAN /\ req[r] \in Request
    BY DEF Busy, TypeInv, ActorsType
  <2>2. req'[r] = [req[r] EXCEPT !.aged = b]
    BY DEF Tick
  <2>3. b => ~req[r].aged
    BY DEF Tick
  <2> HIDE DEF b
  <2>4. [req[r] EXCEPT !.aged = b] \in Request
    BY <2>1 DEF Request
  <2>5. [req[r] EXCEPT !.aged = b].aged = b
    BY <2>1 DEF Request
  <2>6. req'[r].aged = b
    BY <2>2, <2>5
  <2> QED BY <2>1, <2>2, <2>3, <2>4, <2>6 DEF Request, b
<1>3. ASSUME NEW d \in Acts
      PROVE  /\ act'[d] \in Actor
             /\ act'[d].pc = act[d].pc /\ act'[d].auth = act[d].auth
             /\ act'[d].by = act[d].by /\ act'[d].cron = act[d].cron
             /\ act'[d].used = act[d].used
             /\ act[d].pc = "judge" => SlowReads
  <2> DEFINE b == ~Doing(d, "idle")
  <2>1. b \in BOOLEAN /\ act[d] \in Actor
    BY DEF TypeInv, ActorsType
  <2>2. act'[d] = [act[d] EXCEPT !.aged = b]
    BY DEF Tick
  <2>3. act[d].pc = "judge" => SlowReads
    BY DEF Tick, Doing
  <2> HIDE DEF b
  <2>4. [act[d] EXCEPT !.aged = b] \in Actor
    BY <2>1 DEF Actor
  <2> QED BY <2>1, <2>2, <2>3, <2>4 DEF Actor
<1>4. req' \in [Reqs -> Request] /\ act' \in [Acts -> Actor]
  BY <1>2, <1>3 DEF Tick
<1> QED BY <1>1, <1>2, <1>3, <1>4

LEMMA GoesType ==
  ASSUME TypeInv, RestType', NEW r \in Reqs, NEW l, Goes(r, l), req[r].pc # "new"
  PROVE  TypeInv'
<1>1. ActorsType' /\ KnownType'
  BY DEF Goes, TypeInv, ActorsType, KnownType, Auth, Request
<1> QED BY <1>1 DEF TypeInv, RestType

LEMMA BecomesType ==
  ASSUME TypeInv, RestType', NEW d \in Acts, NEW n, Becomes(d, n),
         n.pc \notin {"idle", "adjust"} => n.auth \in Auths,
         n.pc = "adjust" => n.by \in Reqs
  PROVE  TypeInv'
<1>1. ActorsType' /\ KnownType'
  BY DEF Becomes, TypeInv, ActorsType, KnownType, Auth
<1> QED BY <1>1 DEF TypeInv, RestType

LEMMA StillType ==
  ASSUME TypeInv, RestType', UNCHANGED <<req, act>>
  PROVE  TypeInv'
  BY DEF TypeInv, RestType, ActorsType, KnownType, Auth

LEMMA PaidFlowType ==
  ASSUME TypeInv, NEW r \in Reqs, PaidFlow(r)
  PROVE  TypeInv'
<1>1. req[r].pc # "new"
  BY DEF PaidFlow, TryClaim, CheckNonce, Verify, Refuse, Release, TakeDeclineSlot,
         Block, Reserve, BookTest, Sign, RefuseSign, Unsign, Confirm, SignerFails,
         FailChecks, Decline, CacheVerdict, LogReceipt, Undo, LoseTest, Settle,
         SettleFails, Unconfirm, Pend, SettleOk, RefundSlot, Mark, At
<1>2. RestType' /\ \E l : Goes(r, l)
  <2>1. CASE TryClaim(r) \/ Release(r) \/ TakeDeclineSlot(r)
    BY <2>1, TryClaimType, ReleaseType, SlotType
  <2>2. CASE \/ CheckNonce(r) \/ Verify(r) \/ Refuse(r) \/ Block(r)
             \/ RefuseSign(r) \/ Confirm(r) \/ SettleOk(r)
    BY <2>2, PlainType
  <2>3. CASE \/ Reserve(r) \/ BookTest(r) \/ Sign(r) \/ Unsign(r) \/ SignerFails(r)
             \/ FailChecks(r)
    BY <2>3, ReserveType, BookTestType, SignType, UnsignType, SignerFailsType,
       FailChecksType
  <2>4. CASE Decline(r) \/ Undo(r) \/ Unconfirm(r) \/ Mark(r) \/ LoseTest(r)
    BY <2>4, MovesType, LoseTestType
  <2>5. CASE \/ CacheVerdict(r) \/ LogReceipt(r) \/ Settle(r) \/ SettleFails(r)
             \/ Pend(r) \/ RefundSlot(r)
    BY <2>5, CacheType, LogType, SettleType, SettleFailsType, PendType, RefundType
  <2> QED BY <2>1, <2>2, <2>3, <2>4, <2>5 DEF PaidFlow
<1> QED BY <1>1, <1>2, GoesType

\* What a redeem or a cron pass does.
ActorFlow(d) ==
  \/ \E a \in Auths : Cron(d, a) \/ \E rq \in Rqs : Redeem(d, a, rq)
  \/ \E r \in Reqs : Reconcile(d, r)
  \/ Adjust(d) \/ Probe(d) \/ Judge(d) \/ Close(d) \/ LoseClosed(d) \/ Drop(d)
  \/ Give(d) \/ Hand(d) \/ CrashAct(d)

LEMMA ActorFlowType ==
  ASSUME TypeInv, NEW d \in Acts, ActorFlow(d)
  PROVE  TypeInv'
<1>0. /\ act[d] \in Actor /\ Idle.pc = "idle"
      /\ act[d].pc \notin {"idle", "adjust"} => act[d].auth \in Auths
  BY DEF TypeInv, ActorsType, KnownType, Idle
<1>1. CASE \E a \in Auths : Cron(d, a)
  <2>1. PICK a \in Auths : Cron(d, a)
    BY <1>1
  <2> DEFINE n == [Idle EXCEPT !.pc = "probe", !.auth = a, !.by = verdict[a],
                               !.cron = TRUE]
  <2>2. n.pc = "probe" /\ n.auth = a
    BY DEF Idle
  <2>3. RestType' /\ Becomes(d, n)
    BY <2>1, CronType
  <2> HIDE DEF n
  <2> QED BY <2>2, <2>3, BecomesType
<1>2. CASE \E a \in Auths, rq \in Rqs : Redeem(d, a, rq)
  <2>1. PICK a \in Auths, rq \in Rqs : Redeem(d, a, rq)
    BY <1>2
  <2> DEFINE n == [Idle EXCEPT !.pc = "probe", !.auth = a, !.by = verdict[a]]
  <2>2. n.pc = "probe" /\ n.auth = a
    BY DEF Idle
  <2>3. RestType' /\ Becomes(d, n)
    BY <2>1, RedeemType
  <2> HIDE DEF n
  <2> QED BY <2>2, <2>3, BecomesType
<1>3. CASE \E r \in Reqs : Reconcile(d, r)
  <2>1. PICK r \in Reqs : Reconcile(d, r)
    BY <1>3
  <2> DEFINE n == [Idle EXCEPT !.pc = "adjust", !.by = r, !.used = act'[d].used]
  <2>2. n.pc = "adjust" /\ n.by = r
    BY DEF Idle
  <2>3. RestType' /\ (Becomes(d, n) \/ UNCHANGED <<req, act>>)
    BY <2>1, ReconcileType
  <2> HIDE DEF n
  <2> QED BY <2>2, <2>3, BecomesType, StillType
<1>4. CASE Adjust(d) \/ Drop(d) \/ Hand(d) \/ CrashAct(d)
  <2>1. RestType' /\ Becomes(d, Idle)
    BY <1>4, AdjustType, DropType, HandType, CrashType
  <2> QED BY <1>0, <2>1, BecomesType
<1>5. CASE Probe(d)
  <2>1. act[d].auth \in Auths
    BY <1>0, <1>5 DEF Probe, Doing
  <2> DEFINE n == [act[d] EXCEPT !.pc = "judge", !.used = act'[d].used]
  <2>2. n.pc = "judge" /\ n.auth \in Auths
    BY <1>0, <2>1 DEF Actor
  <2>3. RestType' /\ (Becomes(d, Idle) \/ Becomes(d, n))
    BY <1>5, ProbeType
  <2> HIDE DEF n
  <2> QED BY <1>0, <2>2, <2>3, BecomesType
<1>6. CASE Judge(d) \/ Close(d) \/ LoseClosed(d) \/ Give(d)
  <2>1. act[d].auth \in Auths
    BY <1>0, <1>6 DEF Judge, Close, LoseClosed, Give, Doing
  <2>2. RestType' /\ \/ Becomes(d, Idle)
                     \/ \E l \in {"give", "close", "lose", "drop", "hand"} :
                          Becomes(d, [act[d] EXCEPT !.pc = l])
    BY <1>6, JudgeType, CloseType, LoseClosedType, GiveType
  <2>3. \A l : [act[d] EXCEPT !.pc = l].auth \in Auths /\ [act[d] EXCEPT !.pc = l].pc = l
    BY <1>0, <2>1 DEF Actor
  <2>4. CASE Becomes(d, Idle)
    BY <1>0, <2>2, <2>4, BecomesType
  <2>5. CASE \E l \in {"give", "close", "lose", "drop", "hand"} :
               Becomes(d, [act[d] EXCEPT !.pc = l])
    <3>1. PICK l \in {"give", "close", "lose", "drop", "hand"} :
                 Becomes(d, [act[d] EXCEPT !.pc = l])
      BY <2>5
    <3> QED BY <2>2, <2>3, <3>1, BecomesType
  <2> QED BY <2>2, <2>4, <2>5
<1> QED BY <1>1, <1>2, <1>3, <1>4, <1>5, <1>6 DEF ActorFlow

LEMMA NextTypes == TypeInv /\ [Next]_vars => TypeInv'
<1> SUFFICES ASSUME TypeInv, [Next]_vars PROVE TypeInv'
  OBVIOUS
<1>1. ASSUME NEW r \in Reqs, NEW a \in Auths, NEW rq \in Rqs, Open(r, a, rq)
      PROVE  TypeInv'
  <2>1. /\ RestType' /\ act' = act /\ req' \in [Reqs -> Request]
        /\ req'[r].auth = a /\ req'[r].rq = rq
        /\ \A q \in Reqs \ {r} : req'[q] = req[q]
    BY <1>1, OpenType
  <2> QED BY <2>1 DEF TypeInv, RestType, ActorsType, KnownType, Auth
<1>2. ASSUME NEW r \in Reqs, Crash(r) PROVE TypeInv'
  BY <1>2, CrashType, GoesType DEF Crash, Busy
<1>3. CASE Tick
  BY <1>3, TickType DEF TypeInv, RestType, ActorsType, KnownType, Auth
<1>4. CASE UNCHANGED vars
  BY <1>4 DEF vars, TypeInv, LedgerType, StoreType, SeenType, ActorsType, KnownType,
              MetersType, ledger, counters, booking, losses, pays, store, seen,
              meters, Auth
<1>5. ASSUME NEW a \in Auths, Land(a) \/ Cancel(a) PROVE TypeInv'
  BY <1>5, LandType, StillType
<1>6. ASSUME NEW r \in Reqs, TestLands(r) PROVE TypeInv'
  BY <1>6, TestLandsType, StillType
<1>7. \A d \in Acts : ActorFlow(d) => TypeInv'
  BY ActorFlowType
<1>8. \A r \in Reqs : PaidFlow(r) => TypeInv'
  BY PaidFlowType
<1> QED BY <1>1, <1>2, <1>3, <1>4, <1>5, <1>6, <1>7, <1>8 DEF Next, ActorFlow

LEMMA InitTypes == Init => TypeInv
  BY IdleType DEF Init, CapsInit, TypeInv, LedgerType, StoreType, SeenType,
                  ActorsType, KnownType, MetersType, Fresh, Idle

----------------------------------------------------------------------------
(* What the steps have in common. *)

\* Time stands, and what failed has failed.
Steady == now' = now /\ faults' >= faults /\ crashes' >= crashes
Calm == faults = 0 /\ crashes = 0

LEMMA FaultSteady ==
  ASSUME TypeInv, Fault \/ UNCHANGED faults, now' = now, crashes' = crashes
  PROVE  Steady
  BY DEF Steady, Fault, TypeInv, MetersType

LEMMA SteadyCalm ==
  ASSUME TypeInv, TypeInv', Steady
  PROVE  /\ Calm' => Calm
         /\ faults' < 2 => faults < 2
         /\ faults > 0 => faults' > 0
         /\ faults > 1 => faults' > 1
  BY DEF Steady, Calm, TypeInv, MetersType

LEMMA PaidFlowSteady ==
  ASSUME TypeInv, NEW r \in Reqs, PaidFlow(r) \/ Crash(r)
  PROVE  Steady
<1>1. CASE \/ CheckNonce(r) \/ Verify(r) \/ Refuse(r) \/ Block(r) \/ RefuseSign(r)
           \/ Confirm(r) \/ SettleOk(r) \/ Sign(r) \/ SignerFails(r) \/ Settle(r)
  BY <1>1, FaultSteady
     DEF CheckNonce, Verify, Refuse, Block, RefuseSign, Confirm, SettleOk, Sign,
         SignerFails, Settle, meters
<1>2. CASE TryClaim(r) \/ Release(r) \/ TakeDeclineSlot(r) \/ Reserve(r)
  BY <1>2, FaultSteady
     DEF TryClaim, Release, TakeDeclineSlot, Reserve, Tried, Applied, Lost
<1>3. CASE BookTest(r) \/ Unsign(r) \/ FailChecks(r) \/ LoseTest(r)
  BY <1>3, FaultSteady DEF BookTest, Unsign, FailChecks, LoseTest, Lose
<1>4. CASE Decline(r) \/ Undo(r) \/ Unconfirm(r) \/ Mark(r)
  BY <1>4, FaultSteady
     DEF Decline, Undo, Unconfirm, Mark, Move, Tried, Applied, Lost
<1>5. CASE CacheVerdict(r) \/ LogReceipt(r) \/ SettleFails(r) \/ Pend(r) \/ RefundSlot(r)
  BY <1>5, FaultSteady
     DEF CacheVerdict, LogReceipt, SettleFails, Pend, RefundSlot, Tried, Applied,
         Lost
<1>6. CASE Crash(r)
  BY <1>6 DEF Crash, Die, Steady, TypeInv, MetersType
<1> QED BY <1>1, <1>2, <1>3, <1>4, <1>5, <1>6 DEF PaidFlow

LEMMA ActorFlowSteady ==
  ASSUME TypeInv, NEW d \in Acts, ActorFlow(d)
  PROVE  Steady
<1>1. CASE \/ \E a \in Auths : Cron(d, a) \/ \E rq \in Rqs : Redeem(d, a, rq)
           \/ Probe(d)
  BY <1>1, FaultSteady DEF Cron, Redeem, Probe, meters
<1>2. CASE (\E r \in Reqs : Reconcile(d, r)) \/ Adjust(d) \/ Judge(d) \/ Close(d)
  BY <1>2, FaultSteady DEF Reconcile, Adjust, Judge, Close, Tried, Applied, Lost
<1>3. CASE LoseClosed(d) \/ Drop(d) \/ Give(d) \/ Hand(d)
  BY <1>3, FaultSteady DEF LoseClosed, Lose, Drop, Give, Hand, Tried, Applied, Lost
<1>4. CASE CrashAct(d)
  BY <1>4 DEF CrashAct, Die, Steady, TypeInv, MetersType
<1> QED BY <1>1, <1>2, <1>3, <1>4 DEF ActorFlow

LEMMA ChainSteady ==
  ASSUME TypeInv,
         \/ \E r \in Reqs : TestLands(r) \/ \E a \in Auths, rq \in Rqs : Open(r, a, rq)
         \/ \E a \in Auths : Land(a) \/ Cancel(a)
  PROVE  Steady
  BY FaultSteady DEF TestLands, Open, Land, Cancel, meters

LEMMA GoesIs ==
  ASSUME TypeInv, NEW r \in Reqs, NEW l, Goes(r, l)
  PROVE  /\ req'[r].pc = l /\ req'[r].auth = req[r].auth /\ req'[r].rq = req[r].rq
         /\ req'[r].aged = req[r].aged
         /\ \A q \in Reqs : req'[q].auth = req[q].auth /\ req'[q].rq = req[q].rq
  BY DEF Goes, TypeInv, ActorsType, Request

----------------------------------------------------------------------------
(* The test payments and their reservations. *)

Reserving == {"book", "sign", "unsign"}
Fore      == {"new"} \cup Early \cup {"engine"}
Passed    == {"cache", "log", "undo", "lose", "settle", "asked", "unconf", "pend",
              "refund", "mark"}
Untested  == Fore \cup Reserving \cup {"watch"}

\* An invocation that still runs ends before t.
Young(r, t) == now < t /\ (req[r].aged \/ now + 1 < t)

\* What the keys say of the test payment of r, by where r is.
TestOk(r) ==
  LET l == req[r].pc IN
    /\ l \in Fore \cup {"book"} =>
         test[r] = "none" /\ r \notin rec \cup open \cup index \cup released
    /\ l \in {"sign", "unsign"} => test[r] = "none" /\ r \notin released
    /\ l = "sign" => r \in index /\ r \in open
    /\ l = "watch" => test[r] # "none"
    /\ l \in Passed => test[r] = "landed"
    /\ l \in Reserving \cup {"watch"} => Young(r, expires[r])
    /\ test[r] # "none" => r \in index
    /\ r \in released => r \notin open /\ ~CanLand(r) /\ r \notin rec
    /\ r \in open => r \in rec
    /\ Calm /\ l = "unsign" => r \in open
    /\ Calm /\ test[r] = "signed" /\ r \notin released => r \in open
\* ... and what a cron pass that adjusts it has read.
AdjustOk(d) ==
  LET r == act[d].by IN
    act[d].pc = "adjust" =>
      /\ r \in Reqs /\ act[d].auth = None
      /\ req[r].pc \notin Untested
      /\ now >= expires[r]
      /\ act[d].used <=> test[r] = "landed"
      /\ r \in rec \/ r \in released
      /\ Calm /\ ~act[d].used => r \in open \/ r \in released
LedgerInv == (\A r \in Reqs : TestOk(r)) /\ \A d \in Acts : AdjustOk(d)

LedgerAt(q) == /\ test'[q] = test[q] /\ expires'[q] = expires[q]
               /\ q \in rec' <=> q \in rec
               /\ q \in open' <=> q \in open
               /\ q \in index' <=> q \in index
               /\ q \in released' <=> q \in released

LEMMA TestKept ==
  ASSUME NEW q \in Reqs, TestOk(q), req'[q] = req[q], LedgerAt(q), now' = now,
         Calm' => Calm
  PROVE  TestOk(q)'
  BY DEF TestOk, LedgerAt, Young, CanLand

LEMMA AdjustKept ==
  ASSUME NEW d \in Acts, AdjustOk(d), act'[d] = act[d], LedgerAt(act[d].by),
         now' = now, Calm' => Calm, req'[act[d].by].pc \notin Untested
  PROVE  AdjustOk(d)'
  BY DEF AdjustOk, LedgerAt

LEMMA LedgerStep ==
  ASSUME TypeInv, TypeInv', LedgerInv, Steady, NEW r \in Reqs, NEW l, Goes(r, l),
         \A q \in Reqs \ {r} : LedgerAt(q),
         req[r].pc \in Untested \/ (LedgerAt(r) /\ l \notin Untested),
         TestOk(r)'
  PROVE  LedgerInv'
<1>1. Calm' => Calm
  BY SteadyCalm
<1>2. ASSUME NEW q \in Reqs PROVE TestOk(q)'
  <2>1. CASE q # r
    BY <1>1, <2>1, TestKept DEF LedgerInv, Goes, Steady
  <2> QED BY <2>1
<1>3. ASSUME NEW d \in Acts PROVE AdjustOk(d)'
  <2>1. CASE act[d].pc # "adjust"
    BY <2>1 DEF Goes, AdjustOk
  <2>2. CASE act[d].pc = "adjust"
    <3>1. AdjustOk(d) /\ act'[d] = act[d] /\ act[d].by \in Reqs
      BY <2>2 DEF LedgerInv, Goes, AdjustOk
    <3>2. req[act[d].by].pc \notin Untested
      BY <2>2, <3>1 DEF AdjustOk
    <3>3. LedgerAt(act[d].by) /\ req'[act[d].by].pc \notin Untested
      <4>1. CASE act[d].by = r
        BY <3>2, <4>1, GoesIs
      <4>2. CASE act[d].by # r
        BY <3>1, <3>2, <4>2 DEF Goes
      <4> QED BY <4>1, <4>2
    <3> QED BY <1>1, <3>1, <3>3, AdjustKept DEF Steady
  <2> QED BY <2>1, <2>2
<1> QED BY <1>2, <1>3 DEF LedgerInv

\* Steps of a request that neither reserve nor pay.
QuietMove(r, l) ==
  \/ req[r].pc \in Fore /\ l \in Fore
  \/ l \in {"decline", "end"}
  \/ req[r].pc = "sign" /\ l = "unsign"
  \/ l \in Passed /\ \/ req[r].pc \in Passed
                     \/ req[r].pc = "watch" /\ test[r] = "landed"

LEMMA QuietLedger ==
  ASSUME TypeInv, TypeInv', LedgerInv, Steady, NEW r \in Reqs, NEW l, Goes(r, l),
         UNCHANGED <<booking, pays>>, QuietMove(r, l)
  PROVE  LedgerInv'
<1>1. \A q : LedgerAt(q)
  BY DEF LedgerAt, booking, pays
<1>2. TestOk(r) /\ (Calm' => Calm) /\ now' = now
  BY SteadyCalm DEF LedgerInv, Steady
<1>3. UNCHANGED <<test, expires, rec, open, index, released>>
  BY DEF booking, pays
<1>4. TestOk(r)'
  <2>1. req'[r].pc = l /\ req'[r].aged = req[r].aged
    BY GoesIs
  <2>2. CanLand(r)' = CanLand(r)
    BY <1>2, <1>3 DEF CanLand
  <2>3. CASE req[r].pc \in Fore /\ l \in Fore
    BY <1>2, <1>3, <2>1, <2>2, <2>3
       DEF TestOk, Fore, Early, Passed, Reserving
  <2>4. CASE l \in {"decline", "end"}
    BY <1>2, <1>3, <2>1, <2>2, <2>4
       DEF TestOk, Fore, Early, Passed, Reserving
  <2>5. CASE req[r].pc = "sign" /\ l = "unsign"
    BY <1>2, <1>3, <2>1, <2>2, <2>5
       DEF TestOk, Fore, Early, Passed, Reserving, Young
  <2>6. CASE l \in Passed /\ \/ req[r].pc \in Passed
                             \/ req[r].pc = "watch" /\ test[r] = "landed"
    BY <1>2, <1>3, <2>1, <2>2, <2>6
       DEF TestOk, Fore, Early, Passed, Reserving
  <2> QED BY <2>3, <2>4, <2>5, <2>6 DEF QuietMove
<1>5. req[r].pc \in Untested \/ l \notin Untested
  BY DEF QuietMove, Untested, Fore, Early, Passed, Reserving
<1> QED BY <1>1, <1>4, <1>5, LedgerStep

LEMMA QuietSteps ==
  ASSUME TypeInv, LedgerInv, NEW r \in Reqs, PaidFlow(r) \/ Crash(r)
  PROVE  \/ UNCHANGED <<booking, pays>> /\ \E l : Goes(r, l) /\ QuietMove(r, l)
         \/ Reserve(r) /\ Goes(r, "book")
         \/ BookTest(r) \/ Sign(r)
         \/ Unsign(r) /\ ReleaseUnsigned(r)
<1>0. TestOk(r)
  BY DEF LedgerInv
<1>1. CASE TryClaim(r) \/ Release(r) \/ TakeDeclineSlot(r)
  <2>1. UNCHANGED <<booking, pays>>
    BY <1>1 DEF TryClaim, Release, TakeDeclineSlot, ledger
  <2>2. CASE TryClaim(r)
    BY <2>1, <2>2, TryClaimType DEF TryClaim, At, QuietMove, Fore, Early
  <2>3. CASE Release(r)
    BY <2>1, <2>3, ReleaseType DEF QuietMove
  <2>4. CASE TakeDeclineSlot(r)
    BY <2>1, <2>4, SlotType DEF TakeDeclineSlot, At, QuietMove, Fore, Early
  <2> QED BY <1>1, <2>2, <2>3, <2>4
<1>2. CASE \/ CheckNonce(r) \/ Verify(r) \/ Refuse(r) \/ Block(r) \/ RefuseSign(r)
           \/ Confirm(r) \/ SettleOk(r)
  <2>1. UNCHANGED <<booking, pays>>
    BY <1>2, PlainType DEF ledger
  <2>2. \E l : Goes(r, l) /\ QuietMove(r, l)
    BY <1>2, PlainType
       DEF CheckNonce, Verify, Refuse, Block, RefuseSign, Confirm, SettleOk, At,
           QuietMove, Fore, Early, Passed
  <2> QED BY <2>1, <2>2
<1>3. CASE Reserve(r)
  BY <1>3, ReserveType DEF Reserve, pays, QuietMove
<1>4. CASE Unsign(r)
  BY <1>4, UnsignType DEF Unsign, QuietMove
<1>5. CASE SignerFails(r) \/ FailChecks(r)
  BY <1>5, SignerFailsType, FailChecksType DEF SignerFails, FailChecks, ledger, QuietMove
<1>6. CASE Decline(r) \/ Undo(r) \/ Unconfirm(r) \/ Mark(r) \/ LoseTest(r)
  <2>1. UNCHANGED <<booking, pays>>
    BY <1>6 DEF Decline, Undo, Unconfirm, Mark, LoseTest, ledger
  <2>2. CASE LoseTest(r)
    BY <2>1, <2>2, LoseTestType DEF QuietMove
  <2>3. CASE Decline(r) \/ Undo(r) \/ Unconfirm(r) \/ Mark(r)
    BY <2>1, <2>3, MovesType DEF Undo, Unconfirm, At, QuietMove, Passed
  <2> QED BY <1>6, <2>2, <2>3
<1>7. CASE \/ CacheVerdict(r) \/ LogReceipt(r) \/ Settle(r) \/ SettleFails(r)
           \/ Pend(r) \/ RefundSlot(r)
  <2>1. UNCHANGED <<booking, pays>>
    BY <1>7 DEF CacheVerdict, LogReceipt, Settle, SettleFails, Pend, RefundSlot,
                ledger
  <2>2. /\ req[r].pc \in Passed \/ Pend(r)
        /\ \E l \in Passed \cup {"end"} : Goes(r, l)
    BY <1>7, CacheType, LogType, SettleType, SettleFailsType, PendType, RefundType
       DEF CacheVerdict, LogReceipt, Settle, SettleFails, Pend, RefundSlot, At, Passed
  <2>3. Pend(r) => req[r].pc \in Passed
    BY DEF Pend, At, Passed
  <2> QED BY <2>1, <2>2, <2>3 DEF QuietMove
<1>8. CASE Crash(r)
  BY <1>8, CrashType DEF Crash, Die, ledger, QuietMove
<1> QED BY <1>1, <1>2, <1>3, <1>4, <1>5, <1>6, <1>7, <1>8 DEF PaidFlow

LEMMA ReserveLedger ==
  ASSUME TypeInv, TypeInv', LedgerInv, NEW r \in Reqs, Reserve(r), Goes(r, "book")
  PROVE  LedgerInv'
<1>1. Steady
  BY PaidFlowSteady DEF PaidFlow
<1>2. req[r].pc = "engine" /\ req'[r].pc = "book" /\ req'[r].aged = req[r].aged
  BY GoesIs DEF Reserve, At
<1>3. ~Goes(r, "decline")
  BY <1>2 DEF Goes, TypeInv, ActorsType, Request
<1>4. expires' = [expires EXCEPT ![r] = now + TestValid]
  BY <1>3, ReserveType
<1>5. /\ UNCHANGED <<rec, open, index, released, test>>
  BY DEF Reserve, booking
<1>6. \A q \in Reqs \ {r} : LedgerAt(q)
  BY <1>4, <1>5 DEF LedgerAt, TypeInv, LedgerType
<1>7. Young(r, expires[r])'
  BY <1>1, <1>4, TimeAssumption, CapsAssumption
     DEF Young, TypeInv, LedgerType, MetersType, Steady
<1>8. TestOk(r)'
  BY <1>2, <1>5, <1>7, SteadyCalm, <1>1
     DEF LedgerInv, TestOk, Fore, Early, Engine, Passed, Reserving
<1> QED BY <1>1, <1>2, <1>6, <1>8, LedgerStep DEF Untested, Fore

LEMMA BookLedger ==
  ASSUME TypeInv, TypeInv', LedgerInv, NEW r \in Reqs, BookTest(r)
  PROVE  LedgerInv'
<1>1. Steady
  BY PaidFlowSteady DEF PaidFlow
<1>2. req[r].pc = "book" /\ UNCHANGED <<test, expires, released>>
  BY DEF BookTest, At, pays, Book
<1>3. \/ Goes(r, "sign") /\ Book(r, 3)
      \/ Goes(r, "unsign") /\ Fault /\ \E n \in 0..3 : Book(r, n)
  BY BookTestType
<1>4. \A q \in Reqs \ {r} : LedgerAt(q)
  BY <1>2, <1>3 DEF LedgerAt, Book
<1>5. /\ TestOk(r)
      /\ r \in open' => r \in rec'
      /\ test[r] = "none" /\ r \notin released /\ Young(r, expires[r])
  BY <1>2, <1>3 DEF Book, LedgerInv, TestOk, Fore, Reserving
<1>6. CASE Goes(r, "sign") /\ Book(r, 3)
  <2>1. r \in index' /\ r \in open' /\ r \in rec'
    BY <1>6 DEF Book
  <2>2. req'[r].pc = "sign" /\ req'[r].aged = req[r].aged
    BY <1>6, GoesIs
  <2>3. TestOk(r)'
    BY <1>1, <1>2, <1>5, <2>1, <2>2
       DEF TestOk, Fore, Early, Passed, Reserving, Steady, Young
  <2> QED BY <1>1, <1>2, <1>4, <1>6, <2>3, LedgerStep DEF Untested, Reserving
<1>7. CASE Goes(r, "unsign") /\ Fault
  <2>1. req'[r].pc = "unsign" /\ req'[r].aged = req[r].aged
    BY <1>7, GoesIs
  <2>2. faults' # 0
    BY <1>7 DEF Fault, TypeInv, MetersType
  <2>3. TestOk(r)'
    BY <1>1, <1>2, <1>5, <2>1, <2>2
       DEF TestOk, Calm, Fore, Early, Passed, Reserving, Steady, Young
  <2> QED BY <1>1, <1>2, <1>4, <1>7, <2>3, LedgerStep DEF Untested, Reserving
<1> QED BY <1>3, <1>6, <1>7

LEMMA SignLedger ==
  ASSUME TypeInv, TypeInv', LedgerInv, NEW r \in Reqs, Sign(r)
  PROVE  LedgerInv'
<1>1. Steady
  BY PaidFlowSteady DEF PaidFlow
<1>2. /\ req[r].pc = "sign" /\ UNCHANGED <<rec, open, index, released, expires>>
      /\ test' = [test EXCEPT ![r] = "signed"] /\ Goes(r, "watch")
  BY SignType DEF Sign, At, booking, SignTest
<1>3. \A q \in Reqs \ {r} : LedgerAt(q)
  BY <1>2 DEF LedgerAt, TypeInv, LedgerType
<1>4. req'[r].pc = "watch" /\ req'[r].aged = req[r].aged /\ test'[r] = "signed"
  BY <1>2, GoesIs DEF TypeInv, LedgerType
<1>5. TestOk(r)
  BY DEF LedgerInv
<1>6. TestOk(r)'
  BY <1>1, <1>2, <1>4, <1>5
     DEF TestOk, Fore, Early, Passed, Reserving, Steady, Young
<1> QED BY <1>1, <1>2, <1>3, <1>6, LedgerStep DEF Untested, Reserving

LEMMA UnsignLedger ==
  ASSUME TypeInv, TypeInv', LedgerInv, NEW r \in Reqs, Unsign(r), ReleaseUnsigned(r)
  PROVE  LedgerInv'
<1>1. Steady
  BY PaidFlowSteady DEF PaidFlow
<1>2. req[r].pc = "unsign" /\ UNCHANGED <<test, expires>> /\ Goes(r, "decline")
  BY UnsignType DEF Unsign, At, pays
<1>3. TestOk(r) /\ r \notin released /\ test[r] = "none"
  BY <1>2 DEF LedgerInv, TestOk
<1>4. /\ released' = released \cup {r} /\ open' = open \ {r}
      /\ rec' = rec \ {r} /\ index' = index \ {r}
  BY <1>3 DEF ReleaseUnsigned, Once, Marked
<1>5. \A q \in Reqs \ {r} : LedgerAt(q)
  BY <1>2, <1>4 DEF LedgerAt
<1>6. req'[r].pc = "decline"
  BY <1>2, GoesIs
<1>7. TestOk(r)'
  BY <1>2, <1>3, <1>4, <1>6
     DEF TestOk, CanLand, Fore, Early, Passed, Reserving
<1> QED BY <1>1, <1>2, <1>5, <1>7, LedgerStep DEF Untested, Reserving

LEMMA PaidFlowLedger ==
  ASSUME TypeInv, TypeInv', LedgerInv, NEW r \in Reqs, PaidFlow(r) \/ Crash(r)
  PROVE  LedgerInv'
  BY QuietSteps, QuietLedger, PaidFlowSteady, ReserveLedger, BookLedger, SignLedger,
     UnsignLedger

\* A request that is not under way stays out of the ledger.
LEMMA OpenLedger ==
  ASSUME TypeInv, TypeInv', LedgerInv,
         NEW r \in Reqs, NEW a \in Auths, NEW rq \in Rqs, Open(r, a, rq)
  PROVE  LedgerInv'
<1>1. /\ req[r].pc = "new" /\ UNCHANGED <<test, expires, rec, open, index, released>>
      /\ now' = now /\ faults' = faults /\ crashes' = crashes /\ act' = act
  BY DEF Open, At, ledger, booking, pays, meters
<1>2. req'[r].pc = "claim" /\ \A q \in Reqs \ {r} : req'[q] = req[q]
  BY OpenType
<1>3. (\A q : LedgerAt(q)) /\ (Calm' => Calm) /\ TestOk(r)
  BY <1>1 DEF LedgerAt, Calm, LedgerInv
<1>4. TestOk(r)'
  BY <1>1, <1>2, <1>3 DEF TestOk, CanLand, Fore, Early, Passed, Reserving
<1>5. ASSUME NEW q \in Reqs PROVE TestOk(q)'
  BY <1>1, <1>2, <1>3, <1>4, TestKept DEF LedgerInv
<1>6. ASSUME NEW d \in Acts PROVE AdjustOk(d)'
  <2>1. AdjustOk(d)
    BY DEF LedgerInv
  <2>2. CASE act[d].pc = "adjust"
    <3>1. act[d].by \in Reqs /\ act[d].by # r /\ req[act[d].by].pc \notin Untested
      BY <1>1, <2>1, <2>2 DEF AdjustOk, Untested, Fore
    <3> QED BY <1>1, <1>2, <1>3, <2>1, <3>1, AdjustKept
  <2>3. CASE act[d].pc # "adjust"
    BY <1>1, <2>3 DEF AdjustOk
  <2> QED BY <2>2, <2>3
<1> QED BY <1>5, <1>6 DEF LedgerInv

\* A redeem or a cron pass that leaves the reservations alone.
LEMMA ActorLedger ==
  ASSUME TypeInv, TypeInv', LedgerInv, Steady, NEW d \in Acts, NEW n, Becomes(d, n),
         UNCHANGED <<booking, pays>>, n.pc # "adjust"
  PROVE  LedgerInv'
<1>1. (\A q : LedgerAt(q)) /\ (Calm' => Calm) /\ now' = now
  BY SteadyCalm DEF LedgerAt, booking, pays, Steady
<1>2. ASSUME NEW q \in Reqs PROVE TestOk(q)'
  BY <1>1, TestKept DEF LedgerInv, Becomes
<1>3. ASSUME NEW e \in Acts PROVE AdjustOk(e)'
  <2>1. CASE e = d
    BY <2>1 DEF Becomes, AdjustOk
  <2>2. CASE e # d /\ act[e].pc = "adjust"
    <3>1. AdjustOk(e) /\ act'[e] = act[e] /\ req' = req
      BY <2>2 DEF Becomes, LedgerInv
    <3>2. req'[act[e].by].pc \notin Untested
      BY <2>2, <3>1 DEF AdjustOk
    <3> QED BY <1>1, <3>1, <3>2, AdjustKept
  <2>3. CASE e # d /\ act[e].pc # "adjust"
    BY <2>3 DEF Becomes, AdjustOk
  <2> QED BY <2>1, <2>2, <2>3
<1> QED BY <1>2, <1>3 DEF LedgerInv

LEMMA ReconcileLedger ==
  ASSUME TypeInv, TypeInv', LedgerInv,
         NEW d \in Acts, NEW r \in Reqs, Reconcile(d, r)
  PROVE  LedgerInv'
<1>1. /\ now' = now /\ crashes' = crashes /\ UNCHANGED <<pays, rec, index, released>>
      /\ r \in open /\ now >= expires[r] /\ req' = req
  BY DEF Reconcile, Expired
<1>2. Steady
  BY ActorFlowSteady DEF ActorFlow
<1>3. Calm' => Calm
  BY <1>2, SteadyCalm
<1>4. TestOk(r) /\ req[r].pc \notin Untested
  BY <1>1 DEF LedgerInv, TestOk, Untested, Young, Reserving, Fore, TypeInv,
              LedgerType, MetersType
<1>5. CASE /\ Fault /\ open' = open \ {r} /\ act' = act
  <2>1. faults' # 0
    BY <1>5 DEF Fault, TypeInv, MetersType
  <2>2. \A q \in Reqs \ {r} : LedgerAt(q)
    BY <1>1, <1>5 DEF LedgerAt, pays
  <2>3. TestOk(r)'
    BY <1>1, <1>4, <1>5, <2>1
       DEF TestOk, Calm, CanLand, Untested, Fore, Reserving, pays
  <2>4. ASSUME NEW q \in Reqs PROVE TestOk(q)'
    BY <1>1, <1>3, <2>2, <2>3, TestKept DEF LedgerInv
  <2>5. ASSUME NEW e \in Acts PROVE AdjustOk(e)'
    BY <1>1, <1>5, <2>1 DEF LedgerInv, AdjustOk, Calm, pays
  <2> QED BY <2>4, <2>5 DEF LedgerInv
<1>6. CASE /\ open' = open /\ r \in rec
           /\ act'[d].used <=> test[r] = "landed"
           /\ Becomes(d, [Idle EXCEPT !.pc = "adjust", !.by = r,
                                      !.used = act'[d].used])
  <2>1. /\ act'[d].pc = "adjust" /\ act'[d].by = r /\ act'[d].auth = None
        /\ \A e \in Acts \ {d} : act'[e] = act[e]
    BY <1>6 DEF Becomes, Idle
  <2>2. \A q : LedgerAt(q)
    BY <1>1, <1>6 DEF LedgerAt, pays
  <2>3. ASSUME NEW q \in Reqs PROVE TestOk(q)'
    BY <1>1, <1>3, <2>2, TestKept DEF LedgerInv
  <2>4. AdjustOk(d)'
    BY <1>1, <1>4, <1>6, <2>1 DEF AdjustOk, pays
  <2>5. ASSUME NEW e \in Acts PROVE AdjustOk(e)'
    <3>1. CASE e # d /\ act[e].pc = "adjust"
      <4>1. AdjustOk(e) /\ act'[e] = act[e]
        BY <2>1, <3>1 DEF LedgerInv
      <4>2. req'[act[e].by].pc \notin Untested
        BY <1>1, <3>1, <4>1 DEF AdjustOk
      <4> QED BY <1>1, <1>3, <2>2, <4>1, <4>2, AdjustKept
    <3>2. CASE e # d /\ act[e].pc # "adjust"
      BY <2>1, <3>2 DEF AdjustOk
    <3> QED BY <2>4, <3>1, <3>2
  <2> QED BY <2>3, <2>5 DEF LedgerInv
<1> QED BY <1>5, <1>6, ReconcileType

\* What Adjust does to the reservation it read.
LEMMA AdjustIs ==
  ASSUME TypeInv, NEW d \in Acts, Adjust(d)
  PROVE  LET r == act[d].by IN
         /\ act[d].pc = "adjust" /\ Becomes(d, Idle) /\ r \in Reqs
         /\ UNCHANGED pays
         /\ \/ /\ act[d].used \/ r \in released
               /\ UNCHANGED <<counters, rec, index, released, losses>>
               /\ open' \in {open, open \ {r}}
            \/ /\ ~act[d].used /\ r \notin released
               /\ released' = released \cup {r} /\ open' = open \ {r}
               /\ rec' = rec \ {r} /\ index' = index
               /\ spent' = spent - 1 /\ hosts' = hosts
               /\ \E n \in 0..2 : /\ ReleaseLoss(r, n)
                                  /\ (n = 2 /\ UNCHANGED faults) \/ Fault
<1> DEFINE r == act[d].by
<1>1. act[d].pc = "adjust" /\ Becomes(d, Idle) /\ r \in Reqs /\ UNCHANGED pays
  BY AdjustType DEF Adjust, Doing
<1>2. hosts' = hosts - 0 => hosts' = hosts
  BY DEF TypeInv, LedgerType
<1>3. index' = index \ {} => index' = index
  OBVIOUS
<1>4. CASE /\ act[d].used \/ Marked(r)
           /\ Tried(open, open \ {r})
           /\ UNCHANGED <<counters, rec, index, released, losses>>
  BY <1>1, <1>4 DEF Tried, Applied, Lost, Marked
<1>5. CASE /\ ~act[d].used /\ ~Marked(r) /\ ReleaseUnused(r)
           /\ \E n \in 0..2 : /\ ReleaseLoss(r, n)
                              /\ (n = 2 /\ UNCHANGED faults) \/ Fault
  BY <1>1, <1>2, <1>3, <1>5 DEF ReleaseUnused, Once, Marked
<1> QED BY <1>4, <1>5 DEF Adjust

LEMMA AdjustLedger ==
  ASSUME TypeInv, TypeInv', LedgerInv, NEW d \in Acts, Adjust(d)
  PROVE  LedgerInv'
<1>0. PICK r \in Reqs : r = act[d].by
  BY AdjustIs
<1>1. /\ act[d].pc = "adjust" /\ Becomes(d, Idle) /\ r = act[d].by
      /\ UNCHANGED <<test, expires>>
  BY <1>0, AdjustIs DEF pays
<1>2. Steady /\ now' = now
  BY ActorFlowSteady DEF ActorFlow, Steady
<1>3. (Calm' => Calm) /\ req' = req
  BY <1>1, <1>2, SteadyCalm DEF Becomes
<1>4. AdjustOk(d) /\ TestOk(r)
  BY <1>1 DEF LedgerInv
<1>5. \A q \in Reqs \ {r} : LedgerAt(q)
  BY <1>0, <1>1, AdjustIs DEF LedgerAt
<1>6. req[r].pc \notin Untested /\ now >= expires[r]
      /\ (act[d].used <=> test[r] = "landed")
  BY <1>1, <1>4 DEF AdjustOk
<1>7. /\ TestOk(r)'
      /\ r \in rec \/ r \in released => r \in rec' \/ r \in released'
      /\ test[r] # "landed" => r \in released'
  <2>1. CASE /\ act[d].used \/ r \in released
             /\ UNCHANGED <<rec, index, released>>
             /\ open' \in {open, open \ {r}}
    BY <1>1, <1>2, <1>3, <1>4, <1>6, <2>1
       DEF TestOk, CanLand, Untested, Fore, Reserving
  <2>2. CASE /\ ~act[d].used
             /\ released' = released \cup {r} /\ open' = open \ {r}
             /\ rec' = rec \ {r} /\ index' = index
    BY <1>1, <1>2, <1>3, <1>4, <1>6, <2>2
       DEF TestOk, CanLand, Untested, Fore, Reserving, TypeInv, LedgerType, MetersType
  <2> QED BY <1>0, <2>1, <2>2, AdjustIs
<1>8. ASSUME NEW q \in Reqs PROVE TestOk(q)'
  BY <1>2, <1>3, <1>5, <1>7, TestKept DEF LedgerInv
<1>9. ASSUME NEW e \in Acts PROVE AdjustOk(e)'
  <2>1. CASE act'[e].pc # "adjust"
    BY <2>1 DEF AdjustOk
  <2>2. CASE act'[e].pc = "adjust"
    <3>1. e # d /\ act'[e] = act[e]
      BY <1>1, <2>2 DEF Becomes, Idle
    <3>2. AdjustOk(e)
      BY DEF LedgerInv
    <3>3. req'[act[e].by].pc \notin Untested /\ act[e].by \in Reqs
      BY <1>3, <2>2, <3>1, <3>2 DEF AdjustOk
    <3>4. CASE act[e].by # r
      BY <1>2, <1>3, <1>5, <3>1, <3>2, <3>3, <3>4, AdjustKept
    <3>5. CASE act[e].by = r
      BY <1>1, <1>2, <1>3, <1>7, <2>2, <3>1, <3>2, <3>5 DEF AdjustOk
    <3> QED BY <3>4, <3>5
  <2> QED BY <2>1, <2>2
<1> QED BY <1>8, <1>9 DEF LedgerInv

LEMMA ActorFlowLedger ==
  ASSUME TypeInv, TypeInv', LedgerInv, NEW d \in Acts, ActorFlow(d)
  PROVE  LedgerInv'
<1>1. Steady /\ act[d] \in Actor /\ Idle.pc = "idle"
  BY ActorFlowSteady DEF TypeInv, ActorsType, Idle
<1>2. CASE \E r \in Reqs : Reconcile(d, r)
  BY <1>2, ReconcileLedger
<1>3. CASE Adjust(d)
  BY <1>3, AdjustLedger
<1>4. CASE Drop(d) \/ Hand(d) \/ CrashAct(d)
  <2>1. UNCHANGED <<booking, pays>> /\ Becomes(d, Idle)
    BY <1>4, DropType, HandType, CrashType DEF Drop, Hand, CrashAct, Die, ledger
  <2> QED BY <1>1, <2>1, ActorLedger
<1>5. CASE Probe(d) \/ Judge(d) \/ Close(d) \/ LoseClosed(d) \/ Give(d)
  <2>1. UNCHANGED <<booking, pays>>
    BY <1>5 DEF Probe, Judge, Close, LoseClosed, Give, ledger
  <2>2. \E n : Becomes(d, n) /\ n.pc # "adjust"
    <3>1. CASE Probe(d)
      <4>1. CASE Becomes(d, Idle)
        BY <1>1, <4>1
      <4>2. CASE Becomes(d, [act[d] EXCEPT !.pc = "judge", !.used = act'[d].used])
        <5>1. [act[d] EXCEPT !.pc = "judge", !.used = act'[d].used].pc = "judge"
          BY <1>1 DEF Actor
        <5> QED BY <4>2, <5>1
      <4> QED BY <3>1, <4>1, <4>2, ProbeType
    <3>2. CASE Judge(d) \/ Close(d) \/ LoseClosed(d) \/ Give(d)
      <4>1. \A l : [act[d] EXCEPT !.pc = l].pc = l
        BY <1>1 DEF Actor
      <4>2. \/ Becomes(d, Idle)
            \/ \E l \in {"give", "close", "lose", "drop", "hand"} :
                 Becomes(d, [act[d] EXCEPT !.pc = l])
        BY <3>2, JudgeType, CloseType, LoseClosedType, GiveType
      <4>3. CASE Becomes(d, Idle)
        BY <1>1, <4>3
      <4>4. CASE \E l \in {"give", "close", "lose", "drop", "hand"} :
                   Becomes(d, [act[d] EXCEPT !.pc = l])
        BY <4>1, <4>4
      <4> QED BY <4>2, <4>3, <4>4
    <3> QED BY <1>5, <3>1, <3>2
  <2> QED BY <1>1, <2>1, <2>2, ActorLedger
<1>6. CASE \E a \in Auths : Cron(d, a) \/ \E rq \in Rqs : Redeem(d, a, rq)
  <2>1. UNCHANGED <<booking, pays>>
    BY <1>6 DEF Cron, Redeem, ledger
  <2>2. \E n : Becomes(d, n) /\ n.pc = "probe"
    <3>1. \A a : /\ [Idle EXCEPT !.pc = "probe", !.auth = a, !.by = verdict[a],
                                 !.cron = TRUE].pc = "probe"
                 /\ [Idle EXCEPT !.pc = "probe", !.auth = a,
                                 !.by = verdict[a]].pc = "probe"
      BY DEF Idle
    <3> QED BY <1>6, <3>1, CronType, RedeemType
  <2> QED BY <1>1, <2>1, <2>2, ActorLedger
<1> QED BY <1>2, <1>3, <1>4, <1>5, <1>6 DEF ActorFlow

LEMMA TestLandsLedger ==
  ASSUME TypeInv, TypeInv', LedgerInv, NEW r \in Reqs, TestLands(r)
  PROVE  LedgerInv'
<1>1. /\ test[r] = "signed" /\ now < expires[r] /\ test' = [test EXCEPT ![r] = "landed"]
      /\ UNCHANGED <<expires, rec, open, index, released, req, act, now, faults, crashes>>
  BY DEF TestLands, LandTest, booking, meters
<1>2. test'[r] = "landed" /\ \A q \in Reqs \ {r} : test'[q] = test[q]
  BY <1>1 DEF TypeInv, LedgerType
<1>3. TestOk(r)'
  BY <1>1, <1>2 DEF LedgerInv, TestOk, CanLand, Calm, Young, Fore, Reserving
<1>4. ASSUME NEW q \in Reqs PROVE TestOk(q)'
  BY <1>1, <1>2, <1>3, TestKept DEF LedgerInv, LedgerAt, Calm
<1>5. ASSUME NEW d \in Acts PROVE AdjustOk(d)'
  <2>1. AdjustOk(d) /\ act[d].pc = "adjust" => act[d].by # r
    BY <1>1 DEF AdjustOk, TypeInv, LedgerType, MetersType
  <2> QED BY <1>1, <1>2, <2>1 DEF LedgerInv, AdjustOk, Calm
<1> QED BY <1>4, <1>5 DEF LedgerInv

LEMMA TickLedger ==
  ASSUME TypeInv, TypeInv', LedgerInv, Tick
  PROVE  LedgerInv'
<1>1. /\ now' = now + 1 /\ now \in Nat
      /\ UNCHANGED <<test, expires, rec, open, index, released, faults, crashes>>
  BY DEF Tick, ledger, booking, pays, TypeInv, MetersType
<1>2. ASSUME NEW r \in Reqs PROVE TestOk(r)'
  <2>1. TestOk(r) /\ expires[r] \in Nat
    BY DEF LedgerInv, TypeInv, LedgerType
  <2>2. req'[r].pc = req[r].pc /\ (Busy(r) => ~req[r].aged /\ req'[r].aged)
    BY TickType
  <2>3. req[r].pc \in Reserving \cup {"watch"} => Busy(r)
    BY DEF Busy, Reserving
  <2>4. CanLand(r)' => CanLand(r)
    BY <1>1, <2>1 DEF CanLand
  <2>5. req[r].pc \in Reserving \cup {"watch"} => Young(r, expires[r])'
    BY <1>1, <2>1, <2>2, <2>3 DEF TestOk, Young
  <2> QED BY <1>1, <2>1, <2>2, <2>4, <2>5 DEF TestOk, Calm
<1>3. ASSUME NEW d \in Acts PROVE AdjustOk(d)'
  <2>1. /\ act'[d].pc = act[d].pc /\ act'[d].auth = act[d].auth
        /\ act'[d].by = act[d].by /\ act'[d].used = act[d].used
    BY TickType
  <2>2. act[d].by \in Reqs => /\ req'[act[d].by].pc = req[act[d].by].pc
                              /\ expires[act[d].by] \in Nat
    BY TickType DEF TypeInv, LedgerType
  <2>3. CASE act[d].pc = "adjust"
    <3>1. AdjustOk(d) /\ act[d].by \in Reqs
      BY <2>3 DEF LedgerInv, AdjustOk
    <3>2. now' >= expires'[act[d].by] /\ req'[act[d].by].pc \notin Untested
      BY <1>1, <2>2, <2>3, <3>1 DEF AdjustOk
    <3> QED BY <1>1, <2>1, <2>3, <3>1, <3>2 DEF AdjustOk, Calm
  <2>4. CASE act[d].pc # "adjust"
    BY <2>1, <2>4 DEF AdjustOk
  <2> QED BY <2>3, <2>4
<1> QED BY <1>2, <1>3 DEF LedgerInv

LEMMA LedgerNext == TypeInv /\ TypeInv' /\ LedgerInv /\ [Next]_vars => LedgerInv'
<1> SUFFICES ASSUME TypeInv, TypeInv', LedgerInv, [Next]_vars PROVE LedgerInv'
  OBVIOUS
<1>1. CASE UNCHANGED vars \/ \E a \in Auths : Land(a) \/ Cancel(a)
  <2>1. UNCHANGED <<test, expires, rec, open, index, released, req, act, now, faults,
                    crashes>>
    BY <1>1 DEF vars, Land, Cancel, ledger, booking, pays, meters
  <2> QED BY <2>1 DEF LedgerInv, TestOk, AdjustOk, Calm, CanLand, Young
<1>2. CASE \E r \in Reqs : \E a \in Auths, rq \in Rqs : Open(r, a, rq)
  BY <1>2, OpenLedger
<1>3. CASE \E r \in Reqs : PaidFlow(r) \/ Crash(r)
  BY <1>3, PaidFlowLedger
<1>4. CASE \E r \in Reqs : TestLands(r)
  BY <1>4, TestLandsLedger
<1>5. CASE \E d \in Acts : ActorFlow(d)
  BY <1>5, ActorFlowLedger
<1>6. CASE Tick
  BY <1>6, TickLedger
<1> QED BY <1>1, <1>2, <1>3, <1>4, <1>5, <1>6 DEF Next, ActorFlow

LEMMA LedgerInit == Init => LedgerInv
<1> SUFFICES ASSUME Init PROVE LedgerInv
  OBVIOUS
<1>1. /\ \A r \in Reqs : req[r].pc = "new" /\ test[r] = "none"
      /\ \A d \in Acts : act[d].pc = "idle"
      /\ rec = {} /\ open = {} /\ index = {} /\ released = {}
  BY DEF Init, CapsInit, Fresh, Idle
<1> QED BY <1>1 DEF LedgerInv, TestOk, AdjustOk, Fore, Reserving, Passed

----------------------------------------------------------------------------
(* The counters and the loss ledger. *)

InKept(r)    == /\ r \notin released
                /\ req[r].pc \in Reserving \/ test[r] # "none" \/ r \in rec
InHost(r)    == req[r].pc \in Reserving \/ test[r] # "none"
InCounted(r) == test[r] = "landed" \/ r \in open \/ At(r, "book")
Kept     == {r \in Reqs : InKept(r)}
HostKept == {r \in Reqs : InHost(r)}
Counted  == {r \in Reqs : InCounted(r)}
CountInv == /\ IsFiniteSet(Kept) /\ spent >= Cardinality(Kept) /\ spent <= Cap
            /\ IsFiniteSet(HostKept) /\ hosts >= Cardinality(HostKept)
            /\ hosts <= HostCap
            /\ IsFiniteSet(Counted)
            /\ Calm => spent = Cardinality(Counted)
\* No loss is taken off the books that is not on them.
OwedOk(r) == loss[r] >= 0 /\ (r \in lossRec /\ r \notin released => loss[r] >= 1)
OwedInv == \A r \in Reqs : OwedOk(r)

One(b) == IF b THEN 1 ELSE 0
\* A set that differs at one point at most.
LEMMA Differ ==
  ASSUME NEW S, NEW T, NEW p, IsFiniteSet(S), S \ {p} = T \ {p}
  PROVE  /\ IsFiniteSet(T) /\ Cardinality(S) \in Nat /\ Cardinality(T) \in Nat
         /\ Cardinality(T) = Cardinality(S) + One(p \in T) - One(p \in S)
<1> DEFINE C == S \ {p}
<1>1. IsFiniteSet(C) /\ Cardinality(C) \in Nat /\ p \notin C
  BY FS_RemoveElement, FS_CardinalityType
<1>2. /\ IsFiniteSet(C \cup {p})
      /\ Cardinality(C \cup {p}) = Cardinality(C) + 1
  BY <1>1, FS_AddElement
<1>3. S = IF p \in S THEN C \cup {p} ELSE C
  OBVIOUS
<1>4. T = IF p \in T THEN C \cup {p} ELSE C
  OBVIOUS
<1> HIDE DEF C
<1>5. Cardinality(S) = Cardinality(C) + One(p \in S)
  <2>1. CASE p \in S
    BY <1>2, <1>3, <2>1 DEF One
  <2>2. CASE p \notin S
    <3>1. One(p \in S) = 0 /\ S = C
      BY <1>3, <2>2 DEF One
    <3> QED BY <1>1, <3>1
  <2> QED BY <2>1, <2>2
<1>6. IsFiniteSet(T) /\ Cardinality(T) = Cardinality(C) + One(p \in T)
  <2>1. CASE p \in T
    BY <1>2, <1>4, <2>1 DEF One
  <2>2. CASE p \notin T
    <3>1. One(p \in T) = 0 /\ T = C
      BY <1>4, <2>2 DEF One
    <3> QED BY <1>1, <3>1
  <2> QED BY <2>1, <2>2
<1>7. One(p \in S) \in Int /\ One(p \in T) \in Int
  BY DEF One
<1>8. Cardinality(S) \in Nat /\ Cardinality(T) \in Nat
  BY <1>6, FS_CardinalityType
<1> QED BY <1>1, <1>5, <1>6, <1>7, <1>8

\* Nobody's payment but r's is counted otherwise than before.
CountAt(q) == /\ InKept(q)' <=> InKept(q)
              /\ InHost(q)' <=> InHost(q)
              /\ InCounted(q)' <=> InCounted(q)

LEMMA CountStep ==
  ASSUME TypeInv, TypeInv', CountInv, Calm' => Calm, NEW r \in Reqs,
         \A q \in Reqs \ {r} : CountAt(q),
         spent' - spent >= One(InKept(r)') - One(InKept(r)),
         hosts' - hosts >= One(InHost(r)') - One(InHost(r)),
         spent' <= Cap, hosts' <= HostCap,
         Calm' => spent' - spent = One(InCounted(r)') - One(InCounted(r))
  PROVE  CountInv'
<1>1. /\ spent \in Int /\ hosts \in Int /\ spent' \in Int /\ hosts' \in Int
  BY DEF TypeInv, LedgerType
<1>2. \A b : One(b) \in Int
  BY DEF One
<1>3. Kept \ {r} = Kept' \ {r} /\ HostKept \ {r} = HostKept' \ {r}
      /\ Counted \ {r} = Counted' \ {r}
  BY DEF Kept, HostKept, Counted, CountAt
<1>4. /\ r \in Kept <=> InKept(r)
      /\ r \in Kept' <=> InKept(r)'
      /\ r \in HostKept <=> InHost(r)
      /\ r \in HostKept' <=> InHost(r)'
      /\ r \in Counted <=> InCounted(r)
      /\ r \in Counted' <=> InCounted(r)'
  BY DEF Kept, HostKept, Counted
<1>5. IsFiniteSet(Kept) /\ IsFiniteSet(HostKept) /\ IsFiniteSet(Counted)
  BY DEF CountInv
<1>6. /\ IsFiniteSet(Kept') /\ Cardinality(Kept) \in Nat
      /\ Cardinality(Kept') \in Nat
      /\ Cardinality(Kept') = Cardinality(Kept) + One(InKept(r)') - One(InKept(r))
  <2>1. /\ IsFiniteSet(Kept') /\ Cardinality(Kept) \in Nat
        /\ Cardinality(Kept') \in Nat
        /\ Cardinality(Kept') = Cardinality(Kept) + One(r \in Kept') - One(r \in Kept)
    BY <1>3, <1>5, Differ, ZenonT(30)
  <2> QED BY <1>4, <2>1 DEF One
<1>7. /\ IsFiniteSet(HostKept') /\ Cardinality(HostKept) \in Nat
      /\ Cardinality(HostKept') \in Nat
      /\ Cardinality(HostKept') = Cardinality(HostKept)
                                  + One(InHost(r)') - One(InHost(r))
  <2>1. /\ IsFiniteSet(HostKept') /\ Cardinality(HostKept) \in Nat
        /\ Cardinality(HostKept') \in Nat
        /\ Cardinality(HostKept') = Cardinality(HostKept)
                                    + One(r \in HostKept') - One(r \in HostKept)
    BY <1>3, <1>5, Differ, ZenonT(30)
  <2> QED BY <1>4, <2>1 DEF One
<1>8. /\ IsFiniteSet(Counted') /\ Cardinality(Counted) \in Nat
      /\ Cardinality(Counted') \in Nat
      /\ Cardinality(Counted') = Cardinality(Counted)
                                 + One(InCounted(r)') - One(InCounted(r))
  <2>1. /\ IsFiniteSet(Counted') /\ Cardinality(Counted) \in Nat
        /\ Cardinality(Counted') \in Nat
        /\ Cardinality(Counted') = Cardinality(Counted)
                                   + One(r \in Counted') - One(r \in Counted)
    BY <1>3, <1>5, Differ, ZenonT(30)
  <2> QED BY <1>4, <2>1 DEF One
<1>9. spent' >= Cardinality(Kept') /\ hosts' >= Cardinality(HostKept')
      /\ (Calm' => spent' = Cardinality(Counted'))
  BY <1>1, <1>2, <1>6, <1>7, <1>8 DEF CountInv
<1> QED BY <1>6, <1>7, <1>8, <1>9 DEF CountInv

LEMMA CountStill ==
  ASSUME TypeInv, TypeInv', CountInv, Calm' => Calm, \A q \in Reqs : CountAt(q),
         UNCHANGED counters
  PROVE  CountInv'
<1>1. Kept' = Kept /\ HostKept' = HostKept /\ Counted' = Counted
  BY DEF Kept, HostKept, Counted, CountAt
<1> QED BY <1>1 DEF CountInv, counters

\* A step of a request leaves the counters alone, reserves or gives back.
LEMMA CountersMove ==
  ASSUME TypeInv, NEW r \in Reqs, PaidFlow(r) \/ Crash(r)
  PROVE  \/ UNCHANGED counters
         \/ Reserve(r) /\ TakeAll
         \/ Unsign(r) /\ ReleaseUnsigned(r)
<1>1. CASE Crash(r)
  BY <1>1 DEF Crash, Die, ledger
<1>2. CASE Reserve(r) \/ Unsign(r)
  BY <1>2 DEF Reserve, Unsign, counters
<1>3. CASE PaidFlow(r) /\ ~(Reserve(r) \/ Unsign(r))
  BY <1>3
     DEF PaidFlow, TryClaim, CheckNonce, Verify, Refuse, Release, TakeDeclineSlot,
         Block, BookTest, Sign, RefuseSign, Confirm, SignerFails, FailChecks,
         Decline, CacheVerdict, LogReceipt, Undo, LoseTest, Settle, SettleFails,
         Unconfirm, Pend, SettleOk, RefundSlot, Mark, ledger
<1> QED BY <1>1, <1>2, <1>3

LEMMA CountGoes ==
  ASSUME TypeInv, NEW r \in Reqs, NEW l, Goes(r, l), NEW q \in Reqs \ {r}, LedgerAt(q)
  PROVE  CountAt(q)
  BY DEF Goes, LedgerAt, CountAt, InKept, InHost, InCounted, At

LEMMA PaidFlowCount ==
  ASSUME TypeInv, TypeInv', LedgerInv, CountInv,
         NEW r \in Reqs, PaidFlow(r) \/ Crash(r)
  PROVE  CountInv'
<1>1. Steady /\ (Calm' => Calm) /\ (Crash(r) => ~Calm')
  BY PaidFlowSteady, SteadyCalm DEF Crash, Die, Calm, TypeInv, MetersType
<1>2. /\ TestOk(r) /\ spent \in Int /\ hosts \in Int /\ spent <= Cap /\ hosts <= HostCap
      /\ Cap \in Nat /\ HostCap \in Nat
  BY CapsAssumption DEF LedgerInv, TypeInv, LedgerType, CountInv
<1>3. TakeAll => /\ spent' = spent + 1 /\ hosts' = hosts + 1
                 /\ spent' <= Cap /\ hosts' <= HostCap
  BY <1>2 DEF TakeAll, Fits
<1>4. Fault => ~Calm'
  BY DEF Fault, Calm, TypeInv, MetersType
<1>5. CASE UNCHANGED <<booking, pays>> /\ \E l : Goes(r, l) /\ QuietMove(r, l)
  <2>1. PICK l : Goes(r, l) /\ QuietMove(r, l)
    BY <1>5
  <2>2. UNCHANGED <<test, expires, rec, open, index, released>> /\ req'[r].pc = l
    BY <1>5, <2>1, GoesIs DEF booking, pays
  <2>3. \A q \in Reqs \ {r} : CountAt(q)
    BY <2>1, <2>2, CountGoes DEF LedgerAt
  <2>4. l \in Reserving => req[r].pc \in Reserving
    BY <2>1 DEF QuietMove, Reserving, Fore, Early, Passed
  <2>5. (InKept(r)' => InKept(r)) /\ (InHost(r)' => InHost(r))
    BY <2>2, <2>4 DEF InKept, InHost
  <2>6. \/ UNCHANGED counters
        \/ TakeAll /\ ~Calm'
    <3>1. CASE Reserve(r) /\ TakeAll
      <4>1. ~Goes(r, "book")
        BY <2>1, GoesIs DEF QuietMove, Fore, Early, Passed
      <4> QED BY <1>4, <3>1, <4>1, ReserveType
    <3>2. CASE Unsign(r) /\ ReleaseUnsigned(r)
      <4>1. req[r].pc = "unsign" /\ r \notin released
        BY <1>2, <3>2 DEF Unsign, At, TestOk
      <4>2. r \in released'
        BY <3>2, <4>1 DEF ReleaseUnsigned, Once, Marked
      <4> QED BY <2>2, <4>1, <4>2
    <3> QED BY <3>1, <3>2, CountersMove
  <2>7. Calm' => (InCounted(r)' <=> InCounted(r))
    <3>1. req[r].pc = "book" => BookTest(r) \/ Crash(r)
      BY DEF PaidFlow, TryClaim, CheckNonce, Verify, Refuse, Release, Reserve,
             TakeDeclineSlot, Block, Sign, RefuseSign, Unsign, Confirm, SignerFails,
             FailChecks, Decline, CacheVerdict, LogReceipt, Undo, LoseTest, Settle,
             SettleFails, Unconfirm, Pend, SettleOk, RefundSlot, Mark, At
    <3>2. BookTest(r) => ~QuietMove(r, l)
      <4>1. BookTest(r) => req[r].pc = "book" /\ l \in {"sign", "unsign"}
        BY <2>2, BookTestType, GoesIs DEF BookTest, At
      <4> QED BY <4>1 DEF QuietMove, Fore, Early, Passed
    <3>3. l # "book"
      BY <2>1 DEF QuietMove, Fore, Early, Passed
    <3> QED BY <1>1, <2>1, <2>2, <3>1, <3>2, <3>3 DEF InCounted, At
  <2>8. /\ One(InKept(r)') - One(InKept(r)) <= 0
        /\ One(InHost(r)') - One(InHost(r)) <= 0
        /\ Calm' => One(InCounted(r)') - One(InCounted(r)) = 0
    BY <2>5, <2>7 DEF One
  <2>9. \/ spent' = spent /\ hosts' = hosts
        \/ spent' = spent + 1 /\ hosts' = hosts + 1 /\ spent' <= Cap
           /\ hosts' <= HostCap /\ ~Calm'
    BY <1>3, <2>6 DEF counters
  <2>10. /\ One(InKept(r)') \in Int /\ One(InKept(r)) \in Int
         /\ One(InHost(r)') \in Int /\ One(InHost(r)) \in Int
         /\ One(InCounted(r)') \in Int /\ One(InCounted(r)) \in Int
    BY DEF One
  <2>11. /\ spent' - spent >= One(InKept(r)') - One(InKept(r))
         /\ hosts' - hosts >= One(InHost(r)') - One(InHost(r))
         /\ spent' <= Cap /\ hosts' <= HostCap
         /\ Calm' => spent' - spent = One(InCounted(r)') - One(InCounted(r))
    BY <1>2, <2>8, <2>9, <2>10
  <2> QED BY <1>1, <2>3, <2>11, CountStep
<1>6. CASE Reserve(r) /\ Goes(r, "book")
  <2>1. req[r].pc = "engine" /\ req'[r].pc = "book" /\ UNCHANGED <<test, booking>>
    BY <1>6, GoesIs DEF Reserve, At
  <2>2. TakeAll /\ expires' = [expires EXCEPT ![r] = now + TestValid]
    <3>1. ~Goes(r, "decline")
      BY <2>1 DEF Goes, TypeInv, ActorsType, Request
    <3> QED BY <1>6, <3>1, ReserveType
  <2>3. \A q \in Reqs \ {r} : CountAt(q)
    BY <1>6, <2>1, <2>2, CountGoes DEF LedgerAt, booking, TypeInv, LedgerType
  <2>4. /\ ~InKept(r) /\ InKept(r)' /\ ~InHost(r) /\ InHost(r)'
        /\ ~InCounted(r) /\ InCounted(r)'
    BY <1>2, <2>1 DEF TestOk, Fore, Reserving, InKept, InHost, InCounted, At, booking
  <2> QED BY <1>1, <1>2, <1>3, <2>2, <2>3, <2>4, CountStep DEF One
<1>7. CASE BookTest(r)
  <2>1. /\ req[r].pc = "book" /\ UNCHANGED <<counters, test, expires, released>>
        /\ req'[r].pc \in {"sign", "unsign"}
        /\ \E l : Goes(r, l)
    BY <1>7, BookTestType, GoesIs DEF BookTest, At, Book, pays
  <2>2. \A q \in Reqs \ {r} : CountAt(q)
    BY <1>7, <2>1, BookTestType, CountGoes DEF LedgerAt, Book
  <2>3. r \in open' \/ ~Calm'
    BY <1>4, <1>7, BookTestType DEF Book
  <2>4. /\ InKept(r) /\ InKept(r)' /\ InHost(r) /\ InHost(r)'
        /\ InCounted(r) /\ (Calm' => InCounted(r)')
    BY <1>2, <2>1, <2>3 DEF TestOk, Fore, Reserving, InKept, InHost, InCounted, At
  <2> QED BY <1>1, <1>2, <2>1, <2>2, <2>4, CountStep DEF One, counters
<1>8. CASE Sign(r)
  <2>1. /\ req[r].pc = "sign" /\ UNCHANGED <<counters, expires, booking>>
        /\ req'[r].pc = "watch" /\ Goes(r, "watch")
        /\ test' = [test EXCEPT ![r] = "signed"]
    BY <1>8, SignType, GoesIs DEF Sign, At, SignTest
  <2>2. \A q \in Reqs \ {r} : CountAt(q)
    BY <2>1, CountGoes DEF LedgerAt, booking, TypeInv, LedgerType
  <2>3. /\ InKept(r) /\ InKept(r)' /\ InHost(r) /\ InHost(r)'
        /\ InCounted(r) /\ InCounted(r)'
    BY <1>2, <2>1
       DEF TestOk, Fore, Reserving, InKept, InHost, InCounted, At, booking, TypeInv,
           LedgerType
  <2> QED BY <1>1, <1>2, <2>1, <2>2, <2>3, CountStep DEF One, counters
<1>9. CASE Unsign(r) /\ ReleaseUnsigned(r)
  <2>1. /\ req[r].pc = "unsign" /\ UNCHANGED <<test, expires>>
        /\ req'[r].pc = "decline" /\ Goes(r, "decline")
    BY <1>9, UnsignType, GoesIs DEF Unsign, At, pays
  <2>2. /\ released' = released \cup {r} /\ open' = open \ {r}
        /\ rec' = rec \ {r} /\ index' = index \ {r}
        /\ spent' = spent - 1 /\ hosts' = hosts - 1
    BY <1>2, <1>9, <2>1 DEF TestOk, ReleaseUnsigned, Once, Marked
  <2>3. \A q \in Reqs \ {r} : CountAt(q)
    BY <2>1, <2>2, CountGoes DEF LedgerAt
  <2>4. /\ InKept(r) /\ ~InKept(r)' /\ InHost(r) /\ ~InHost(r)'
        /\ (Calm' => InCounted(r)) /\ ~InCounted(r)'
    BY <1>1, <1>2, <2>1, <2>2
       DEF TestOk, Fore, Reserving, InKept, InHost, InCounted, At
  <2> QED BY <1>1, <1>2, <2>2, <2>3, <2>4, CountStep DEF One
<1> QED BY <1>5, <1>6, <1>7, <1>8, <1>9, QuietSteps

LEMMA ActorFlowCount ==
  ASSUME TypeInv, TypeInv', LedgerInv, CountInv, NEW d \in Acts, ActorFlow(d)
  PROVE  CountInv'
<1>1. Steady /\ (Calm' => Calm)
  BY ActorFlowSteady, SteadyCalm
<1>2. Fault => ~Calm'
  BY DEF Fault, Calm, TypeInv, MetersType
<1>3. ASSUME req' = req, test' = test, NEW r \in Reqs,
             rec' \ {r} = rec \ {r}, open' \ {r} = open \ {r},
             released' \ {r} = released \ {r}
      PROVE  \A q \in Reqs \ {r} : CountAt(q)
  BY <1>3 DEF CountAt, InKept, InHost, InCounted, At
<1>4. CASE \A r \in Reqs : ~Reconcile(d, r)
  <2>1. CASE Adjust(d)
    <3>1. PICK r \in Reqs : r = act[d].by
      BY <2>1, AdjustIs
    <3>2. req' = req /\ test' = test /\ AdjustOk(d) /\ act[d].pc = "adjust" /\ TestOk(r)
          /\ spent \in Int /\ spent <= Cap /\ hosts \in Int /\ hosts <= HostCap
          /\ Cap \in Nat
      BY <2>1, AdjustIs, CapsAssumption
         DEF Becomes, pays, LedgerInv, TypeInv, LedgerType, CountInv
    <3>3. CASE /\ act[d].used \/ r \in released
               /\ UNCHANGED <<counters, rec, index, released>>
               /\ open' \in {open, open \ {r}}
      <4>1. CountAt(r)
        BY <3>1, <3>2, <3>3
           DEF AdjustOk, TestOk, CountAt, InKept, InHost, InCounted, At
      <4>2. \A q \in Reqs : CountAt(q)
        BY <1>3, <3>2, <3>3, <4>1
      <4> QED BY <1>1, <3>3, <4>2, CountStill
    <3>4. CASE /\ ~act[d].used /\ r \notin released
               /\ released' = released \cup {r} /\ open' = open \ {r}
               /\ rec' = rec \ {r} /\ spent' = spent - 1 /\ hosts' = hosts
      <4>1. \A q \in Reqs \ {r} : CountAt(q)
        BY <1>3, <3>2, <3>4
      <4>2. /\ InKept(r) /\ ~InKept(r)' /\ (InHost(r)' <=> InHost(r))
            /\ (Calm' => InCounted(r)) /\ ~InCounted(r)'
        BY <1>1, <3>1, <3>2, <3>4
           DEF AdjustOk, Untested, Reserving, InKept, InHost, InCounted, At
      <4> QED BY <1>1, <3>2, <3>4, <4>1, <4>2, CountStep DEF One
    <3> QED BY <2>1, <3>1, <3>3, <3>4, AdjustIs
  <2>2. CASE ActorFlow(d) /\ ~Adjust(d)
    <3>1. UNCHANGED <<counters, booking, pays, req>>
      BY <1>4, <2>2
         DEF ActorFlow, Cron, Redeem, Probe, Judge, Close, LoseClosed, Drop, Give,
             Hand, CrashAct, Die, Turn, Done, ledger
    <3>2. \A q \in Reqs : CountAt(q)
      BY <3>1 DEF CountAt, InKept, InHost, InCounted, At, booking, pays
    <3> QED BY <1>1, <3>1, <3>2, CountStill
  <2> QED BY <2>1, <2>2
<1>5. CASE \E r \in Reqs : Reconcile(d, r)
  <2>1. PICK r \in Reqs : Reconcile(d, r)
    BY <1>5
  <2>2. UNCHANGED <<counters, rec, released, test>> /\ req' = req
    BY <2>1 DEF Reconcile, pays
  <2>3. CASE open' = open
    <3>1. \A q \in Reqs : CountAt(q)
      BY <2>2, <2>3 DEF CountAt, InKept, InHost, InCounted, At
    <3> QED BY <1>1, <2>2, <3>1, CountStill
  <2>4. CASE Fault /\ open' = open \ {r}
    <3>1. \A q \in Reqs \ {r} : CountAt(q)
      BY <1>3, <2>2, <2>4
    <3>2. (InKept(r)' <=> InKept(r)) /\ (InHost(r)' <=> InHost(r))
      BY <2>2 DEF InKept, InHost
    <3>3. /\ spent' = spent /\ hosts' = hosts /\ spent \in Int /\ hosts \in Int
          /\ spent <= Cap /\ hosts <= HostCap
      BY <2>2 DEF counters, TypeInv, LedgerType, CountInv
    <3> QED BY <1>1, <1>2, <2>4, <3>1, <3>2, <3>3, CountStep DEF One
  <2> QED BY <2>1, <2>3, <2>4, ReconcileType
<1> QED BY <1>4, <1>5

LEMMA CountNext ==
  TypeInv /\ TypeInv' /\ LedgerInv /\ CountInv /\ [Next]_vars => CountInv'
<1> SUFFICES ASSUME TypeInv, TypeInv', LedgerInv, CountInv, [Next]_vars
             PROVE  CountInv'
  OBVIOUS
<1>1. CASE UNCHANGED vars \/ \E a \in Auths : Land(a) \/ Cancel(a)
  <2>1. UNCHANGED <<counters, test, rec, open, released, req, faults, crashes>>
    BY <1>1 DEF vars, Land, Cancel, ledger, booking, pays, meters
  <2>2. \A q \in Reqs : CountAt(q)
    BY <2>1 DEF CountAt, InKept, InHost, InCounted, At
  <2> QED BY <2>1, <2>2, CountStill DEF Calm
<1>2. CASE \E r \in Reqs : \E a \in Auths, rq \in Rqs : Open(r, a, rq)
  <2>1. PICK r \in Reqs, a \in Auths, rq \in Rqs : Open(r, a, rq)
    BY <1>2
  <2>2. UNCHANGED <<counters, test, rec, open, released, faults, crashes>>
        /\ req[r].pc = "new"
    BY <2>1 DEF Open, At, ledger, booking, pays, meters
  <2>3. req'[r].pc = "claim" /\ \A q \in Reqs \ {r} : req'[q] = req[q]
    BY <2>1, OpenType
  <2>4. \A q \in Reqs : CountAt(q)
    BY <2>2, <2>3 DEF CountAt, InKept, InHost, InCounted, At, Reserving
  <2> QED BY <2>2, <2>4, CountStill DEF Calm
<1>3. CASE \E r \in Reqs : PaidFlow(r) \/ Crash(r)
  BY <1>3, PaidFlowCount
<1>4. CASE \E r \in Reqs : TestLands(r)
  <2>1. PICK r \in Reqs : TestLands(r)
    BY <1>4
  <2>2. /\ test[r] = "signed" /\ now < expires[r]
        /\ test' = [test EXCEPT ![r] = "landed"]
        /\ UNCHANGED <<counters, rec, open, released, req, faults, crashes>>
    BY <2>1 DEF TestLands, LandTest, booking, meters
  <2>3. test'[r] = "landed" /\ \A q \in Reqs \ {r} : test'[q] = test[q]
    BY <2>2 DEF TypeInv, LedgerType
  <2>4. Calm => r \in open
    BY <2>2 DEF LedgerInv, TestOk, CanLand
  <2>5. \A q \in Reqs \ {r} : CountAt(q)
    BY <2>2, <2>3 DEF CountAt, InKept, InHost, InCounted, At
  <2>6. /\ InKept(r)' <=> InKept(r)
        /\ InHost(r)' <=> InHost(r)
        /\ Calm' => (InCounted(r)' <=> InCounted(r))
    BY <2>2, <2>3, <2>4 DEF InKept, InHost, InCounted, At, Calm
  <2>7. /\ spent' = spent /\ hosts' = hosts /\ spent \in Int /\ hosts \in Int
        /\ spent <= Cap /\ hosts <= HostCap
    BY <2>2 DEF counters, TypeInv, LedgerType, CountInv
  <2>8. Calm' => Calm
    BY <2>2 DEF Calm
  <2> QED BY <2>5, <2>6, <2>7, <2>8, CountStep DEF One
<1>5. CASE \E d \in Acts : ActorFlow(d)
  BY <1>5, ActorFlowCount
<1>6. CASE Tick
  <2>1. UNCHANGED <<counters, test, rec, open, released, faults, crashes>>
    BY <1>6 DEF Tick, ledger, booking, pays
  <2>2. \A q \in Reqs : req'[q].pc = req[q].pc
    BY <1>6, TickType
  <2>3. \A q \in Reqs : CountAt(q)
    BY <2>1, <2>2 DEF CountAt, InKept, InHost, InCounted, At
  <2> QED BY <2>1, <2>3, CountStill DEF Calm
<1> QED BY <1>1, <1>2, <1>3, <1>4, <1>5, <1>6 DEF Next, ActorFlow

\* What records a loss: a request that fails or a payment closed as not charged.
LEMMA RecordOwed ==
  ASSUME TypeInv, OwedInv, NEW r \in Reqs, NEW b \in BOOLEAN, Lose(r, b),
         released' = released
  PROVE  OwedInv'
<1>1. PICK n \in 0..2 : RecordLoss(r, b, n)
  BY LoseType
<1>2. ASSUME NEW q \in Reqs PROVE OwedOk(q)'
  BY <1>1 DEF OwedInv, OwedOk, RecordLoss, TypeInv, LedgerType
<1> QED BY <1>2 DEF OwedInv

LEMMA OwedNext == TypeInv /\ OwedInv /\ [Next]_vars => OwedInv'
<1> SUFFICES ASSUME TypeInv, OwedInv, [Next]_vars PROVE OwedInv'
  OBVIOUS
<1>1. ASSUME UNCHANGED losses, released \subseteq released' PROVE OwedInv'
  BY <1>1 DEF OwedInv, OwedOk, losses
<1>2. ASSUME NEW r \in Reqs, PaidFlow(r) PROVE OwedInv'
  <2>1. CASE FailChecks(r) \/ LoseTest(r)
    BY <2>1, RecordOwed DEF FailChecks, LoseTest, booking
  <2>2. CASE Unsign(r)
    BY <1>1, <2>2 DEF Unsign, ReleaseUnsigned, Once, booking
  <2>3. CASE BookTest(r)
    BY <1>1, <2>3 DEF BookTest, Book
  <2>4. CASE ~(FailChecks(r) \/ LoseTest(r) \/ Unsign(r) \/ BookTest(r))
    <3>1. UNCHANGED <<losses, booking>>
      BY <1>2, <2>4
         DEF PaidFlow, TryClaim, CheckNonce, Verify, Refuse, Release, TakeDeclineSlot,
             Block, Reserve, Sign, RefuseSign, Confirm, SignerFails, Decline,
             CacheVerdict, LogReceipt, Undo, Settle, SettleFails, Unconfirm, Pend,
             SettleOk, RefundSlot, Mark, ledger
    <3> QED BY <1>1, <3>1 DEF booking
  <2> QED BY <2>1, <2>2, <2>3, <2>4
<1>3. ASSUME NEW d \in Acts, ActorFlow(d) PROVE OwedInv'
  <2>1. CASE LoseClosed(d)
    <3>1. released' = released
      BY <2>1 DEF LoseClosed, booking
    <3>2. CASE act[d].by = None
      BY <1>1, <2>1, <3>1, <3>2 DEF LoseClosed
    <3>3. CASE act[d].by \in Reqs /\ Lose(act[d].by, TRUE)
      BY <3>1, <3>3, RecordOwed
    <3> QED BY <2>1, <3>2, <3>3, LoseClosedType, SellerDdAssumption DEF LoseClosed
  <2>2. CASE Adjust(d)
    <3>1. PICK r \in Reqs : r = act[d].by
      BY <2>2, AdjustIs
    <3>2. CASE UNCHANGED <<released, losses>>
      BY <1>1, <3>2
    <3>3. CASE /\ r \notin released /\ released' = released \cup {r}
               /\ \E n \in 0..2 : ReleaseLoss(r, n)
      <4>1. PICK n \in 0..2 : ReleaseLoss(r, n)
        BY <3>3
      <4>2. ASSUME NEW q \in Reqs PROVE OwedOk(q)'
        BY <3>3, <4>1 DEF OwedInv, OwedOk, ReleaseLoss, losses, TypeInv, LedgerType
      <4> QED BY <4>2 DEF OwedInv
    <3> QED BY <2>2, <3>1, <3>2, <3>3, AdjustIs
  <2>3. CASE ~(LoseClosed(d) \/ Adjust(d))
    <3>1. UNCHANGED <<losses, released>>
      BY <1>3, <2>3
         DEF ActorFlow, Cron, Redeem, Probe, Judge, Close, Drop, Give, Hand, Reconcile,
             CrashAct, Die, ledger, booking
    <3> QED BY <1>1, <3>1
  <2> QED BY <2>1, <2>2, <2>3
<1>4. CASE \/ UNCHANGED vars \/ Tick \/ \E a \in Auths : Land(a) \/ Cancel(a)
           \/ \E r \in Reqs : \/ \E a \in Auths, rq \in Rqs : Open(r, a, rq)
                              \/ Crash(r) \/ TestLands(r)
  <2>1. UNCHANGED <<losses, booking>>
    BY <1>4 DEF vars, Tick, Land, Cancel, Open, Crash, Die, TestLands, ledger
  <2> QED BY <1>1, <2>1 DEF booking
<1> QED BY <1>2, <1>3, <1>4 DEF Next, ActorFlow

LEMMA CountInit == Init => CountInv /\ OwedInv
<1> SUFFICES ASSUME Init PROVE CountInv /\ OwedInv
  OBVIOUS
<1>1. /\ \A r \in Reqs : req[r].pc = "new" /\ test[r] = "none" /\ loss[r] = 0
      /\ rec = {} /\ open = {} /\ lossRec = {} /\ spent = 0 /\ hosts = 0
  BY DEF Init, CapsInit, Fresh
<1>2. Kept = {} /\ HostKept = {} /\ Counted = {}
  BY <1>1 DEF Kept, HostKept, Counted, InKept, InHost, InCounted, At, Reserving
<1> QED BY <1>1, <1>2, FS_EmptySet, CapsAssumption DEF CountInv, OwedInv, OwedOk

MoneyInv == TypeInv /\ LedgerInv /\ CountInv /\ OwedInv
LEMMA MoneyHolds == Spec => []MoneyInv
<1>1. Init => MoneyInv
  BY InitTypes, LedgerInit, CountInit DEF MoneyInv
<1>2. MoneyInv /\ [Next]_vars => MoneyInv'
  BY NextTypes, LedgerNext, CountNext, OwedNext DEF MoneyInv
<1> QED BY <1>1, <1>2, PTL DEF Spec

\* Every variable keeps its type; no counter is given back more than was taken
\* and no loss more than was recorded, whatever fails or dies.
THEOREM SddTypes == Spec => []TypeOK
<1>1. MoneyInv => TypeOK
  <2> SUFFICES ASSUME MoneyInv PROVE TypeOK
    OBVIOUS
  <2>1. spent \in Nat /\ hosts \in Nat
    BY FS_CardinalityType DEF MoneyInv, CountInv, TypeInv, LedgerType
  <2>2. loss \in [Reqs -> Nat]
    BY DEF MoneyInv, OwedInv, OwedOk, TypeInv, LedgerType
  <2> QED BY <2>1, <2>2
          DEF MoneyInv, TypeOK, TypeInv, LedgerType, StoreType, SeenType, ActorsType,
              MetersType
<1> QED BY <1>1, MoneyHolds, PTL

\* caps.ts: what can still leave our wallet, or has left it, is inside the spend
\* caps and the host's, and the watch finds its reservation, through outages and
\* crashes; while nothing fails, the caps count exactly what landed and what the
\* cron has yet to look at.
THEOREM SpendIsTrue == Spec => []SpendTrue
<1>1. MoneyInv => SpendTrue
  <2> SUFFICES ASSUME MoneyInv PROVE SpendTrue
    OBVIOUS
  <2>1. {r \in Reqs : CanLand(r)} \subseteq Kept
    BY DEF MoneyInv, LedgerInv, TestOk, Kept, InKept, CanLand
  <2>2. {r \in Reqs : test[r] # "none"} \subseteq HostKept
    BY DEF HostKept, InHost
  <2>3. /\ IsFiniteSet(Kept) /\ spent >= Cardinality(Kept) /\ spent <= Cap
        /\ IsFiniteSet(HostKept) /\ hosts >= Cardinality(HostKept)
        /\ hosts <= HostCap
        /\ spent \in Int /\ hosts \in Int
    BY DEF MoneyInv, CountInv, TypeInv, LedgerType
  <2>4. /\ IsFiniteSet({r \in Reqs : CanLand(r)})
        /\ Cardinality({r \in Reqs : CanLand(r)}) <= Cardinality(Kept)
    BY <2>1, <2>3, FS_Subset
  <2>5. /\ IsFiniteSet({r \in Reqs : test[r] # "none"})
        /\ Cardinality({r \in Reqs : test[r] # "none"}) <= Cardinality(HostKept)
    BY <2>2, <2>3, FS_Subset
  <2>6. SpendCovered
    <3>1. /\ Cardinality({r \in Reqs : CanLand(r)}) \in Nat
          /\ Cardinality(Kept) \in Nat /\ Cardinality(HostKept) \in Nat
          /\ Cardinality({r \in Reqs : test[r] # "none"}) \in Nat
      BY <2>3, <2>4, <2>5, FS_CardinalityType
    <3> HIDE DEF CanLand
    <3> QED BY <2>3, <2>4, <2>5, <3>1 DEF SpendCovered
  <2>7. SpendReturned
    <3>1. Trouble \/ Calm
      BY DEF Trouble, Calm, MoneyInv, TypeInv, MetersType
    <3>2. Counted = {r \in Reqs : \/ test[r] = "landed"
                                  \/ r \in open \/ At(r, "book")}
      BY DEF Counted, InCounted
    <3> QED BY <3>1, <3>2 DEF SpendReturned, MoneyInv, CountInv
  <2>8. OutflowIsOurs
    BY DEF OutflowIsOurs, MoneyInv, LedgerInv, TestOk
  <2> QED BY <2>6, <2>7, <2>8 DEF SpendTrue
<1> QED BY <1>1, MoneyHolds, PTL

----------------------------------------------------------------------------
(* Claims, verdicts and answers. *)

\* A chain read is judged in the tick it was made.
ReadsInTime == SlowReads = FALSE

Sending == {"asked", "unconf", "pend", "refund", "mark"}
Holding == {"nonce", "check", "slot", "release", "decline", "cache", "log", "undo",
            "settle", "asked", "unconf", "refund", "mark"} \cup Engine
Held    == Holding \cup {"pend", "lose"}
Cached  == {"log", "undo", "lose", "settle", "end"} \cup Sending
Final   == {"unconfirmed", "redeemed", "declined"}
Closing == {"close", "lose", "drop"}

\* The claim is r's, and outlives its invocation.
Holds(r) == LET c == claim[Auth(r)] IN
  c.o = r /\ c.s = "inflight" /\ c.rq = req[r].rq /\ Young(r, c.exp)

\* What a request finds of its own, by where it is.
HoldOk(r) ==
  LET l == req[r].pc  a == req[r].auth IN
    /\ l = "new" => a = None
    /\ Busy(r) => a \in Auths /\ Young(r, ValidBefore[a])
    /\ l \in Holding => Holds(r)
    /\ l = "pend" => /\ claim[a].o = r
                     /\ claim[a].s \in Final \/ (Holds(r) /\ faults > 0)
    /\ l = "lose" => claim[a].o = r /\ (claim[a].s = "declined" \/ Holds(r))
    /\ l \in {"undo", "lose"} => faults > 0 /\ (a \in pend => faults > 1)
    /\ l \in {"log", "settle"} \cup Sending => verdict[a] = r
    /\ l \in {"settle"} \cup Sending => r \in logged
    /\ l \in Sending => r \in sent
    /\ r \in sent => /\ l \in Sending \cup {"end"} /\ r \in logged
                     /\ a \in Auths /\ test[r] = "landed"
    /\ l \in {"refund", "mark"} => chain[a] = "paid"
\* What the keys of an authorization say.
ClaimOk(a) ==
  LET c == claim[a]  o == c.o  v == verdict[a] IN
    /\ c.s = "none" => o = None
    /\ c.s # "none" => o \in Reqs /\ req[o].auth = a
    /\ c.s \in {"unconfirmed", "redeemed"} => o \in sent /\ v = o /\ c.rq = req[o].rq
    /\ v # None => /\ v \in Reqs /\ req[v].auth = a /\ test[v] = "landed"
                   /\ req[v].pc \in Cached
    /\ a \in pend => c.s \in Final \/ faults > 0
    /\ a \in closed => Over(a) /\ (ReadsInTime => chain[a] = "unused")
    /\ a \in told /\ ReadsInTime => Over(a) /\ chain[a] = "unused"
    /\ chain[a] = "paid" => \E r \in sent : Auth(r) = a
\* What a redeem or a cron pass has read.
ActOk(d) ==
  LET l == act[d].pc  a == act[d].auth  b == act[d].by IN
    /\ l = "idle" => a = None /\ b = None
    /\ l \notin {"idle", "adjust"} =>
         /\ a \in Auths /\ b = verdict[a]
         /\ ~act[d].cron => b \in sent /\ claim[a].o = b /\ claim[a].s \in Final
         /\ act[d].cron => Over(a)
    /\ l \in {"give", "hand"} => ~act[d].cron /\ chain[a] # "unused"
    /\ l = "judge" => /\ act[d].used => chain[a] # "unused"
                      /\ ReadsInTime /\ ~act[d].used /\ Over(a) => chain[a] = "unused"
    /\ l \in Closing => Over(a) /\ (ReadsInTime => chain[a] = "unused")
    /\ l = "lose" => a \in closed
ClaimInv == /\ \A r \in Reqs : HoldOk(r)
            /\ \A a \in Auths : ClaimOk(a)
            /\ \A d \in Acts : ActOk(d)

More == /\ logged \subseteq logged' /\ sent \subseteq sent'
        /\ \A q \in Reqs : test[q] = "landed" => test'[q] = "landed"

\* What is not touched stays as it should be.
LEMMA HoldKept ==
  ASSUME TypeInv, TypeInv', NEW q \in Reqs, HoldOk(q), req'[q] = req[q], Steady, More,
         q \in sent' => q \in sent,
         chain[Auth(q)] = "paid" => chain'[Auth(q)] = "paid",
         req[q].pc \in Held => /\ claim'[Auth(q)] = claim[Auth(q)]
                               /\ verdict'[Auth(q)] = verdict[Auth(q)]
                               /\ Auth(q) \in pend' => Auth(q) \in pend
  PROVE  HoldOk(q)'
<1>0. PICK l, a : l = req[q].pc /\ a = req[q].auth
  OBVIOUS
<1>1. /\ faults \in Nat /\ faults' \in Nat /\ faults' >= faults /\ now' = now
      /\ Auth(q) = a /\ Auth(q)' = a /\ l = req[q].pc /\ a = req[q].auth
  BY <1>0 DEF TypeInv, MetersType, Steady, Auth
<1>2. l \in Held => (Holds(q) => Holds(q)')
  BY <1>1 DEF Holds, Young
<1>3. Busy(q)' <=> Busy(q)
  BY DEF Busy
<1>4. /\ l = "new" => a = None
      /\ Busy(q) => a \in Auths /\ Young(q, ValidBefore[a])'
      /\ l \in Holding => Holds(q)'
      /\ l = "pend" => /\ claim'[a].o = q
                       /\ claim'[a].s \in Final \/ (Holds(q)' /\ faults' > 0)
      /\ l = "lose" => claim'[a].o = q /\ (claim'[a].s = "declined" \/ Holds(q)')
    BY <1>1, <1>2 DEF HoldOk, Held, Young
<1>5. /\ l \in {"undo", "lose"} => faults' > 0 /\ (a \in pend' => faults' > 1)
      /\ l \in {"log", "settle"} \cup Sending => verdict'[a] = q
      /\ l \in {"settle"} \cup Sending => q \in logged'
      /\ l \in Sending => q \in sent'
      /\ q \in sent' => /\ l \in Sending \cup {"end"} /\ q \in logged'
                        /\ a \in Auths /\ test'[q] = "landed"
      /\ l \in {"refund", "mark"} => chain'[a] = "paid"
  BY <1>1 DEF HoldOk, Held, Holding, Sending, More
<1>6. req'[q].pc = l /\ req'[q].auth = a
  BY <1>1
<1> QED BY <1>1, <1>3, <1>4, <1>5, <1>6 DEF HoldOk

LEMMA ClaimKept ==
  ASSUME TypeInv, TypeInv', NEW a \in Auths, ClaimOk(a), Steady, More,
         claim'[a] = claim[a], verdict'[a] = verdict[a], a \in pend' => a \in pend,
         a \in closed' => a \in closed, a \in told' => a \in told,
         chain'[a] = chain[a],
         \A q \in Reqs : req[q].auth \in Auths =>
           /\ req'[q].auth = req[q].auth /\ req'[q].rq = req[q].rq
           /\ req[q].pc \in Cached => req'[q].pc \in Cached
  PROVE  ClaimOk(a)'
<1>1. /\ faults \in Nat /\ faults' \in Nat /\ faults' >= faults /\ Over(a)' = Over(a)
      /\ sent \subseteq Reqs
  BY DEF TypeInv, MetersType, Steady, Over, SeenType
<1>2. chain[a] = "paid" => \E r \in sent' : Auth(r)' = a
  BY <1>1 DEF ClaimOk, Auth, More
<1> QED BY <1>1, <1>2 DEF ClaimOk, More

LEMMA ActKept ==
  ASSUME TypeInv, TypeInv', NEW e \in Acts, ActOk(e), act'[e] = act[e], Steady, More,
         closed \subseteq closed', NEW a, a = act[e].auth,
         act[e].pc \notin {"idle", "adjust"} =>
           /\ verdict'[a] = verdict[a]
           /\ chain'[a] = chain[a]
           /\ claim[a].s \in Final => claim'[a].s \in Final /\ claim'[a].o = claim[a].o
  PROVE  ActOk(e)'
<1>1. Over(a)' <=> Over(a)
  BY DEF Steady, Over
<1> QED BY <1>1 DEF ActOk, More, Closing

\* Who holds a claim is its owner, so nobody else does.
LEMMA HeldIs ==
  ASSUME TypeInv, NEW q \in Reqs, HoldOk(q), req[q].pc \in Held
  PROVE  Auth(q) \in Auths /\ claim[Auth(q)].o = q /\ Live(Auth(q)) /\ Busy(q)
<1>1. Busy(q)
  BY DEF Busy, Held, Holding, Engine
<1>2. Holds(q) => claim[Auth(q)].o = q /\ Live(Auth(q))
  BY DEF Holds, Live, Young
<1>3. claim[Auth(q)].s \in Final => Live(Auth(q))
  BY DEF Final, Live
<1> QED BY <1>1, <1>2, <1>3 DEF HoldOk, Held, Auth, Final

LEMMA RequestStep ==
  ASSUME TypeInv, TypeInv', ClaimInv, Steady, More,
         NEW r \in Reqs, NEW l, Goes(r, l), NEW a \in Auths, a = Auth(r),
         \A b \in Auths \ {a} : /\ claim'[b] = claim[b] /\ verdict'[b] = verdict[b]
                                /\ b \in pend' => b \in pend,
         closed' = closed, told' = told, chain' = chain, sent' \subseteq sent \cup {r},
         req[r].pc \in Cached => l \in Cached,
         \/ req[r].pc \in Held \/ ~Live(a)
         \/ claim' = claim /\ verdict' = verdict /\ pend' = pend,
         claim[a].s \in Final => claim'[a] = claim[a],
         verdict'[a] = verdict[a] \/ req[r].pc = "cache",
         HoldOk(r)', ClaimOk(a)'
  PROVE  ClaimInv'
<1>0. req'[r].pc = l /\ \A q \in Reqs \ {r} : req'[q] = req[q]
  BY GoesIs DEF Goes
<1>1. \A q \in Reqs : req'[q].auth = req[q].auth /\ req'[q].rq = req[q].rq
                      /\ (req[q].pc \in Cached => req'[q].pc \in Cached)
  BY <1>0, GoesIs
<1>2. ASSUME NEW q \in Reqs PROVE HoldOk(q)'
  <2>1. CASE q # r
    <3>1. HoldOk(q) /\ req'[q] = req[q] /\ (q \in sent' => q \in sent)
      BY <2>1 DEF ClaimInv, Goes
    <3>2. req[q].pc \in Held => /\ claim'[Auth(q)] = claim[Auth(q)]
                                /\ verdict'[Auth(q)] = verdict[Auth(q)]
                                /\ Auth(q) \in pend' => Auth(q) \in pend
      <4>1. CASE req[q].pc \in Held /\ Auth(q) = a
        <5>1. claim[a].o = q /\ Live(a)
          BY <3>1, <4>1, HeldIs
        <5>2. req[r].pc \notin Held
          BY <2>1, <5>1, HeldIs DEF ClaimInv
        <5> QED BY <5>1, <5>2
      <4>2. CASE req[q].pc \in Held /\ Auth(q) # a
        BY <3>1, <4>2, HeldIs
      <4> QED BY <4>1, <4>2
    <3> QED BY <3>1, <3>2, HoldKept
  <2> QED BY <2>1
<1>3. ASSUME NEW b \in Auths PROVE ClaimOk(b)'
  <2>1. CASE b # a
    BY <1>1, <2>1, ClaimKept DEF ClaimInv
  <2> QED BY <2>1
<1>4. ASSUME NEW e \in Acts PROVE ActOk(e)'
  <2>1. PICK b : b = act[e].auth
    OBVIOUS
  <2>2. ActOk(e) /\ act'[e] = act[e]
    BY DEF ClaimInv, Goes
  <2>3. act[e].pc \notin {"idle", "adjust"} =>
          /\ verdict'[b] = verdict[b]
          /\ claim[b].s \in Final => claim'[b] = claim[b]
    <3>1. CASE act[e].pc \notin {"idle", "adjust"} /\ b # a
      BY <2>1, <2>2, <3>1 DEF ActOk
    <3>2. CASE act[e].pc \notin {"idle", "adjust"} /\ b = a
      <4>1. req[r].pc # "cache"
        <5>1. SUFFICES ASSUME req[r].pc = "cache" PROVE FALSE
          OBVIOUS
        <5>2. HoldOk(r) /\ Busy(r) /\ req[r].pc \in Holding
          BY <5>1 DEF ClaimInv, Busy, Holding
        <5>3. claim[a].s = "inflight" /\ Young(r, ValidBefore[a])
          BY <5>2 DEF HoldOk, Holds, Auth
        <5>4. claim[a].s \in Final \/ Over(a)
          BY <2>1, <2>2, <3>2 DEF ActOk
        <5>5. Over(a)
          BY <5>3, <5>4 DEF Final
        <5> QED BY <5>3, <5>5, SellerDdAssumption
                DEF Over, Young, TypeInv, MetersType
      <4> QED BY <3>2, <4>1
    <3> QED BY <3>1, <3>2
  <2> QED BY <2>1, <2>2, <2>3, ActKept
<1> QED BY <1>2, <1>3, <1>4 DEF ClaimInv

\* A step of a request that touches no key of an authorization.
LEMMA PlainStep ==
  ASSUME TypeInv, TypeInv', ClaimInv, Steady, More,
         NEW r \in Reqs, req[r].pc # "new", NEW l, Goes(r, l),
         UNCHANGED <<claim, verdict, logged, pend, closed, chain, sent, told>>,
         req[r].pc \in Cached => l \in Cached,
         HoldOk(r)'
  PROVE  ClaimInv'
<1>1. PICK a \in Auths : a = Auth(r)
  BY DEF TypeInv, KnownType
<1>2. \A q \in Reqs : req'[q].auth = req[q].auth /\ req'[q].rq = req[q].rq
                      /\ (req[q].pc \in Cached => req'[q].pc \in Cached)
  BY GoesIs DEF Goes
<1>3. ClaimOk(a)'
  BY <1>2, ClaimKept DEF ClaimInv
<1> QED BY <1>1, <1>3, RequestStep

\* Steps of a request that touch no key of an authorization and no loss.
PlainFlow(r) ==
  \/ CheckNonce(r) \/ Verify(r) \/ Refuse(r) \/ TakeDeclineSlot(r) \/ Block(r)
  \/ Reserve(r) \/ BookTest(r) \/ Sign(r) \/ RefuseSign(r) \/ Unsign(r) \/ Confirm(r)
  \/ SettleFails(r) \/ SettleOk(r) \/ RefundSlot(r) \/ Crash(r)
Before == {"nonce", "check", "slot", "engine", "book", "sign", "unsign"}
Onward == {"check", "slot", "release", "engine", "decline", "book", "sign", "unsign",
           "watch"}
PlainMove(r, l) ==
  \/ req[r].pc \in Before /\ l \in Onward
  \/ req[r].pc = "watch" /\ l = "cache"
  \/ req[r].pc = "asked" /\ l = "unconf"
  \/ req[r].pc = "asked" /\ l = "refund" /\ chain[Auth(r)] = "paid"
  \/ req[r].pc = "refund" /\ l = "mark"
  \/ l = "end" /\ Busy(r) /\ crashes' > crashes

LEMMA PlainMoves ==
  ASSUME TypeInv, LedgerInv, NEW r \in Reqs, PlainFlow(r)
  PROVE  /\ UNCHANGED <<claim, verdict, logged, pend, closed, chain, sent, unsigned,
                        delivered, told, losses>>
         /\ \A q \in Reqs : test[q] # "none" => test'[q] = test[q]
         /\ \E l : Goes(r, l) /\ PlainMove(r, l)
<1>1. CASE CheckNonce(r) \/ Verify(r) \/ Refuse(r) \/ Block(r) \/ RefuseSign(r)
           \/ Confirm(r) \/ SettleOk(r)
  <2>1. UNCHANGED <<ledger, store, seen>>
    BY <1>1, PlainType
  <2>2. \E l : Goes(r, l) /\ PlainMove(r, l)
    BY <1>1, PlainType
       DEF CheckNonce, Verify, Refuse, Block, RefuseSign, Confirm, SettleOk, At,
           PlainMove, Before, Onward
  <2> QED BY <2>1, <2>2 DEF ledger, pays, store, seen
<1>2. CASE TakeDeclineSlot(r)
  BY <1>2, SlotType DEF TakeDeclineSlot, At, PlainMove, Before, Onward, ledger, pays, seen
<1>3. CASE Reserve(r)
  BY <1>3, ReserveType DEF Reserve, At, PlainMove, Before, Onward, store, seen
<1>4. CASE BookTest(r)
  BY <1>4, BookTestType DEF BookTest, At, PlainMove, Before, Onward, pays, store, seen
<1>5. CASE Sign(r)
  <2>1. test' = [test EXCEPT ![r] = "signed"] /\ UNCHANGED <<store, seen, losses>>
    BY <1>5 DEF Sign, SignTest
  <2>2. Goes(r, "watch") /\ req[r].pc = "sign"
    BY <1>5, SignType DEF Sign, At
  <2>3. test[r] = "none"
    BY <2>2 DEF LedgerInv, TestOk
  <2> QED BY <2>1, <2>2, <2>3
          DEF PlainMove, Before, Onward, store, seen, TypeInv, LedgerType
<1>6. CASE Unsign(r)
  BY <1>6, UnsignType DEF Unsign, At, PlainMove, Before, Onward, pays, store, seen
<1>7. CASE SettleFails(r)
  BY <1>7, SettleFailsType DEF SettleFails, At, PlainMove, ledger, pays, seen
<1>8. CASE RefundSlot(r)
  BY <1>8, RefundType DEF RefundSlot, At, PlainMove, ledger, pays, seen
<1>9. CASE Crash(r)
  <2>1. crashes' > crashes
    BY <1>9 DEF Crash, Die, TypeInv, MetersType
  <2> QED BY <1>9, <2>1, CrashType DEF Crash, Die, PlainMove, ledger, pays, store, seen
<1> QED BY <1>1, <1>2, <1>3, <1>4, <1>5, <1>6, <1>7, <1>8, <1>9 DEF PlainFlow

LEMMA PlainClaim ==
  ASSUME TypeInv, TypeInv', ClaimInv, LedgerInv, NEW r \in Reqs,
         PlainFlow(r) \/ SignerFails(r) \/ FailChecks(r)
  PROVE  ClaimInv'
<1>1. Steady
  BY PaidFlowSteady DEF PaidFlow, PlainFlow
<1>2. UNCHANGED <<claim, verdict, logged, pend, closed, chain, sent, told>>
      /\ More
      /\ \E l : Goes(r, l) /\ \/ PlainMove(r, l)
                              \/ req[r].pc = "watch" /\ l = "decline"
  <2>1. CASE PlainFlow(r)
    BY <2>1, PlainMoves DEF More
  <2>2. CASE SignerFails(r)
    BY <2>2, SignerFailsType DEF SignerFails, At, More, ledger, pays, store
  <2>3. CASE FailChecks(r)
    BY <2>3, FailChecksType DEF FailChecks, At, More, pays, store, seen
  <2> QED BY <2>1, <2>2, <2>3
<1>3. PICK l : Goes(r, l) /\ (PlainMove(r, l) \/ (req[r].pc = "watch" /\ l = "decline"))
  BY <1>2
<1>4. /\ req[r].pc # "new" /\ (req[r].pc \in Cached => l \in Cached)
      /\ l # "new"
      /\ l = "end" \/ (l \in Holding /\ req[r].pc \in Holding)
      /\ l \notin {"pend", "lose", "undo", "log", "settle"}
      /\ l \in Sending => req[r].pc \in Sending
      /\ l \in {"refund", "mark"} => chain[Auth(r)] = "paid"
  <2>0. HoldOk(r)
    BY DEF ClaimInv
  <2>1. CASE req[r].pc \in Before /\ l \in Onward
    BY <2>1 DEF Before, Onward, Holding, Engine, Sending, Cached
  <2>2. CASE \/ req[r].pc = "watch" /\ l \in {"cache", "decline"}
             \/ req[r].pc = "asked" /\ l = "unconf"
             \/ req[r].pc = "asked" /\ l = "refund" /\ chain[Auth(r)] = "paid"
    BY <2>2 DEF Holding, Engine, Sending, Cached
  <2>3. CASE req[r].pc = "refund" /\ l = "mark"
    BY <2>0, <2>3 DEF HoldOk, Auth, Holding, Engine, Sending, Cached
  <2>4. CASE l = "end" /\ Busy(r)
    BY <2>4 DEF Busy, Sending, Cached
  <2> QED BY <1>3, <2>1, <2>2, <2>3, <2>4 DEF PlainMove
<1>5. HoldOk(r)'
  <2>1. /\ req'[r].pc = l /\ req'[r].auth = req[r].auth /\ req'[r].rq = req[r].rq
        /\ req'[r].aged = req[r].aged
    BY <1>3, GoesIs
  <2>2. HoldOk(r) /\ now' = now /\ faults' >= faults
    BY <1>1 DEF ClaimInv, Steady
  <2>3. Holds(r) => Holds(r)'
    BY <1>2, <2>1, <2>2 DEF Holds, Auth, Young
  <2>4. l \in Holding => Busy(r) /\ Holds(r)'
    BY <1>4, <2>2, <2>3 DEF HoldOk, Busy, Holding, Engine
  <2>5. Busy(r)' => Busy(r)
    BY <1>4, <2>1, <2>4 DEF Busy
  <2>6. Young(r, ValidBefore[Auth(r)]) => Young(r, ValidBefore[Auth(r)])'
    BY <2>1, <2>2 DEF Young, Auth
  <2>7. r \in sent => l \in Sending \cup {"end"}
    <3>1. r \in sent => req[r].pc \in Sending \cup {"end"} /\ req[r].pc \in Cached
      BY <2>2 DEF HoldOk, Sending, Cached
    <3> QED BY <1>4, <3>1 DEF Cached, Sending
  <2> QED BY <1>2, <1>4, <2>1, <2>2, <2>4, <2>5, <2>6, <2>7 DEF HoldOk, More, Auth
<1> QED BY <1>1, <1>2, <1>3, <1>4, <1>5, PlainStep

LEMMA AsIs ==
  ASSUME TypeInv, NEW a \in Auths, NEW s
  PROVE  /\ As(a, s)[a].s = s /\ As(a, s)[a].o = claim[a].o
         /\ As(a, s)[a].rq = claim[a].rq
         /\ \A b \in Auths \ {a} : As(a, s)[b] = claim[b]
<1>1. claim \in [Auths -> Claims]
  BY DEF TypeInv, StoreType
<1> DEFINE c == [claim EXCEPT ![a].s = s]
<1>2. /\ c = [claim EXCEPT ![a] = [claim[a] EXCEPT !.s = s]]
      /\ As(a, s) = [c EXCEPT ![a] = [c[a] EXCEPT !.exp = 0]]
  BY <1>1 DEF As
<1>3. /\ c[a] = [claim[a] EXCEPT !.s = s] /\ DOMAIN c = Auths
      /\ \A b \in Auths \ {a} : c[b] = claim[b]
  BY <1>1, <1>2
<1>4. c[a].s = s /\ c[a].o = claim[a].o /\ c[a].rq = claim[a].rq
  BY <1>1, <1>3 DEF Claims
<1>5. DOMAIN c[a] = {"s", "o", "rq", "exp"}
  BY <1>1, <1>3 DEF Claims
<1> HIDE DEF c
<1>6. /\ As(a, s)[a] = [c[a] EXCEPT !.exp = 0]
      /\ \A b \in Auths \ {a} : As(a, s)[b] = c[b]
  BY <1>2, <1>3
<1> QED BY <1>3, <1>4, <1>5, <1>6

\* Its owner moves a claim that is still held, or the store refuses.
LEMMA MoveIs ==
  ASSUME TypeInv, NEW r \in Reqs, NEW a \in Auths, a = Auth(r), Holds(r),
         NEW s, Move(r, s)
  PROVE  /\ \A b \in Auths \ {a} : claim'[b] = claim[b]
         /\ Fault \/ UNCHANGED faults
         /\ \/ claim'[a].s = s /\ claim'[a].o = r /\ claim'[a].rq = req[r].rq
            \/ claim' = claim /\ Fault
<1>1. Mine(r) /\ claim[a].o = r /\ claim[a].rq = req[r].rq
  BY DEF Holds, Mine, Young, Auth
<1>2. Fault \/ UNCHANGED faults
  BY DEF Move, Tried, Applied, Lost
<1>3. claim' = As(a, s) \/ (claim' = claim /\ Fault)
  BY <1>1 DEF Move, Tried, Applied, Lost
<1>4. CASE claim' = As(a, s)
  BY <1>1, <1>2, <1>4, AsIs
<1>5. CASE claim' = claim /\ Fault
  BY <1>5
<1> QED BY <1>3, <1>4, <1>5

\* A request that holds its claim.
LEMMA HolderIs ==
  ASSUME TypeInv, LedgerInv, ClaimInv, NEW r \in Reqs, req[r].pc \in Held
  PROVE  /\ Auth(r) \in Auths /\ HoldOk(r) /\ ClaimOk(Auth(r)) /\ Busy(r)
         /\ Young(r, ValidBefore[Auth(r)]) /\ claim[Auth(r)].o = r
         /\ req[r].pc \in Holding => Holds(r) /\ claim[Auth(r)].s = "inflight"
         /\ req[r].pc \in Passed => test[r] = "landed"
         /\ req[r].pc \notin Sending => r \notin sent
<1>1. HoldOk(r)
  BY DEF ClaimInv
<1>2. Busy(r) /\ Auth(r) \in Auths /\ claim[Auth(r)].o = r
  BY <1>1, HeldIs
<1>3. req[r].pc # "end"
  BY <1>2 DEF Busy
<1> QED BY <1>1, <1>2, <1>3 DEF ClaimInv, HoldOk, Auth, Holds, LedgerInv, TestOk

\* The claim taken, or not.
LEMMA TryClaimIs ==
  ASSUME TypeInv, NEW r \in Reqs, TryClaim(r)
  PROVE  /\ req[r].pc = "claim" /\ Auth(r) \in Auths
         /\ UNCHANGED <<ledger, verdict, logged, pend, closed, seen>>
         /\ \A b \in Auths \ {Auth(r)} : claim'[b] = claim[b]
         /\ \/ /\ Goes(r, "nonce") /\ ~Live(Auth(r)) /\ claim'[Auth(r)] = Inflight(r)
            \/ /\ Goes(r, "end")
               /\ \/ claim' = claim
                  \/ ~Live(Auth(r)) /\ claim'[Auth(r)] = Inflight(r) /\ Fault
<1>1. /\ req[r].pc = "claim" /\ Auth(r) \in Auths
      /\ UNCHANGED <<ledger, verdict, logged, pend, closed, seen>>
  BY DEF TryClaim, At, TypeInv, KnownType
<1>2. claim' = claim \/ claim' = [claim EXCEPT ![Auth(r)] = Inflight(r)]
  BY DEF TryClaim, Applied, Lost
<1>3. \/ /\ Goes(r, "nonce") /\ ~Live(Auth(r))
         /\ claim' = [claim EXCEPT ![Auth(r)] = Inflight(r)]
      \/ /\ Goes(r, "end")
         /\ \/ claim' = claim
            \/ /\ ~Live(Auth(r)) /\ Fault
               /\ claim' = [claim EXCEPT ![Auth(r)] = Inflight(r)]
  BY Going, Ending DEF TryClaim, Applied, Lost, Places, Early
<1> QED BY <1>1, <1>2, <1>3 DEF TypeInv, StoreType

LEMMA TryClaimClaim ==
  ASSUME TypeInv, TypeInv', ClaimInv, LedgerInv, NEW r \in Reqs, TryClaim(r)
  PROVE  ClaimInv'
<1>0. PICK a \in Auths : a = Auth(r)
  BY TryClaimIs
<1>1. /\ Steady /\ now' = now /\ faults' >= faults /\ HoldOk(r) /\ ClaimOk(a)
  BY PaidFlowSteady DEF PaidFlow, Steady, ClaimInv
<1>2. /\ UNCHANGED <<verdict, logged, pend, closed, chain, sent, told, test>>
      /\ More
  BY TryClaimIs DEF seen, ledger, pays, More
<1>3. req[r].pc = "claim" /\ a = req[r].auth /\ r \notin sent
      /\ Young(r, ValidBefore[a])
  <2>1. req[r].pc = "claim"
    BY TryClaimIs
  <2> QED BY <1>0, <1>1, <2>1 DEF HoldOk, Sending, Auth, Busy
<1>4. PICK l \in {"nonce", "end"} : Goes(r, l)
  BY TryClaimIs
<1>5. /\ req'[r].pc = l /\ req'[r].auth = a /\ req'[r].rq = req[r].rq
      /\ req'[r].aged = req[r].aged
  BY <1>3, <1>4, GoesIs
<1>6. Young(r, ValidBefore[a])'
  BY <1>0, <1>1, <1>3, <1>5 DEF Young
<1>7. claim' = claim \/ (~Live(a) /\ claim'[a] = Inflight(r))
  BY <1>0, TryClaimIs
<1>8. /\ Inflight(r).s = "inflight" /\ Inflight(r).o = r /\ Inflight(r).rq = req[r].rq
      /\ Inflight(r).exp = now + ClaimTTL
  BY DEF Inflight
<1>9. l = "nonce" => Holds(r)'
  <2>1. SUFFICES ASSUME l = "nonce" PROVE Holds(r)'
    OBVIOUS
  <2>2. claim'[a] = Inflight(r)
    BY <1>0, <1>5, <2>1, TryClaimIs, GoesIs
  <2>3. now + 1 < now + ClaimTTL
    BY SellerDdAssumption, TimeAssumption DEF TypeInv, MetersType
  <2> QED BY <1>1, <1>5, <1>8, <2>2, <2>3, SellerDdAssumption
          DEF Holds, Auth, Young, TypeInv, MetersType
<1>10. HoldOk(r)'
  BY <1>2, <1>3, <1>5, <1>6, <1>9, SellerDdAssumption
     DEF HoldOk, Sending, Busy, Holding, Engine
<1>11. claim[a].s \in Final => claim'[a] = claim[a]
  BY <1>7 DEF Live, Final
<1>12. ClaimOk(a)'
  <2>1. CASE claim' = claim
    <3>1. \A q \in Reqs : req'[q].auth = req[q].auth /\ req'[q].rq = req[q].rq
      BY <1>4, GoesIs
    <3>2. \A q \in Reqs : req[q].pc \in Cached => req'[q].pc \in Cached
      BY <1>3, <1>4 DEF Goes, Cached, Sending
    <3> QED BY <1>1, <1>2, <2>1, <3>1, <3>2, ClaimKept
  <2>2. CASE ~Live(a) /\ claim'[a] = Inflight(r)
    <3>1. claim[a].s \notin Final
      BY <2>2 DEF Live, Final
    <3>2. ClaimOk(a)
      BY <1>1
    <3>3. /\ verdict[a] # r
          /\ \A q \in Reqs : req'[q].auth = req[q].auth
          /\ \A q \in Reqs \ {r} : req'[q] = req[q]
      BY <1>1, <1>3, <1>4, GoesIs, SellerDdAssumption
         DEF ClaimOk, Cached, Sending, Goes
    <3>4. (Over(a)' <=> Over(a)) /\ (chain[a] = "paid" => \E q \in sent' : Auth(q)' = a)
      BY <1>1, <1>2, <3>3 DEF Over, ClaimOk, Auth, TypeInv, SeenType
    <3>5. a \in pend => faults' > 0
      BY <1>1, <3>1, <3>2 DEF ClaimOk, TypeInv, MetersType
    <3>6. claim'[a].s = "inflight" /\ claim'[a].o = r /\ req'[r].auth = a
      BY <1>5, <1>8, <2>2
    <3> QED BY <1>2, <3>2, <3>3, <3>4, <3>5, <3>6 DEF ClaimOk
  <2> QED BY <1>7, <2>1, <2>2
<1>13. \A b \in Auths \ {a} : claim'[b] = claim[b]
  BY <1>0, TryClaimIs
<1> QED BY <1>0, <1>1, <1>2, <1>3, <1>4, <1>7, <1>10, <1>11, <1>12, <1>13, RequestStep
        DEF Cached, Sending

LEMMA ClaimNew ==
  ASSUME TypeInv, TypeInv', NEW a \in Auths, ClaimOk(a), Steady, More,
         closed' = closed, told' = told, chain' = chain,
         \A q \in Reqs : /\ req'[q].auth = req[q].auth /\ req'[q].rq = req[q].rq
                         /\ req[q].pc \in Cached => req'[q].pc \in Cached,
         NEW c, c = claim'[a], c.s = "none" => c.o = None,
         c.s # "none" => c.o \in Reqs /\ req[c.o].auth = a,
         c.s \in {"unconfirmed", "redeemed"} =>
           c.o \in sent' /\ verdict'[a] = c.o /\ c.rq = req[c.o].rq,
         NEW v, v = verdict'[a],
         \/ v = verdict[a]
         \/ v \in Reqs /\ req[v].auth = a /\ test'[v] = "landed" /\ req'[v].pc \in Cached,
         a \in pend' => c.s \in Final \/ faults' > 0
  PROVE  ClaimOk(a)'
<1>1. (Over(a)' <=> Over(a)) /\ sent \subseteq Reqs
  BY DEF Steady, Over, TypeInv, SeenType
<1>2. chain'[a] = "paid" => \E q \in sent' : Auth(q)' = a
  BY <1>1 DEF ClaimOk, Auth, More
<1>3. c.s # "none" => c.o \in Reqs /\ req'[c.o].auth = a
  OBVIOUS
<1>4. c.s \in {"unconfirmed", "redeemed"} =>
        c.o \in sent' /\ verdict'[a] = c.o /\ c.rq = req'[c.o].rq
  OBVIOUS
<1>5. v # None => /\ v \in Reqs /\ req'[v].auth = a /\ test'[v] = "landed"
                  /\ req'[v].pc \in Cached
  BY DEF ClaimOk, More
<1> QED BY <1>1, <1>2, <1>3, <1>4, <1>5 DEF ClaimOk

\* A step of a request that holds its claim: r goes from p to l, the claim of its
\* authorization becomes c and its verdict v.
LEMMA HolderStep ==
  ASSUME TypeInv, TypeInv', ClaimInv, LedgerInv, Steady, More,
         NEW r \in Reqs, NEW p, p = req[r].pc, p \in Held,
         NEW l, Goes(r, l), p \in Cached => l \in Cached, l # "new",
         NEW a \in Auths, a = Auth(r),
         \A b \in Auths \ {a} : /\ claim'[b] = claim[b] /\ verdict'[b] = verdict[b]
                                /\ b \in pend' => b \in pend,
         closed' = closed, told' = told, chain' = chain, sent' \subseteq sent \cup {r},
         NEW c, c = claim'[a], c = claim[a] \/ p \in Holding,
         c.s = "none" => c.o = None,
         c.s # "none" => c.o = r,
         c.s \in {"unconfirmed", "redeemed"} =>
           r \in sent' /\ verdict'[a] = r /\ c.rq = req[r].rq,
         NEW v, v = verdict'[a],
         \/ v = verdict[a]
         \/ v = r /\ test'[r] = "landed" /\ l \in Cached /\ p = "cache",
         a \in pend' => c.s \in Final \/ faults' > 0,
         l \in Holding => p \in Holding /\ c = claim[a],
         l = "pend" => /\ c.o = r
                       /\ \/ c.s \in Final
                          \/ c = claim[a] /\ p \in Holding /\ faults' > 0,
         l = "lose" => c.o = r /\ \/ c.s = "declined"
                                  \/ c = claim[a] /\ p \in Holding,
         l \in {"undo", "lose"} => faults' > 0 /\ (a \in pend' => faults' > 1),
         l \in {"log", "settle"} \cup Sending => v = r,
         l \in {"settle"} \cup Sending => r \in logged',
         l \in Sending => r \in sent',
         r \in sent' => l \in Sending \cup {"end"} /\ p \in Passed /\ r \in logged',
         l \in {"refund", "mark"} => chain[a] = "paid"
  PROVE  ClaimInv'
<1>1. /\ HoldOk(r) /\ ClaimOk(a) /\ Busy(r) /\ Young(r, ValidBefore[a])
      /\ p \in Holding => Holds(r) /\ claim[a].s = "inflight"
      /\ p \in Passed => test[r] = "landed"
      /\ req[r].auth = a
  BY HolderIs DEF Auth
<1>2. /\ req'[r].pc = l /\ req'[r].auth = a /\ req'[r].rq = req[r].rq
      /\ req'[r].aged = req[r].aged
      /\ \A q \in Reqs \ {r} : req'[q] = req[q]
      /\ \A q \in Reqs : req'[q].auth = req[q].auth /\ req'[q].rq = req[q].rq
  BY <1>1, GoesIs DEF Goes
<1>3. \A q \in Reqs : req[q].pc \in Cached => req'[q].pc \in Cached
  BY <1>2
<1>4. Young(r, ValidBefore[a])' /\ (c = claim[a] /\ p \in Holding => Holds(r)')
  BY <1>1, <1>2 DEF Holds, Young, Steady, Auth
<1>5. HoldOk(r)'
  BY <1>1, <1>2, <1>4, SellerDdAssumption DEF HoldOk, More
<1>6. ClaimOk(a)'
  BY <1>1, <1>2, <1>3, ClaimNew
<1>7. claim[a].s \in Final => claim'[a] = claim[a]
  BY <1>1 DEF Final
<1> QED BY <1>1, <1>2, <1>5, <1>6, <1>7, RequestStep

LEMMA ReleaseClaim ==
  ASSUME TypeInv, TypeInv', ClaimInv, LedgerInv, NEW r \in Reqs, Release(r)
  PROVE  ClaimInv'
<1>1. Steady /\ Goes(r, "end") /\ req[r].pc = "release"
  BY PaidFlowSteady, ReleaseType DEF PaidFlow, Release, At
<1>2. /\ "release" \in Held /\ "release" \in Holding /\ "release" \notin Cached
      /\ "release" \notin Sending
  BY DEF Held, Holding, Cached, Sending
<1>3. PICK a \in Auths : a = Auth(r)
  BY <1>1, <1>2, HolderIs
<1>4. /\ claim[a].o = r /\ claim[a].s = "inflight" /\ r \notin sent
      /\ a \in pend => faults > 0
  BY <1>1, <1>2, <1>3, HolderIs DEF ClaimOk, Final
<1>5. /\ UNCHANGED <<verdict, logged, pend, closed, chain, sent, told, test>>
      /\ claim' = claim \/ claim' = [claim EXCEPT ![a] = NoClaim]
  BY <1>3 DEF Release, Tried, Applied, Lost, ledger, pays, seen
<1>6. /\ More /\ faults' >= faults /\ faults \in Nat /\ faults' \in Nat
  BY <1>1, <1>5 DEF More, Steady, TypeInv, MetersType
<1>7. /\ \A b \in Auths \ {a} : claim'[b] = claim[b]
      /\ claim'[a] = claim[a] \/ claim'[a] = NoClaim
  BY <1>5 DEF TypeInv, StoreType
<1>8. NoClaim.s = "none" /\ NoClaim.o = None
  BY DEF NoClaim
<1> QED BY <1>1, <1>2, <1>3, <1>4, <1>5, <1>6, <1>7, <1>8, HolderStep
        DEF Holding, Engine, Sending

\* Steps that swap the claim of the request.
LEMMA MoveClaim ==
  ASSUME TypeInv, TypeInv', ClaimInv, LedgerInv, NEW r \in Reqs,
         Decline(r) \/ Undo(r) \/ Unconfirm(r) \/ Mark(r)
  PROVE  ClaimInv'
<1>1. PICK p, s, l :
        /\ req[r].pc = p /\ Goes(r, l) /\ Move(r, s)
        /\ \/ p = "decline" /\ s = "declined" /\ l = "end"
           \/ p = "undo" /\ s = "declined" /\ l = "lose"
           \/ p = "unconf" /\ s = "unconfirmed" /\ l = "pend"
           \/ p = "mark" /\ s = "settled" /\ l = "end"
  BY MovesType DEF Decline, Undo, Unconfirm, Mark, At
<1>2. /\ Steady /\ UNCHANGED <<verdict, logged, pend, closed, chain, sent, told, test>>
  BY PaidFlowSteady DEF PaidFlow, Decline, Undo, Unconfirm, Mark, ledger, pays, seen
<1>3. /\ More /\ faults' >= faults /\ faults \in Nat /\ faults' \in Nat
  BY <1>2 DEF More, Steady, TypeInv, MetersType
<1>4. /\ p \in Held /\ p \in Holding /\ l # "new" /\ l \notin Holding
      /\ p \in Cached => l \in Cached
  BY <1>1 DEF Held, Holding, Cached, Sending, Engine
<1>5. PICK a \in Auths : a = Auth(r)
  BY <1>1, <1>4, HolderIs
<1>6. /\ HoldOk(r) /\ ClaimOk(a) /\ Holds(r) /\ claim[a].s = "inflight"
      /\ claim[a].o = r /\ claim[a].rq = req[r].rq /\ req[r].auth = a
  BY <1>1, <1>4, <1>5, HolderIs DEF Holds, Auth
<1>7. /\ \A b \in Auths \ {a} : claim'[b] = claim[b]
      /\ \/ claim'[a].s = s /\ claim'[a].o = r /\ claim'[a].rq = req[r].rq
         \/ claim'[a] = claim[a] /\ faults' > 0
  BY <1>1, <1>3, <1>5, <1>6, MoveIs DEF Fault
<1>8. /\ a \in pend => faults > 0
      /\ p = "undo" => faults > 0 /\ (a \in pend => faults > 1)
      /\ p = "unconf" => verdict[a] = r /\ r \in logged /\ r \in sent
      /\ r \in sent => p \in Sending /\ r \in logged
  BY <1>1, <1>6 DEF ClaimOk, HoldOk, Final, Sending
<1>9. /\ l \notin {"undo", "log", "settle", "refund", "mark"} /\ l # "pend" => l \notin Sending
      /\ p \in Sending => p \in Passed
      /\ p \in Sending => l \in Sending \cup {"end"}
      /\ p = "unconf" <=> l = "pend"
      /\ p = "undo" <=> l = "lose"
      /\ l \notin {"undo", "log", "settle", "refund", "mark"}
  BY <1>1 DEF Sending, Passed
<1>10. /\ claim'[a].s # "none" /\ claim'[a].o = r
       /\ claim'[a].s \in {"unconfirmed", "redeemed"} => p = "unconf" /\ claim'[a].rq = req[r].rq
       /\ a \in pend' => claim'[a].s \in Final \/ faults' > 0
       /\ l = "pend" => claim'[a].s \in Final \/ (claim'[a] = claim[a] /\ faults' > 0)
       /\ l = "lose" => claim'[a].s = "declined" \/ claim'[a] = claim[a]
  BY <1>1, <1>2, <1>3, <1>6, <1>7, <1>8 DEF Final
<1>11. /\ l \in {"undo", "lose"} => faults' > 0 /\ (a \in pend' => faults' > 1)
       /\ l \in {"log", "settle"} \cup Sending => verdict'[a] = r /\ r \in logged' /\ r \in sent'
       /\ r \in sent' => l \in Sending \cup {"end"} /\ p \in Passed /\ r \in logged'
  BY <1>2, <1>3, <1>8, <1>9
<1>12. sent' \subseteq sent \cup {r} /\ closed' = closed /\ told' = told /\ chain' = chain
       /\ verdict' = verdict /\ pend' = pend
  BY <1>2
<1>13. claim'[a].s \in {"unconfirmed", "redeemed"} =>
         r \in sent' /\ verdict'[a] = r /\ claim'[a].rq = req[r].rq
  BY <1>2, <1>8, <1>10
<1> QED BY <1>1, <1>2, <1>3, <1>4, <1>5, <1>7, <1>9, <1>10, <1>11, <1>12, <1>13, HolderStep

LEMMA CacheClaim ==
  ASSUME TypeInv, TypeInv', ClaimInv, LedgerInv, NEW r \in Reqs, CacheVerdict(r)
  PROVE  ClaimInv'
<1>1. PICK l : /\ Goes(r, l) /\ req[r].pc = "cache"
               /\ \/ l = "log" /\ verdict' = [verdict EXCEPT ![Auth(r)] = r]
                  \/ /\ l = "undo" /\ Fault
                     /\ verdict' \in {verdict, [verdict EXCEPT ![Auth(r)] = r]}
  BY CacheType DEF CacheVerdict, At
<1>2. Steady /\ UNCHANGED <<claim, logged, pend, closed, chain, sent, told, test>>
  BY PaidFlowSteady DEF PaidFlow, CacheVerdict, ledger, pays, seen
<1>3. /\ More /\ faults' >= faults /\ faults \in Nat /\ faults' \in Nat
      /\ l = "undo" => faults' = faults + 1
  BY <1>1, <1>2 DEF More, Steady, TypeInv, MetersType, Fault
<1>4. /\ "cache" \in Held /\ "cache" \in Holding /\ "cache" \notin Cached
      /\ "cache" \notin Sending /\ "cache" \in Passed /\ l \in Cached /\ l # "new"
      /\ l \notin Sending
  BY <1>1 DEF Held, Holding, Cached, Sending, Passed
<1>5. PICK a \in Auths : a = Auth(r)
  BY <1>1, <1>4, HolderIs
<1>6. /\ claim[a].o = r /\ claim[a].s = "inflight" /\ r \notin sent /\ test[r] = "landed"
      /\ a \in pend => faults > 0
  BY <1>1, <1>4, <1>5, HolderIs DEF ClaimOk, Final
<1>7. /\ \A b \in Auths \ {a} : verdict'[b] = verdict[b]
      /\ verdict'[a] = r \/ (l = "undo" /\ verdict'[a] = verdict[a])
  BY <1>1, <1>5 DEF TypeInv, StoreType
<1>8. l \in {"undo", "lose"} => faults' > 0 /\ (a \in pend' => faults' > 1)
  BY <1>1, <1>2, <1>3, <1>6
<1> QED BY <1>1, <1>2, <1>3, <1>4, <1>5, <1>6, <1>7, <1>8, HolderStep

LEMMA LogClaim ==
  ASSUME TypeInv, TypeInv', ClaimInv, LedgerInv, NEW r \in Reqs, LogReceipt(r)
  PROVE  ClaimInv'
<1>1. PICK l : /\ Goes(r, l) /\ req[r].pc = "log"
               /\ \/ l = "settle" /\ logged' = logged \cup {r}
                  \/ l = "undo" /\ Fault /\ logged' \in {logged, logged \cup {r}}
  BY LogType DEF LogReceipt, At
<1>2. Steady /\ UNCHANGED <<claim, verdict, pend, closed, chain, sent, told, test>>
  BY PaidFlowSteady DEF PaidFlow, LogReceipt, ledger, pays, seen
<1>3. /\ More /\ faults' >= faults /\ faults \in Nat /\ faults' \in Nat
      /\ l = "undo" => faults' = faults + 1
  BY <1>1, <1>2 DEF More, Steady, TypeInv, MetersType, Fault
<1>4. /\ "log" \in Held /\ "log" \in Holding /\ "log" \notin Sending
      /\ l \in Cached /\ l # "new" /\ l \notin Sending
  BY <1>1 DEF Held, Holding, Cached, Sending
<1>5. PICK a \in Auths : a = Auth(r)
  BY <1>1, <1>4, HolderIs
<1>6. /\ claim[a].o = r /\ claim[a].s = "inflight" /\ r \notin sent /\ verdict[a] = r
      /\ a \in pend => faults > 0
  BY <1>1, <1>4, <1>5, HolderIs DEF ClaimOk, HoldOk, Final, Auth
<1>8. l \in {"undo", "lose"} => faults' > 0 /\ (a \in pend' => faults' > 1)
  BY <1>1, <1>2, <1>3, <1>6
<1> QED BY <1>1, <1>2, <1>3, <1>4, <1>5, <1>6, <1>8, HolderStep

LEMMA LoseTestClaim ==
  ASSUME TypeInv, TypeInv', ClaimInv, LedgerInv, NEW r \in Reqs, LoseTest(r)
  PROVE  ClaimInv'
<1>1. Goes(r, "end") /\ req[r].pc = "lose"
  BY LoseTestType DEF LoseTest, At
<1>2. Steady /\ UNCHANGED <<claim, verdict, logged, pend, closed, chain, sent, told, test>>
  BY PaidFlowSteady DEF PaidFlow, LoseTest, pays, store, seen
<1>3. /\ "lose" \in Held /\ "lose" \notin Sending /\ "end" \in Cached
      /\ "end" \notin Holding /\ "end" \notin Sending
  BY DEF Held, Sending, Cached, Holding, Engine
<1>4. PICK a \in Auths : a = Auth(r)
  BY <1>1, <1>3, HolderIs
<1>5. /\ claim[a].o = r /\ claim[a].s \in {"declined", "inflight"} /\ r \notin sent
      /\ a \in pend => claim[a].s \in Final \/ faults > 0
  BY <1>1, <1>3, <1>4, HolderIs DEF ClaimOk, HoldOk, Holds, Auth
<1>6. More /\ (faults > 0 => faults' > 0)
  BY <1>2 DEF More, Steady, TypeInv, MetersType
<1> QED BY <1>1, <1>2, <1>3, <1>4, <1>5, <1>6, HolderStep

LEMMA SettleClaim ==
  ASSUME TypeInv, TypeInv', ClaimInv, LedgerInv, NEW r \in Reqs, Settle(r)
  PROVE  ClaimInv'
<1>1. Goes(r, "asked") /\ req[r].pc = "settle" /\ sent' = sent \cup {r}
  BY SettleType DEF Settle, At
<1>2. Steady /\ UNCHANGED <<claim, verdict, logged, pend, closed, chain, told, test, faults>>
  BY PaidFlowSteady DEF PaidFlow, Settle, ledger, pays, store, meters
<1>3. /\ "settle" \in Held /\ "settle" \in Holding /\ "settle" \in Passed
      /\ "asked" \in Cached /\ "asked" \in Sending /\ "asked" \in Holding
  BY DEF Held, Sending, Cached, Holding, Passed
<1>4. PICK a \in Auths : a = Auth(r)
  BY <1>1, <1>3, HolderIs
<1>5. /\ claim[a].o = r /\ claim[a].s = "inflight"
      /\ verdict[a] = r /\ r \in logged
      /\ a \in pend => faults > 0
  BY <1>1, <1>3, <1>4, HolderIs DEF ClaimOk, HoldOk, Final, Auth
<1>6. More
  BY <1>1, <1>2 DEF More
<1> QED BY <1>1, <1>2, <1>3, <1>4, <1>5, <1>6, HolderStep

LEMMA PendClaim ==
  ASSUME TypeInv, TypeInv', ClaimInv, LedgerInv, NEW r \in Reqs, Pend(r)
  PROVE  ClaimInv'
<1>1. Goes(r, "end") /\ req[r].pc = "pend"
  BY PendType DEF Pend, At
<1>2. Steady /\ UNCHANGED <<claim, verdict, logged, closed, chain, sent, told, test>>
  BY PaidFlowSteady DEF PaidFlow, Pend, ledger, pays, seen
<1>3. /\ "pend" \in Held /\ "pend" \in Sending /\ "end" \in Cached /\ "pend" \in Passed
      /\ "end" \notin Holding /\ "end" \notin Sending
  BY DEF Held, Sending, Cached, Holding, Engine, Passed
<1>4. PICK a \in Auths : a = Auth(r)
  BY <1>1, <1>3, HolderIs
<1>5. /\ claim[a].o = r
      /\ claim[a].s \in Final \/ (claim[a].s = "inflight" /\ faults > 0)
      /\ r \in sent /\ r \in logged /\ verdict[a] = r
  BY <1>1, <1>3, <1>4, HolderIs DEF HoldOk, Holds, Auth
<1>6. claim[a].s \in {"unconfirmed", "redeemed"} => claim[a].rq = req[r].rq
  BY <1>5, <1>1, <1>3, <1>4, HolderIs DEF ClaimOk
<1>7. More /\ (faults > 0 => faults' > 0) /\ \A b \in Auths \ {a} : b \in pend' => b \in pend
  BY <1>2, <1>4 DEF More, Steady, TypeInv, MetersType, Pend, Tried, Applied, Lost
<1>8. claim[a].s # "none" /\ (claim[a].s \in Final \/ faults' > 0)
  BY <1>5, <1>7 DEF Final
<1> QED BY <1>1, <1>2, <1>3, <1>4, <1>5, <1>6, <1>7, <1>8, HolderStep

LEMMA PaidFlowClaim ==
  ASSUME TypeInv, TypeInv', ClaimInv, LedgerInv, NEW r \in Reqs, PaidFlow(r) \/ Crash(r)
  PROVE  ClaimInv'
  BY PlainClaim, TryClaimClaim, ReleaseClaim, MoveClaim, CacheClaim, LogClaim,
     LoseTestClaim, SettleClaim, PendClaim
     DEF PaidFlow, PlainFlow

\* A step of a redeem or of a cron pass swaps an unconfirmed claim at most.
LEMMA ActorStep ==
  ASSUME TypeInv, TypeInv', ClaimInv, Steady,
         NEW d \in Acts, NEW n, Becomes(d, n),
         UNCHANGED <<verdict, logged, chain, sent, test>>,
         \A a \in Auths : \/ claim'[a] = claim[a]
                          \/ /\ claim[a].s = "unconfirmed"
                             /\ claim'[a].s \in {"redeemed", "declined"}
                             /\ claim'[a].o = claim[a].o /\ claim'[a].rq = claim[a].rq,
         pend' \subseteq pend, closed \subseteq closed',
         \A a \in Auths : a \in closed' \ closed =>
                            Over(a) /\ (ReadsInTime => chain[a] = "unused"),
         \A a \in Auths : a \in told' \ told /\ ReadsInTime =>
                            Over(a) /\ chain[a] = "unused",
         ActOk(d)'
  PROVE  ClaimInv'
<1>1. /\ req' = req /\ now' = now /\ faults' >= faults /\ faults \in Nat
      /\ faults' \in Nat /\ More
      /\ \A e \in Acts \ {d} : act'[e] = act[e]
  BY DEF Becomes, Steady, TypeInv, MetersType, More
<1>2. ASSUME NEW q \in Reqs PROVE HoldOk(q)'
  <2>1. HoldOk(q)
    BY DEF ClaimInv
  <2>2. CASE req[q].pc \in Held => claim'[Auth(q)] = claim[Auth(q)]
    BY <1>1, <2>1, <2>2, HoldKept
  <2>3. CASE req[q].pc \in Held /\ claim'[Auth(q)] # claim[Auth(q)]
    <3>1. PICK a \in Auths : a = Auth(q)
      BY <2>1, <2>3, HeldIs
    <3>2. /\ claim[a].s = "unconfirmed" /\ claim'[a].s \in Final
          /\ claim'[a].o = claim[a].o
      BY <2>3, <3>1 DEF Final
    <3>3. req[q].pc = "pend" /\ claim[a].o = q
      BY <2>1, <2>3, <3>1, <3>2, HeldIs DEF HoldOk, Held, Holds, Auth
    <3>4. /\ req'[q] = req[q] /\ req[q].auth = a
          /\ Young(q, ValidBefore[a])
          /\ verdict[a] = q /\ q \in logged /\ q \in sent /\ test[q] = "landed"
      BY <1>1, <2>1, <3>1, <3>3 DEF HoldOk, Auth, Busy, Sending
    <3>5. Young(q, ValidBefore[a])'
      BY <1>1, <3>4 DEF Young
    <3>6. "pend" \notin Holding /\ "pend" \in Sending
      BY DEF Holding, Engine, Sending
    <3> QED BY <3>1, <3>2, <3>3, <3>4, <3>5, <3>6 DEF HoldOk
  <2> QED BY <2>2, <2>3
<1>3. ASSUME NEW a \in Auths PROVE ClaimOk(a)'
  <2>1. ClaimOk(a) /\ (Over(a)' <=> Over(a)) /\ req' = req
        /\ (chain[a] = "paid" => \E q \in sent : Auth(q)' = a)
    BY <1>1 DEF ClaimInv, ClaimOk, Over, Auth
  <2>2. CASE claim'[a] = claim[a]
    BY <1>1, <2>1, <2>2 DEF ClaimOk
  <2>3. CASE /\ claim[a].s = "unconfirmed"
             /\ claim'[a].s \in {"redeemed", "declined"}
             /\ claim'[a].o = claim[a].o /\ claim'[a].rq = claim[a].rq
    BY <1>1, <2>1, <2>3 DEF ClaimOk, Final
  <2> QED BY <2>2, <2>3
<1>4. ASSUME NEW e \in Acts PROVE ActOk(e)'
  <2>1. CASE e # d
    <3>1. PICK b : b = act[e].auth
      OBVIOUS
    <3>2. ActOk(e) /\ act'[e] = act[e]
      BY <1>1, <2>1 DEF ClaimInv
    <3>3. act[e].pc \notin {"idle", "adjust"} =>
            (claim[b].s \in Final => claim'[b].s \in Final /\ claim'[b].o = claim[b].o)
      BY <3>1, <3>2 DEF ActOk, Final
    <3> QED BY <1>1, <3>1, <3>2, <3>3, ActKept
  <2> QED BY <2>1
<1> QED BY <1>2, <1>3, <1>4 DEF ClaimInv

LEMMA SwappedIs ==
  ASSUME TypeInv, NEW d \in Acts, act[d].auth \in Auths,
         NEW s \in {"redeemed", "declined"}
  PROVE  \A a \in Auths :
           \/ Swapped(d, s)[a] = claim[a]
           \/ /\ a = act[d].auth /\ claim[a].s = "unconfirmed" /\ Swapped(d, s)[a].s = s
              /\ Swapped(d, s)[a].o = claim[a].o /\ Swapped(d, s)[a].rq = claim[a].rq
  BY AsIs DEF Swapped

LEMMA BecomesIdle ==
  ASSUME NEW d \in Acts, Becomes(d, Idle)
  PROVE  ActOk(d)'
<1>1. act'[d].pc = "idle" /\ act'[d].auth = None /\ act'[d].by = None
  BY DEF Becomes, Idle
<1> QED BY <1>1 DEF ActOk, Closing

LEMMA ActorFlowClaim ==
  ASSUME TypeInv, TypeInv', ClaimInv, NEW d \in Acts, ActorFlow(d)
  PROVE  ClaimInv'
<1>0. PICK a, b : a = act[d].auth /\ b = act[d].by
  OBVIOUS
<1>1. /\ Steady /\ now' = now /\ ActOk(d) /\ act[d] \in Actor
      /\ a = act[d].auth /\ b = act[d].by
  BY <1>0, ActorFlowSteady DEF ClaimInv, TypeInv, ActorsType, Steady
<1>2. \A q \in Auths : Over(q)' <=> Over(q)
  BY <1>1 DEF Over
<1>3. CASE UNCHANGED <<claim, verdict, logged, pend, closed, chain, sent, told, test>>
           /\ \E n : Becomes(d, n) /\ ActOk(d)'
  BY <1>1, <1>3, ActorStep
<1>4. ASSUME NEW l, Becomes(d, [act[d] EXCEPT !.pc = l])
      PROVE  /\ act'[d].pc = l /\ act'[d].auth = a /\ act'[d].by = b
             /\ act'[d].cron = act[d].cron /\ act'[d].used = act[d].used
  BY <1>1, <1>4 DEF Becomes, Actor
<1>5. CASE \E q \in Reqs : Reconcile(d, q)
  <2>1. PICK q \in Reqs : Reconcile(d, q)
    BY <1>5
  <2>2. UNCHANGED <<claim, verdict, logged, pend, closed, chain, sent, told, test>>
    BY <2>1 DEF Reconcile, pays, store, seen
  <2>3. CASE Becomes(d, [Idle EXCEPT !.pc = "adjust", !.by = q, !.used = act'[d].used])
    <3>1. act'[d].pc = "adjust"
      BY <2>3 DEF Becomes, Idle
    <3>2. ActOk(d)'
      BY <3>1 DEF ActOk, Closing
    <3> QED BY <1>3, <2>2, <2>3, <3>2
  <2>4. CASE req' = req /\ act' = act
    <3>1. Becomes(d, act[d])
      BY <2>4 DEF Becomes, TypeInv, ActorsType
    <3>2. ActOk(d)'
      BY <1>1, <2>2, <2>4 DEF ActOk, Over
    <3> QED BY <1>3, <2>2, <3>1, <3>2
  <2> QED BY <2>1, <2>3, <2>4, ReconcileType
<1>6. CASE Adjust(d) \/ Hand(d) \/ CrashAct(d)
  <2>1. UNCHANGED <<claim, verdict, logged, pend, closed, chain, sent, told, test>>
        /\ Becomes(d, Idle)
    BY <1>6, AdjustType, HandType, CrashType
       DEF Adjust, Hand, CrashAct, Die, ledger, pays, store, seen
  <2> QED BY <1>3, <2>1, BecomesIdle
<1>7. CASE Probe(d)
  <2>1. UNCHANGED <<claim, verdict, logged, pend, closed, chain, sent, told, test>>
        /\ act[d].pc = "probe"
    BY <1>7 DEF Probe, Doing, ledger, pays, store, seen
  <2>2. CASE Becomes(d, Idle)
    BY <1>3, <2>1, <2>2, BecomesIdle
  <2>3. CASE /\ act'[d].used <=> chain[act[d].auth] # "unused"
             /\ Becomes(d, [act[d] EXCEPT !.pc = "judge", !.used = act'[d].used])
    <3>1. /\ act'[d].pc = "judge" /\ act'[d].auth = a /\ act'[d].by = b
          /\ act'[d].cron = act[d].cron
      BY <1>1, <2>3 DEF Becomes, Actor
    <3>2. a \in Auths /\ (act'[d].used <=> chain[a] # "unused")
      BY <1>1, <2>1, <2>3 DEF ActOk
    <3>3. ActOk(d)'
      BY <1>1, <1>2, <2>1, <3>1, <3>2 DEF ActOk, Closing
    <3> QED BY <1>3, <2>1, <2>3, <3>3
  <2> QED BY <1>7, <2>2, <2>3, ProbeType
<1>8. CASE Judge(d)
  <2>1. UNCHANGED <<claim, verdict, logged, closed, chain, sent, told, test>>
        /\ act[d].pc = "judge" /\ a \in Auths
    BY <1>1, <1>8 DEF Judge, Doing, ledger, pays, seen, ActOk
  <2>2. CASE Becomes(d, Idle) /\ pend' \in {pend, pend \ {act[d].auth}}
    <3>1. pend' \subseteq pend
      BY <2>2
    <3> QED BY <1>1, <2>1, <2>2, <3>1, BecomesIdle, ActorStep
  <2>3. CASE /\ act[d].used /\ ~act[d].cron /\ UNCHANGED pend
             /\ Becomes(d, [act[d] EXCEPT !.pc = "give"])
    <3>1. ActOk(d)'
      BY <1>1, <1>2, <1>4, <2>1, <2>3 DEF ActOk, Closing
    <3> QED BY <1>3, <2>1, <2>3, <3>1
  <2>4. CASE /\ MayClose(d) /\ UNCHANGED pend
             /\ Becomes(d, [act[d] EXCEPT !.pc = "close"])
    <3>1. ~act[d].used /\ Over(a)
      BY <1>1, <2>1, <2>4 DEF MayClose, ActOk
    <3>2. ActOk(d)'
      BY <1>1, <1>2, <1>4, <2>1, <2>4, <3>1 DEF ActOk, Closing
    <3> QED BY <1>3, <2>1, <2>4, <3>2
  <2> QED BY <1>8, <2>2, <2>3, <2>4, JudgeType
<1>9. CASE Close(d)
  <2>1. /\ UNCHANGED <<claim, verdict, logged, pend, chain, sent, told, test>>
        /\ act[d].pc = "close" /\ a \in Auths /\ Over(a)
        /\ ReadsInTime => chain[a] = "unused"
    BY <1>1, <1>9 DEF Close, Doing, ledger, pays, seen, ActOk, Closing
  <2>2. closed' \in {closed, closed \cup {a}}
        /\ \/ Becomes(d, [act[d] EXCEPT !.pc = "lose"]) /\ a \in closed'
           \/ Becomes(d, [act[d] EXCEPT !.pc = "drop"])
    BY <1>1, <1>9, CloseType
  <2>3. ActOk(d)' /\ \E n : Becomes(d, n)
    BY <1>1, <1>2, <1>4, <2>1, <2>2 DEF ActOk, Closing
  <2>4. /\ closed \subseteq closed'
        /\ \A q \in Auths : q \in closed' \ closed => q = a
    BY <2>2
  <2> QED BY <1>1, <2>1, <2>3, <2>4, ActorStep
<1>10. CASE LoseClosed(d)
  <2>1. /\ UNCHANGED <<claim, verdict, logged, pend, closed, chain, sent, told, test>>
        /\ act[d].pc = "lose" /\ Becomes(d, [act[d] EXCEPT !.pc = "drop"])
    BY <1>10, LoseClosedType DEF LoseClosed, Doing, pays, store, seen
  <2>2. ActOk(d)'
    BY <1>1, <1>2, <1>4, <2>1 DEF ActOk, Closing
  <2> QED BY <1>3, <2>1, <2>2
<1>11. CASE Drop(d)
  <2>1. /\ UNCHANGED <<verdict, logged, closed, chain, sent, test>>
        /\ act[d].pc = "drop" /\ a \in Auths /\ Over(a)
        /\ ReadsInTime => chain[a] = "unused"
    BY <1>1, <1>11 DEF Drop, Doing, ledger, pays, ActOk, Closing
  <2>2. /\ pend' \subseteq pend /\ told' \in {told, told \cup {a}}
        /\ claim' \in {claim, Swapped(d, "declined")} /\ Becomes(d, Idle)
    BY <1>1, <1>11, DropType
  <2>3. \A q \in Auths : q \in told' \ told => q = a
    BY <2>2
  <2>4. \A q \in Auths :
          \/ claim'[q] = claim[q]
          \/ /\ claim[q].s = "unconfirmed" /\ claim'[q].s \in {"redeemed", "declined"}
             /\ claim'[q].o = claim[q].o /\ claim'[q].rq = claim[q].rq
    BY <1>1, <2>1, <2>2, SwappedIs
  <2> QED BY <1>1, <2>1, <2>2, <2>3, <2>4, BecomesIdle, ActorStep
<1>12. CASE Give(d)
  <2>1. /\ UNCHANGED <<verdict, logged, closed, chain, sent, told, test>>
        /\ act[d].pc = "give" /\ a \in Auths
    BY <1>1, <1>12 DEF Give, Doing, ledger, pays, seen, ActOk
  <2>2. /\ pend' \subseteq pend /\ Becomes(d, [act[d] EXCEPT !.pc = "hand"])
        /\ claim' \in {claim, Swapped(d, "redeemed")}
    BY <1>12, GiveType
  <2>3. \A q \in Auths :
          \/ claim'[q] = claim[q]
          \/ /\ claim[q].s = "unconfirmed" /\ claim'[q].s \in {"redeemed", "declined"}
             /\ claim'[q].o = claim[q].o /\ claim'[q].rq = claim[q].rq
    BY <1>1, <2>1, <2>2, SwappedIs
  <2>4. /\ claim[a].s \in Final => claim'[a].s \in Final
        /\ claim'[a].o = claim[a].o
    BY <2>1, <2>3 DEF Final
  <2>5. ActOk(d)'
    BY <1>1, <1>2, <1>4, <2>1, <2>2, <2>4 DEF ActOk, Closing
  <2> QED BY <1>1, <2>1, <2>2, <2>3, <2>5, ActorStep
<1>13. CASE \E x \in Auths : Cron(d, x)
  <2>1. PICK x \in Auths : Cron(d, x)
    BY <1>13
  <2>2. /\ UNCHANGED <<claim, verdict, logged, pend, closed, chain, sent, told, test>>
        /\ Over(x)
    BY <2>1 DEF Cron, ledger, pays, store, seen
  <2>3. Becomes(d, [Idle EXCEPT !.pc = "probe", !.auth = x, !.by = verdict[x],
                                !.cron = TRUE])
    BY <2>1, CronType
  <2>4. /\ act'[d].pc = "probe" /\ act'[d].auth = x /\ act'[d].by = verdict[x]
        /\ act'[d].cron
    BY <2>3 DEF Becomes, Idle
  <2>5. ActOk(d)'
    BY <1>2, <2>2, <2>4 DEF ActOk, Closing
  <2> QED BY <1>3, <2>2, <2>3, <2>5
<1>14. CASE \E x \in Auths, rq \in Rqs : Redeem(d, x, rq)
  <2>1. PICK x \in Auths, rq \in Rqs : Redeem(d, x, rq)
    BY <1>14
  <2>2. /\ UNCHANGED <<claim, verdict, logged, pend, closed, chain, sent, told, test>>
        /\ claim[x].s = "unconfirmed" /\ ClaimOk(x)
    BY <2>1 DEF Redeem, ledger, pays, store, seen, ClaimInv
  <2>3. Becomes(d, [Idle EXCEPT !.pc = "probe", !.auth = x, !.by = verdict[x]])
    BY <2>1, RedeemType
  <2>4. /\ act'[d].pc = "probe" /\ act'[d].auth = x /\ act'[d].by = verdict[x]
        /\ ~act'[d].cron
    BY <2>3 DEF Becomes, Idle
  <2>5. ActOk(d)'
    BY <1>2, <2>2, <2>4 DEF ActOk, ClaimOk, Closing, Final
  <2> QED BY <1>3, <2>2, <2>3, <2>5
<1> QED BY <1>5, <1>6, <1>7, <1>8, <1>9, <1>10, <1>11, <1>12, <1>13, <1>14
        DEF ActorFlow

LEMMA OpenClaim ==
  ASSUME TypeInv, TypeInv', ClaimInv,
         NEW r \in Reqs, NEW a \in Auths, NEW rq \in Rqs, Open(r, a, rq)
  PROVE  ClaimInv'
<1>1. /\ req[r].pc = "new" /\ now + MinRemaining <= ValidBefore[a]
      /\ UNCHANGED <<claim, verdict, logged, pend, closed, chain, sent, told, test,
                     act, now, faults>>
  BY DEF Open, At, ledger, pays, store, seen, meters
<1>2. /\ req'[r].pc = "claim" /\ req'[r].auth = a /\ ~req'[r].aged
      /\ \A q \in Reqs \ {r} : req'[q] = req[q]
  BY OpenType
<1>3. Steady /\ More
  BY <1>1, ChainSteady DEF More
<1>4. HoldOk(r) /\ r \notin sent /\ req[r].auth \notin Auths
  BY <1>1, SellerDdAssumption DEF ClaimInv, HoldOk, Sending
<1>5. HoldOk(r)'
  <2>1. now + 1 < ValidBefore[a] /\ now < ValidBefore[a]
    BY <1>1, SellerDdAssumption, TimeAssumption DEF TypeInv, MetersType
  <2>2. Young(r, ValidBefore[a])'
    BY <1>1, <2>1 DEF Young
  <2> QED BY <1>1, <1>2, <1>4, <2>2, SellerDdAssumption
          DEF HoldOk, Sending, Holding, Engine
<1>6. ASSUME NEW q \in Reqs PROVE HoldOk(q)'
  BY <1>1, <1>2, <1>3, <1>5, HoldKept DEF ClaimInv
<1>7. ASSUME NEW b \in Auths PROVE ClaimOk(b)'
  <2>1. \A q \in Reqs : req[q].auth \in Auths =>
          /\ req'[q].auth = req[q].auth /\ req'[q].rq = req[q].rq
          /\ req[q].pc \in Cached => req'[q].pc \in Cached
    BY <1>2, <1>4
  <2> QED BY <1>1, <1>3, <2>1, ClaimKept DEF ClaimInv
<1>8. ASSUME NEW e \in Acts PROVE ActOk(e)'
  BY <1>1 DEF ClaimInv, ActOk, Over
<1> QED BY <1>6, <1>7, <1>8 DEF ClaimInv

LEMMA LandClaim ==
  ASSUME TypeInv, TypeInv', ClaimInv, NEW a \in Auths, Land(a) \/ Cancel(a)
  PROVE  ClaimInv'
<1>1. /\ UNCHANGED <<claim, verdict, logged, pend, closed, sent, told, test, req, act,
                     now, faults>>
      /\ chain[a] = "unused" /\ now < ValidBefore[a]
  BY DEF Land, Cancel, ledger, pays, store, meters
<1>2. /\ \A b \in Auths \ {a} : chain'[b] = chain[b]
      /\ \/ chain'[a] = "paid" /\ \E q \in sent : Auth(q) = a
         \/ chain'[a] = "cancelled"
  BY DEF Land, Cancel, TypeInv, SeenType
<1>3. Steady /\ More /\ ~Over(a)
  BY <1>1, ChainSteady, SellerDdAssumption DEF More, Over, TypeInv, MetersType
<1>4. ASSUME NEW q \in Reqs PROVE HoldOk(q)'
  <2>1. HoldOk(q)
    BY DEF ClaimInv
  <2>2. req[q].pc \in {"refund", "mark"} => chain'[req[q].auth] = "paid"
    <3>1. req[q].pc \in {"refund", "mark"} => req[q].auth \in Auths \ {a}
      BY <1>1, <2>1 DEF HoldOk, Busy
    <3> QED BY <1>2, <2>1, <3>1 DEF HoldOk
  <2> QED BY <1>1, <2>1, <2>2 DEF HoldOk, Busy, Holds, Young, Auth
<1>5. ASSUME NEW b \in Auths PROVE ClaimOk(b)'
  <2>1. ClaimOk(b) /\ (Over(b)' <=> Over(b)) /\ sent \subseteq Reqs
    BY <1>1 DEF ClaimInv, Over, TypeInv, SeenType
  <2>2. chain'[b] = "paid" => \E q \in sent' : Auth(q)' = b
    BY <1>1, <1>2, <2>1 DEF ClaimOk, Auth
  <2>3. Over(b) => chain'[b] = chain[b]
    BY <1>2, <1>3
  <2> QED BY <1>1, <2>1, <2>2, <2>3 DEF ClaimOk
<1>6. ASSUME NEW e \in Acts PROVE ActOk(e)'
  <2>1. PICK b : b = act[e].auth
    OBVIOUS
  <2>2. ActOk(e) /\ (Over(b)' <=> Over(b)) /\ act'[e] = act[e]
    BY <1>1 DEF ClaimInv, Over
  <2>3. CASE act[e].pc \in {"idle", "adjust"}
    BY <1>1, <2>1, <2>2, <2>3 DEF ActOk, Closing
  <2>4. CASE act[e].pc \notin {"idle", "adjust"}
    <3>1. b \in Auths
      BY <2>1, <2>2, <2>4 DEF ActOk
    <3>2. /\ Over(b) => chain'[b] = chain[b]
          /\ chain[b] # "unused" => chain'[b] # "unused"
      BY <1>1, <1>2, <1>3, <3>1
    <3> QED BY <1>1, <2>1, <2>2, <2>4, <3>1, <3>2 DEF ActOk, Closing
  <2> QED BY <2>3, <2>4
<1> QED BY <1>4, <1>5, <1>6 DEF ClaimInv

LEMMA TickClaim ==
  ASSUME TypeInv, TypeInv', ClaimInv, Tick
  PROVE  ClaimInv'
<1>1. /\ UNCHANGED <<claim, verdict, logged, pend, closed, chain, sent, told, test,
                     faults>>
      /\ now' = now + 1 /\ now \in Nat
  BY DEF Tick, ledger, pays, store, seen, TypeInv, MetersType
<1>2. \A q \in Reqs : /\ req'[q].pc = req[q].pc /\ req'[q].auth = req[q].auth
                      /\ req'[q].rq = req[q].rq
                      /\ Busy(q) => ~req[q].aged /\ req'[q].aged
  BY TickType
<1>3. \A a \in Auths : Over(a) => Over(a)'
  BY <1>1, SellerDdAssumption DEF Over
<1>4. ASSUME NEW q \in Reqs PROVE HoldOk(q)'
  <2>1. PICK l, a : l = req[q].pc /\ a = req[q].auth
    OBVIOUS
  <2>2. /\ HoldOk(q) /\ l = req[q].pc /\ a = req[q].auth /\ req'[q].pc = l
        /\ req'[q].auth = a /\ req'[q].rq = req[q].rq
        /\ (Busy(q)' <=> Busy(q)) /\ (Busy(q) => ~req[q].aged /\ req'[q].aged)
    BY <1>2, <2>1 DEF ClaimInv, Busy
  <2>3. \A t \in Nat : Busy(q) /\ Young(q, t) => now' < t /\ req'[q].aged
    BY <1>1, <2>2 DEF Young
  <2>4. Busy(q) => a \in Auths /\ Young(q, ValidBefore[a])'
    <3>1. a \in Auths => ValidBefore[a] \in Nat
      BY SellerDdAssumption
    <3> QED BY <2>2, <2>3, <3>1 DEF HoldOk, Young
  <2>5. Busy(q) /\ Holds(q) => Holds(q)'
    <3>1. Busy(q) => claim[a].exp \in Nat
      BY <2>4 DEF TypeInv, StoreType, Claims
    <3> QED BY <1>1, <2>2, <2>3, <3>1 DEF Holds, Young, Auth
  <2>6. l \in Held => Busy(q)
    BY <2>2 DEF Held, Holding, Engine, Busy
  <2> QED BY <1>1, <2>2, <2>4, <2>5, <2>6 DEF HoldOk, Held
<1>5. ASSUME NEW a \in Auths PROVE ClaimOk(a)'
  <2>1. ClaimOk(a) /\ (Over(a) => Over(a)') /\ sent \subseteq Reqs
    BY <1>3 DEF ClaimInv, TypeInv, SeenType
  <2>2. chain'[a] = "paid" => \E q \in sent' : Auth(q)' = a
    BY <1>1, <1>2, <2>1 DEF ClaimOk, Auth
  <2>3. /\ claim[a].s # "none" =>
             claim[a].o \in Reqs /\ req'[claim[a].o].auth = a
        /\ claim[a].s \in {"unconfirmed", "redeemed"} =>
             claim[a].o \in sent /\ verdict[a] = claim[a].o
             /\ claim[a].rq = req'[claim[a].o].rq
        /\ verdict[a] # None => /\ verdict[a] \in Reqs /\ req'[verdict[a]].auth = a
                                /\ test[verdict[a]] = "landed"
                                /\ req'[verdict[a]].pc \in Cached
    BY <1>2, <2>1 DEF ClaimOk
  <2> QED BY <1>1, <2>1, <2>2, <2>3 DEF ClaimOk
<1>6. ASSUME NEW e \in Acts PROVE ActOk(e)'
  <2>1. PICK l, a, b : l = act[e].pc /\ a = act[e].auth /\ b = act[e].by
    OBVIOUS
  <2>2. /\ act'[e].pc = l /\ act'[e].auth = a /\ act'[e].by = b
        /\ act'[e].cron = act[e].cron /\ act'[e].used = act[e].used
        /\ l = "judge" => SlowReads
    BY <2>1, TickType
  <2>3. ActOk(e) /\ (l \notin {"idle", "adjust"} /\ Over(a) => Over(a)')
    <3>1. ActOk(e)
      BY DEF ClaimInv
    <3>2. l \notin {"idle", "adjust"} => a \in Auths
      BY <2>1, <3>1 DEF ActOk
    <3> QED BY <1>3, <3>1, <3>2
  <2>4. ReadsInTime => ~SlowReads
    BY DEF ReadsInTime
  <2> QED BY <1>1, <2>1, <2>2, <2>3, <2>4 DEF ActOk, Closing
<1> QED BY <1>4, <1>5, <1>6 DEF ClaimInv

LEMMA StillClaim ==
  ASSUME TypeInv, TypeInv', ClaimInv,
         UNCHANGED vars \/ \E r \in Reqs : TestLands(r)
  PROVE  ClaimInv'
<1>1. /\ UNCHANGED <<claim, verdict, logged, pend, closed, chain, sent, told, req, act,
                     now, faults, crashes>>
      /\ More
  <2>1. CASE UNCHANGED vars
    BY <2>1 DEF vars, ledger, pays, store, seen, meters, More
  <2>2. CASE \E r \in Reqs : TestLands(r)
    BY <2>2 DEF TestLands, LandTest, store, seen, meters, More, TypeInv, LedgerType
  <2> QED BY <2>1, <2>2
<1>2. Steady
  BY <1>1 DEF Steady, TypeInv, MetersType
<1>3. ASSUME NEW q \in Reqs PROVE HoldOk(q)'
  BY <1>1, <1>2, HoldKept DEF ClaimInv
<1>4. ASSUME NEW a \in Auths PROVE ClaimOk(a)'
  BY <1>1, <1>2, ClaimKept DEF ClaimInv
<1>5. ASSUME NEW e \in Acts PROVE ActOk(e)'
  BY <1>1 DEF ClaimInv, ActOk, Over
<1> QED BY <1>3, <1>4, <1>5 DEF ClaimInv

LEMMA ClaimNext ==
  TypeInv /\ TypeInv' /\ LedgerInv /\ ClaimInv /\ [Next]_vars => ClaimInv'
<1> SUFFICES ASSUME TypeInv, TypeInv', LedgerInv, ClaimInv, [Next]_vars
             PROVE  ClaimInv'
  OBVIOUS
<1>1. CASE \E r \in Reqs : \E a \in Auths, rq \in Rqs : Open(r, a, rq)
  BY <1>1, OpenClaim
<1>2. CASE \E r \in Reqs : PaidFlow(r) \/ Crash(r)
  BY <1>2, PaidFlowClaim
<1>3. CASE UNCHANGED vars \/ \E r \in Reqs : TestLands(r)
  BY <1>3, StillClaim
<1>4. CASE \E d \in Acts : ActorFlow(d)
  BY <1>4, ActorFlowClaim
<1>5. CASE \E a \in Auths : Land(a) \/ Cancel(a)
  BY <1>5, LandClaim
<1>6. CASE Tick
  BY <1>6, TickClaim
<1> QED BY <1>1, <1>2, <1>3, <1>4, <1>5, <1>6 DEF Next, ActorFlow

LEMMA ClaimInit == Init => ClaimInv
<1> SUFFICES ASSUME Init PROVE ClaimInv
  OBVIOUS
<1>1. /\ \A r \in Reqs : req[r].pc = "new" /\ req[r].auth = None
      /\ \A d \in Acts : act[d].pc = "idle" /\ act[d].auth = None /\ act[d].by = None
      /\ \A a \in Auths : /\ claim[a].s = "none" /\ claim[a].o = None
                          /\ verdict[a] = None /\ chain[a] = "unused"
      /\ sent = {} /\ pend = {} /\ closed = {} /\ told = {}
  BY DEF Init, Fresh, Idle, NoClaim
<1>2. \A r \in Reqs : HoldOk(r)
  BY <1>1 DEF HoldOk, Busy, Holding, Engine, Sending
<1>3. \A a \in Auths : ClaimOk(a)
  BY <1>1 DEF ClaimOk
<1>4. \A d \in Acts : ActOk(d)
  BY <1>1 DEF ActOk, Closing
<1> QED BY <1>2, <1>3, <1>4 DEF ClaimInv

LEMMA MoneyClaimHolds == Spec => [](MoneyInv /\ ClaimInv)
<1>1. Init => MoneyInv /\ ClaimInv
  BY InitTypes, LedgerInit, CountInit, ClaimInit DEF MoneyInv
<1>2. MoneyInv /\ ClaimInv /\ MoneyInv' /\ [Next]_vars => ClaimInv'
  BY ClaimNext DEF MoneyInv
<1> QED BY <1>1, <1>2, MoneyHolds, PTL DEF Spec

----------------------------------------------------------------------------
(* Who was given a verdict. *)

\* A request that has asked the chain about its authorization, and holds its claim
\* or has moved it on.
Past == Held \ {"nonce", "release"}
Deals(q) == LET c == claim[Auth(q)] IN
  c.o = q /\ (c.s \notin {"none", "inflight"} \/ req[q].pc \in Past)
\* Whose verdict went out paid for it, and nobody else can with the same payment.
GivenOk(r) == delivered[r] > 0 =>
  /\ r \in sent /\ chain[Auth(r)] # "unused"
  /\ \A q \in Reqs \ {r} : Auth(q) = Auth(r) => delivered[q] = 0 /\ ~Deals(q)
GivenInv == \A r \in Reqs : GivenOk(r)

LEMMA PastDeals ==
  ASSUME TypeInv, ClaimInv, NEW q \in Reqs, req[q].pc \in Past
  PROVE  Deals(q)
<1>1. HoldOk(q) /\ req[q].pc \in Held
  BY DEF ClaimInv, Past
<1> QED BY <1>1, HeldIs DEF Deals

LEMMA GivenStep ==
  ASSUME TypeInv, TypeInv', ClaimInv, GivenInv, sent \subseteq sent',
         \A a \in Auths : chain[a] # "unused" => chain'[a] # "unused",
         \A q \in Reqs : Auth(q) \in Auths => Auth(q)' = Auth(q),
         \A q \in Reqs : Auth(q)' \in Auths /\ chain[Auth(q)'] # "unused" /\ Deals(q)'
                           => Deals(q) /\ Auth(q)' = Auth(q),
         NEW x, \A q \in Reqs \ {x} : delivered'[q] = delivered[q],
         x \in Reqs /\ delivered'[x] # delivered[x] =>
           /\ x \in sent /\ Auth(x) \in Auths /\ chain[Auth(x)] # "unused" /\ Deals(x)
           /\ claim'[Auth(x)].o = x
  PROVE  GivenInv'
<1>1. \A q \in Reqs : delivered[q] \in Nat /\ delivered'[q] \in Nat
  BY DEF TypeInv, SeenType
<1>2. \A q \in Reqs : /\ delivered[q] > 0 => q \in sent
                      /\ q \in sent => Auth(q) \in Auths
  BY DEF GivenInv, GivenOk, ClaimInv, HoldOk, Auth
<1>3. ASSUME NEW r \in Reqs, delivered[r] > 0
      PROVE  /\ r \in sent' /\ chain'[Auth(r)'] # "unused"
             /\ \A q \in Reqs \ {r} : Auth(q)' = Auth(r)' => delivered'[q] = 0 /\ ~Deals(q)'
  <2>1. /\ r \in sent /\ Auth(r) \in Auths /\ Auth(r)' = Auth(r) /\ chain[Auth(r)] # "unused"
        /\ \A q \in Reqs \ {r} : Auth(q) = Auth(r) => delivered[q] = 0 /\ ~Deals(q)
    BY <1>2, <1>3 DEF GivenInv, GivenOk
  <2>2. ASSUME NEW q \in Reqs \ {r}, Auth(q)' = Auth(r)'
        PROVE  delivered'[q] = 0 /\ ~Deals(q)'
    <3>1. ~Deals(q)'
      BY <2>1, <2>2
    <3>2. delivered[q] = 0
      BY <1>1, <1>2, <2>1, <2>2
    <3>3. delivered'[q] = delivered[q]
      BY <2>1, <2>2
    <3> QED BY <3>1, <3>2, <3>3
  <2> QED BY <2>1, <2>2
<1>4. ASSUME NEW r \in Reqs, ~(delivered[r] > 0), delivered'[r] > 0
      PROVE  /\ r \in sent' /\ chain'[Auth(r)'] # "unused"
             /\ \A q \in Reqs \ {r} : Auth(q)' = Auth(r)' => delivered'[q] = 0 /\ ~Deals(q)'
  <2>1. /\ x = r /\ r \in sent /\ Auth(r) \in Auths /\ chain[Auth(r)] # "unused" /\ Deals(r)
        /\ claim'[Auth(r)].o = r /\ Auth(r)' = Auth(r)
    BY <1>4
  <2>2. ASSUME NEW q \in Reqs \ {r}, Auth(q)' = Auth(r)'
        PROVE  delivered'[q] = 0 /\ ~Deals(q)'
    <3>1. ~Deals(q)'
      BY <2>1, <2>2 DEF Deals
    <3>2. delivered'[q] = delivered[q]
      BY <2>1
    <3>3. delivered[q] > 0 => FALSE
      BY <1>2, <2>1, <2>2 DEF GivenInv, GivenOk
    <3> QED BY <1>1, <3>1, <3>2, <3>3
  <2> QED BY <2>1, <2>2
<1> QED BY <1>3, <1>4 DEF GivenInv, GivenOk

\* Only its own step moves a claim of a request, and a request that has not asked
\* the chain goes no further once its authorization is used.
LEMMA FlowDeals ==
  ASSUME TypeInv, LedgerInv, ClaimInv, NEW r \in Reqs, PaidFlow(r) \/ Crash(r)
  PROVE  /\ Auth(r) \in Auths /\ UNCHANGED chain /\ sent \subseteq sent'
         /\ \E l : Goes(r, l)
         /\ \A b \in Auths \ {Auth(r)} : claim'[b] = claim[b]
         /\ claim'[Auth(r)] = claim[Auth(r)] \/ claim'[Auth(r)].o \in {r, None}
         /\ chain[Auth(r)] # "unused" /\ Deals(r)' => Deals(r)
<1>1. CASE PlainFlow(r) \/ SignerFails(r) \/ FailChecks(r)
  <2>1. UNCHANGED <<claim, chain, sent>>
        /\ \E l : Goes(r, l) /\ \/ PlainMove(r, l)
                                \/ req[r].pc = "watch" /\ l = "decline"
    <3>1. CASE PlainFlow(r)
      BY <3>1, PlainMoves
    <3>2. CASE SignerFails(r)
      BY <3>2, SignerFailsType DEF SignerFails, At, store
    <3>3. CASE FailChecks(r)
      BY <3>3, FailChecksType DEF FailChecks, At, store, seen
    <3> QED BY <1>1, <3>1, <3>2, <3>3
  <2>2. PICK l : Goes(r, l) /\ (PlainMove(r, l) \/ (req[r].pc = "watch" /\ l = "decline"))
    BY <2>1
  <2>3. req'[r].pc = l /\ req'[r].auth = req[r].auth
    BY <2>2, GoesIs
  <2>4. req[r].pc = "nonce" => chain[Auth(r)] = "unused" \/ l \in {"release", "end"}
    <3>1. SUFFICES ASSUME req[r].pc = "nonce"
                   PROVE  chain[Auth(r)] = "unused" \/ l \in {"release", "end"}
      OBVIOUS
    <3>2. CheckNonce(r) \/ Refuse(r) \/ Crash(r)
      BY <1>1, <3>1
         DEF PlainFlow, Verify, TakeDeclineSlot, Block, Reserve, BookTest, Sign, RefuseSign,
             Unsign, Confirm, SettleFails, SettleOk, RefundSlot, SignerFails, FailChecks, At
    <3>3. CASE CheckNonce(r)
      BY <3>3 DEF CheckNonce
    <3>4. CASE Refuse(r)
      BY <2>2, <2>3, <3>4, Going, GoesIs DEF Refuse, Places, Early
    <3>5. CASE Crash(r)
      BY <2>3, <3>5, CrashType, GoesIs
    <3> QED BY <3>2, <3>3, <3>4, <3>5
  <2>5. req[r].pc # "new" /\ (l \in Past => req[r].pc \in Past \cup {"nonce"})
    BY <2>2 DEF PlainMove, Before, Onward, Past, Held, Holding, Engine, Busy
  <2>6. l \in Past => l \notin {"release", "end"}
    BY DEF Past, Held, Holding, Engine
  <2>7. chain[Auth(r)] # "unused" /\ Deals(r)' => Deals(r)
    BY <2>1, <2>3, <2>4, <2>5, <2>6, PastDeals DEF Deals, Auth
  <2>8. Auth(r) \in Auths
    BY <2>5 DEF TypeInv, KnownType
  <2> QED BY <2>1, <2>2, <2>7, <2>8
<1>2. CASE TryClaim(r)
  <2>1. UNCHANGED <<chain, sent>> /\ \E l : Goes(r, l)
    BY <1>2, TryClaimIs DEF seen
  <2>2. \/ req'[r].pc = "end" /\ claim' = claim
        \/ claim'[Auth(r)] = Inflight(r) /\ req'[r].pc \in {"nonce", "end"}
    BY <1>2, TryClaimIs, GoesIs
  <2>3. Auth(r)' = Auth(r)
    BY <2>1, GoesIs DEF Auth
  <2>4. Inflight(r).s = "inflight" /\ Inflight(r).o = r
    BY DEF Inflight
  <2>5. Deals(r)' => Deals(r)
    BY <2>2, <2>3, <2>4 DEF Deals, Past, Held, Holding, Engine
  <2> QED BY <1>2, <2>1, <2>2, <2>4, <2>5, TryClaimIs
<1>3. CASE Release(r)
  <2>1. UNCHANGED <<chain, sent>> /\ Goes(r, "end") /\ req[r].pc = "release"
    BY <1>3, ReleaseType DEF Release, At, seen
  <2>2. Auth(r) \in Auths
    BY <2>1 DEF TypeInv, KnownType
  <2>3. claim' = claim \/ claim' = [claim EXCEPT ![Auth(r)] = NoClaim]
    BY <1>3 DEF Release, Tried, Applied, Lost
  <2>4. /\ \A b \in Auths \ {Auth(r)} : claim'[b] = claim[b]
        /\ claim' = claim \/ claim'[Auth(r)] = NoClaim
    BY <2>2, <2>3 DEF TypeInv, StoreType
  <2>5. NoClaim.s = "none" /\ NoClaim.o = None
    BY DEF NoClaim
  <2>6. req'[r].pc = "end" /\ Auth(r)' = Auth(r)
    BY <2>1, GoesIs DEF Auth
  <2>7. Deals(r)' => Deals(r)
    BY <2>4, <2>5, <2>6 DEF Deals, Past, Held, Holding, Engine
  <2> QED BY <2>1, <2>2, <2>4, <2>5, <2>7
<1>4. CASE Decline(r) \/ Undo(r) \/ Unconfirm(r) \/ Mark(r)
  <2>1. PICK p, s, l :
          /\ req[r].pc = p /\ Goes(r, l) /\ Move(r, s) /\ UNCHANGED <<chain, sent>>
          /\ p \in {"decline", "undo", "unconf", "mark"}
    BY <1>4, MovesType DEF Decline, Undo, Unconfirm, Mark, At, seen
  <2>2. p \in Past /\ p \in Holding /\ p \in Held
    BY <2>1 DEF Past, Held, Holding
  <2>3. Auth(r) \in Auths /\ Holds(r) /\ claim[Auth(r)].o = r
    BY <2>1, <2>2, HolderIs
  <2>4. /\ \A b \in Auths \ {Auth(r)} : claim'[b] = claim[b]
        /\ claim'[Auth(r)].o = r
    BY <2>1, <2>3, MoveIs
  <2> QED BY <2>1, <2>2, <2>3, <2>4, PastDeals
<1>5. CASE CacheVerdict(r) \/ LogReceipt(r) \/ Settle(r) \/ Pend(r) \/ LoseTest(r)
  <2>1. /\ UNCHANGED <<claim, chain>> /\ sent \subseteq sent' /\ \E l : Goes(r, l)
        /\ req[r].pc \in {"cache", "log", "settle", "pend", "lose"}
    BY <1>5, CacheType, LogType, SettleType, PendType, LoseTestType
       DEF CacheVerdict, LogReceipt, Settle, Pend, LoseTest, At, seen, store
  <2>2. req[r].pc \in Past /\ req[r].pc # "new"
    BY <2>1 DEF Past, Held, Holding
  <2>3. Auth(r) \in Auths
    BY <2>2 DEF TypeInv, KnownType
  <2> QED BY <2>1, <2>2, <2>3, PastDeals
<1> QED BY <1>1, <1>2, <1>3, <1>4, <1>5 DEF PaidFlow, PlainFlow

LEMMA FlowGiven ==
  ASSUME TypeInv, TypeInv', LedgerInv, ClaimInv, GivenInv, NEW r \in Reqs,
         PaidFlow(r) \/ Crash(r)
  PROVE  GivenInv'
<1>1. PICK l : Goes(r, l)
  BY FlowDeals
<1>2. /\ \A q \in Reqs : Auth(q)' = Auth(q)
      /\ \A q \in Reqs \ {r} : req'[q] = req[q]
  BY <1>1, GoesIs DEF Goes, Auth
<1>3. ASSUME NEW q \in Reqs, Auth(q)' \in Auths, chain[Auth(q)'] # "unused", Deals(q)'
      PROVE  Deals(q)
  <2>1. CASE q = r
    BY <1>2, <1>3, <2>1, FlowDeals
  <2>2. CASE q # r
    <3>1. req'[q] = req[q] /\ Auth(q)' = Auth(q) /\ Auth(q) \in Auths /\ q # None
      BY <1>2, <1>3, <2>2, SellerDdAssumption
    <3>2. claim'[Auth(q)].o = q
      BY <1>3, <3>1 DEF Deals
    <3>3. claim'[Auth(q)] = claim[Auth(q)]
      BY <2>2, <3>1, <3>2, FlowDeals
    <3> QED BY <1>3, <3>1, <3>3 DEF Deals
  <2> QED BY <2>1, <2>2
<1>4. sent \subseteq sent' /\ UNCHANGED chain
  BY FlowDeals
<1>5. CASE Mark(r)
  <2>1. req[r].pc = "mark" /\ delivered' = [delivered EXCEPT ![r] = @ + 1]
    BY <1>5 DEF Mark, At, Deliver
  <2>2. /\ "mark" \in Past /\ "mark" \in Held /\ "mark" \in Holding /\ "mark" \in Sending
    BY DEF Past, Held, Holding, Sending
  <2>3. /\ Deals(r) /\ Auth(r) \in Auths /\ Holds(r) /\ claim[Auth(r)].o = r /\ HoldOk(r)
    BY <2>1, <2>2, PastDeals, HolderIs
  <2>4. r \in sent /\ chain[Auth(r)] = "paid"
    BY <2>1, <2>2, <2>3 DEF HoldOk, Auth
  <2>5. claim'[Auth(r)].o = r
    BY <1>5, <2>3, MoveIs DEF Mark
  <2>6. \A q \in Reqs \ {r} : delivered'[q] = delivered[q]
    BY <2>1 DEF TypeInv, SeenType
  <2> QED BY <1>2, <1>3, <1>4, <2>3, <2>4, <2>5, <2>6, GivenStep
<1>6. CASE ~Mark(r)
  <2>1. delivered' = delivered
    <3>1. CASE PlainFlow(r)
      BY <3>1, PlainMoves
    <3>2. CASE ~PlainFlow(r)
      BY <1>6, <3>2
         DEF PaidFlow, PlainFlow, TryClaim, Release, SignerFails, FailChecks, Decline,
             CacheVerdict, LogReceipt, Undo, LoseTest, Settle, Unconfirm, Pend, seen
    <3> QED BY <3>1, <3>2
  <2> QED BY <1>2, <1>3, <1>4, <2>1, GivenStep
<1> QED BY <1>5, <1>6

\* A redeem or a cron pass swaps an unconfirmed claim at most, and a redeem that
\* delivers has read the chain.
LEMMA ActorDeals ==
  ASSUME TypeInv, ClaimInv, NEW d \in Acts, ActorFlow(d)
  PROVE  /\ req' = req /\ UNCHANGED <<chain, sent, verdict>>
         /\ \A a \in Auths : \/ claim'[a] = claim[a]
                             \/ /\ claim[a].s = "unconfirmed"
                                /\ claim'[a].s \in {"redeemed", "declined"}
                                /\ claim'[a].o = claim[a].o
         /\ delivered' = delivered \/ Hand(d)
<1>1. CASE Drop(d) \/ Give(d)
  <2>1. act[d].auth \in Auths
    BY <1>1 DEF Drop, Give, Doing, TypeInv, KnownType
  <2>2. /\ claim' \in {claim, Swapped(d, "redeemed"), Swapped(d, "declined")}
        /\ req' = req
    BY <1>1, DropType, GiveType DEF Becomes
  <2>3. UNCHANGED <<chain, sent, verdict, delivered>>
    BY <1>1 DEF Drop, Give, seen
  <2> QED BY <2>1, <2>2, <2>3, SwappedIs
<1>2. CASE Hand(d) \/ CrashAct(d) \/ Adjust(d) \/ Probe(d) \/ Judge(d) \/ Close(d)
           \/ LoseClosed(d)
  <2>1. UNCHANGED <<claim, chain, sent, verdict>> /\ (delivered' = delivered \/ Hand(d))
    BY <1>2 DEF Hand, CrashAct, Die, Adjust, Probe, Judge, Close, LoseClosed, store, seen
  <2>2. req' = req
    BY <1>2, HandType, CrashType, AdjustType, ProbeType, JudgeType, CloseType,
       LoseClosedType DEF Becomes
  <2> QED BY <2>1, <2>2
<1>3. CASE \/ \E a \in Auths : Cron(d, a) \/ \E rq \in Rqs : Redeem(d, a, rq)
           \/ \E r \in Reqs : Reconcile(d, r)
  BY <1>3 DEF Cron, Redeem, Reconcile, store, seen
<1> QED BY <1>1, <1>2, <1>3 DEF ActorFlow

LEMMA ActorGiven ==
  ASSUME TypeInv, TypeInv', ClaimInv, GivenInv, NEW d \in Acts, ActorFlow(d)
  PROVE  GivenInv'
<1>1. \A q \in Reqs : Auth(q)' = Auth(q) /\ req'[q] = req[q]
  BY ActorDeals DEF Auth
<1>2. ASSUME NEW q \in Reqs, Auth(q)' \in Auths, Deals(q)' PROVE Deals(q)
  <2>1. Auth(q) \in Auths /\ Auth(q)' = Auth(q) /\ req'[q] = req[q]
    BY <1>1, <1>2
  <2>2. \/ claim'[Auth(q)] = claim[Auth(q)]
        \/ claim[Auth(q)].s = "unconfirmed" /\ claim'[Auth(q)].o = claim[Auth(q)].o
    BY <2>1, ActorDeals
  <2> QED BY <1>2, <2>1, <2>2 DEF Deals
<1>3. sent' = sent /\ chain' = chain
  BY ActorDeals
<1>4. CASE Hand(d)
  <2>1. PICK a, b : a = act[d].auth /\ b = act[d].by
    OBVIOUS
  <2>2. /\ act[d].pc = "hand" /\ ActOk(d) /\ a = act[d].auth /\ b = act[d].by
        /\ delivered' = [delivered EXCEPT ![b] = @ + 1] /\ claim' = claim
    BY <1>4, <2>1 DEF Hand, Doing, Deliver, ClaimInv
  <2>3. /\ a \in Auths /\ b \in sent /\ claim[a].o = b /\ claim[a].s \in Final
        /\ chain[a] # "unused"
    BY <2>2 DEF ActOk
  <2>4. b \in Reqs /\ req[b].auth = a
    BY <2>3 DEF ClaimInv, ClaimOk, Final
  <2>5. Deals(b)
    BY <2>3, <2>4 DEF Deals, Auth, Final
  <2>6. \A q \in Reqs \ {b} : delivered'[q] = delivered[q]
    BY <2>2 DEF TypeInv, SeenType
  <2> QED BY <1>1, <1>2, <1>3, <2>2, <2>3, <2>4, <2>5, <2>6, GivenStep DEF Auth
<1>5. CASE delivered' = delivered
  BY <1>1, <1>2, <1>3, <1>5, GivenStep
<1> QED BY <1>4, <1>5, ActorDeals

LEMMA OtherGiven ==
  ASSUME TypeInv, TypeInv', ClaimInv, GivenInv,
         \/ UNCHANGED vars \/ Tick \/ \E r \in Reqs : TestLands(r)
         \/ \E a \in Auths : Land(a) \/ Cancel(a)
         \/ \E r \in Reqs : \E a \in Auths, rq \in Rqs : Open(r, a, rq)
  PROVE  GivenInv'
<1>1. UNCHANGED <<claim, sent, delivered>>
  BY DEF vars, Tick, TestLands, Land, Cancel, Open, store, seen
<1>2. \A a \in Auths : chain[a] # "unused" => chain'[a] # "unused"
  <2>1. CASE \E a \in Auths : Land(a) \/ Cancel(a)
    BY <2>1 DEF Land, Cancel, TypeInv, SeenType
  <2>2. CASE chain' = chain
    BY <2>2
  <2> QED BY <2>1, <2>2 DEF vars, Tick, TestLands, Open, seen
<1>3. CASE \E r \in Reqs : \E a \in Auths, rq \in Rqs : Open(r, a, rq)
  <2>1. PICK r \in Reqs, a \in Auths, rq \in Rqs : Open(r, a, rq)
    BY <1>3
  <2>2. /\ Auth(r)' = a /\ req[r].pc = "new"
        /\ \A q \in Reqs \ {r} : Auth(q)' = Auth(q) /\ req'[q] = req[q]
    BY <2>1, OpenType DEF Auth, Open, At
  <2>3. Auth(r) \notin Auths
    BY <2>2, SellerDdAssumption DEF ClaimInv, HoldOk, Auth
  <2>4. ~Deals(r)'
    <3>1. claim[a].s = "none" => claim[a].o = None
      BY DEF ClaimInv, ClaimOk
    <3>2. claim[a].s # "none" => claim[a].o # r
      BY <2>3 DEF ClaimInv, ClaimOk, Auth
    <3> QED BY <1>1, <2>2, <3>1, <3>2, SellerDdAssumption DEF Deals
  <2>5. \A q \in Reqs \ {r} : Deals(q)' => Deals(q)
    BY <1>1, <2>2 DEF Deals
  <2>6. \A q \in Reqs : Auth(q) \in Auths => Auth(q)' = Auth(q)
    BY <2>2, <2>3
  <2> QED BY <1>1, <1>2, <2>2, <2>4, <2>5, <2>6, GivenStep
<1>4. CASE \A q \in Reqs : req'[q].auth = req[q].auth /\ req'[q].pc = req[q].pc
  <2>1. \A q \in Reqs : Auth(q)' = Auth(q) /\ (Deals(q)' => Deals(q))
    BY <1>1, <1>4 DEF Deals, Auth
  <2> QED BY <1>1, <1>2, <2>1, GivenStep
<1> QED BY <1>3, <1>4, TickType DEF vars, TestLands, Land, Cancel

LEMMA GivenNext ==
  TypeInv /\ TypeInv' /\ LedgerInv /\ ClaimInv /\ GivenInv /\ [Next]_vars => GivenInv'
  BY FlowGiven, ActorGiven, OtherGiven DEF Next, ActorFlow

LEMMA GivenHolds == Spec => [](MoneyInv /\ ClaimInv /\ GivenInv)
<1>1. Init => GivenInv
  BY DEF Init, GivenInv, GivenOk
<1>2. /\ MoneyInv /\ ClaimInv /\ GivenInv /\ MoneyInv' /\ [Next]_vars => GivenInv'
  BY GivenNext DEF MoneyInv
<1> QED BY <1>1, <1>2, MoneyClaimHolds, PTL DEF Spec

\* handler.ts:303, engine.ts: a verdict goes out only for an authorization that is
\* used, one verdict for each, with its receipt logged and its own test payment on
\* the chain; and "nothing was charged" is never said of a payment that lands,
\* when a chain read is judged in the tick it was made.
THEOREM AnswersAreTrue ==
  ASSUME ReadsInTime
  PROVE  Spec => []AnswersTrue
<1>1. MoneyInv /\ ClaimInv /\ GivenInv => VerdictIsPaid
  <2> SUFFICES ASSUME MoneyInv, ClaimInv, GivenInv, NEW r \in Reqs, delivered[r] > 0
               PROVE  /\ chain[Auth(r)] # "unused" /\ test[r] = "landed" /\ r \in logged
                      /\ \A q \in Reqs \ {r} : delivered[q] > 0 => Auth(q) # Auth(r)
    BY DEF VerdictIsPaid
  <2>1. /\ r \in sent /\ chain[Auth(r)] # "unused"
        /\ \A q \in Reqs \ {r} : Auth(q) = Auth(r) => delivered[q] = 0
    BY DEF GivenInv, GivenOk
  <2>2. r \in logged /\ test[r] = "landed"
    BY <2>1 DEF ClaimInv, HoldOk
  <2> QED BY <2>1, <2>2 DEF MoneyInv, TypeInv, SeenType
<1>2. MoneyInv /\ ClaimInv => ToldTrue
  BY DEF ToldTrue, MoneyInv, TypeInv, SeenType, ClaimInv, ClaimOk
<1>3. MoneyInv /\ ClaimInv /\ GivenInv => AnswersTrue
  BY <1>1, <1>2 DEF AnswersTrue
<1> QED BY <1>3, GivenHolds, PTL

----------------------------------------------------------------------------
(* What becomes of a charge. *)

\* While nothing fails, the authorization of a request that was submitted is on its
\* way to an answer, can be redeemed, was delivered, or never lands.
ChargeOk(r) ==
  LET a == Auth(r)  c == claim[Auth(r)] IN
    ReadsInTime /\ Calm /\ r \in sent =>
      /\ c.o = r /\ verdict[a] = r
      /\ \/ req[r].pc \in {"asked", "unconf", "refund", "mark"}
         \/ c.s = "unconfirmed"
         \/ c.s = "settled" /\ delivered[r] > 0
         \/ /\ c.s = "redeemed"
            /\ \/ delivered[r] > 0
               \/ \E d \in Acts : /\ act[d].pc = "hand" /\ act[d].by = r
                                  /\ act[d].auth = a
         \/ c.s = "declined" /\ Over(a) /\ chain[a] = "unused"
ChargeInv == \A r \in Reqs : ChargeOk(r)

\* Somebody else's claim is left alone.
LEMMA FlowKeeps ==
  ASSUME TypeInv, LedgerInv, ClaimInv, NEW q \in Reqs, PaidFlow(q) \/ Crash(q),
         NEW a \in Auths, Live(a), claim[a].o # q
  PROVE  claim'[a] = claim[a] /\ verdict'[a] = verdict[a] /\ (a \in pend' => a \in pend)
<1>1. CASE PlainFlow(q) \/ SignerFails(q) \/ FailChecks(q)
  <2>1. CASE PlainFlow(q)
    BY <2>1, PlainMoves
  <2>2. CASE SignerFails(q) \/ FailChecks(q)
    BY <2>2 DEF SignerFails, FailChecks, store
  <2> QED BY <1>1, <2>1, <2>2
<1>2. CASE TryClaim(q)
  BY <1>2, TryClaimIs
<1>3. ASSUME ~PlainFlow(q), ~SignerFails(q), ~FailChecks(q), ~TryClaim(q)
      PROVE  /\ claim'[a] = claim[a] /\ verdict'[a] = verdict[a]
             /\ a \in pend' => a \in pend
  <2>1. \/ Release(q) \/ Decline(q) \/ CacheVerdict(q) \/ LogReceipt(q) \/ Undo(q)
        \/ LoseTest(q) \/ Settle(q) \/ Unconfirm(q) \/ Pend(q) \/ Mark(q)
    BY <1>3 DEF PaidFlow, PlainFlow
  <2>2. req[q].pc \in Held
    BY <2>1 DEF Release, Decline, CacheVerdict, LogReceipt, Undo, LoseTest, Settle,
                Unconfirm, Pend, Mark, At, Held, Holding
  <2>3. Auth(q) # a
    BY <2>2, HolderIs
  <2>4. claim'[a] = claim[a]
    BY <2>3, FlowDeals
  <2>5. verdict' \in {verdict, [verdict EXCEPT ![Auth(q)] = q]}
        /\ pend' \in {pend, pend \cup {Auth(q)}}
    BY <2>1 DEF Release, Decline, CacheVerdict, LogReceipt, Undo, LoseTest, Settle,
                Unconfirm, Pend, Mark, Applied, Lost, Tried, store
  <2> QED BY <2>3, <2>4, <2>5 DEF TypeInv, StoreType
<1> QED BY <1>1, <1>2, <1>3

LEMMA ChargeKept ==
  ASSUME NEW r \in Reqs, ChargeOk(r), r \in sent' => r \in sent, Auth(r)' = Auth(r),
         Calm' => Calm,
         Calm /\ Calm' /\ ReadsInTime /\ r \in sent /\ claim[Auth(r)].o = r =>
           /\ claim'[Auth(r)] = claim[Auth(r)] /\ verdict'[Auth(r)] = verdict[Auth(r)]
           /\ req[r].pc \in {"asked", "unconf", "refund", "mark"} => req'[r].pc = req[r].pc
           /\ delivered[r] > 0 => delivered'[r] > 0
           /\ Over(Auth(r)) => Over(Auth(r))' /\ chain'[Auth(r)] = chain[Auth(r)]
           /\ \A d \in Acts : act[d].pc = "hand" /\ act[d].by = r /\ act[d].auth = Auth(r) =>
                \/ act'[d].pc = "hand" /\ act'[d].by = r /\ act'[d].auth = Auth(r)
                \/ delivered'[r] > 0
  PROVE  ChargeOk(r)'
  BY DEF ChargeOk, Over

LEMMA FlowCharge ==
  ASSUME TypeInv, TypeInv', LedgerInv, ClaimInv, ClaimInv', ChargeInv, NEW q \in Reqs,
         PaidFlow(q) \/ Crash(q)
  PROVE  ChargeInv'
<1>1. /\ Steady /\ now' = now /\ (Calm' => Calm) /\ act' = act /\ UNCHANGED chain
      /\ sent \subseteq sent'
      /\ \A r \in Reqs : Auth(r)' = Auth(r)
      /\ \A r \in Reqs \ {q} : req'[r] = req[r]
  <2>1. PICK l : Goes(q, l)
    BY FlowDeals
  <2> QED BY <2>1, PaidFlowSteady, SteadyCalm, FlowDeals, GoesIs DEF Goes, Auth, Steady
<1>2. \A r \in Reqs \ {q} : (r \in sent' => r \in sent) /\ delivered'[r] = delivered[r]
  <2>1. CASE PlainFlow(q)
    BY <2>1, PlainMoves
  <2>2. sent' = sent \/ sent' = sent \cup {q}
    BY PlainMoves
       DEF PaidFlow, PlainFlow, TryClaim, Release, SignerFails, FailChecks, Decline,
           CacheVerdict, LogReceipt, Undo, LoseTest, Settle, Unconfirm, Pend, Mark, seen
  <2>3. delivered' = delivered \/ delivered' = [delivered EXCEPT ![q] = @ + 1]
    BY PlainMoves
       DEF PaidFlow, PlainFlow, TryClaim, Release, SignerFails, FailChecks, Decline,
           CacheVerdict, LogReceipt, Undo, LoseTest, Settle, Unconfirm, Pend, Mark, seen,
           Deliver
  <2> QED BY <2>2, <2>3 DEF TypeInv, SeenType
<1>3. ASSUME NEW r \in Reqs \ {q} PROVE ChargeOk(r)'
  <2>1. ChargeOk(r) /\ HoldOk(r) /\ (r \in sent => Auth(r) \in Auths /\ ClaimOk(Auth(r)))
    BY DEF ChargeInv, ClaimInv, HoldOk, Auth
  <2>2. ASSUME Calm, ReadsInTime, r \in sent, claim[Auth(r)].o = r
        PROVE  claim'[Auth(r)] = claim[Auth(r)] /\ verdict'[Auth(r)] = verdict[Auth(r)]
    <3>1. Live(Auth(r))
      <4>1. CASE req[r].pc \in {"asked", "unconf", "refund", "mark"}
        BY <2>1, <4>1, HeldIs DEF Held, Holding
      <4>2. CASE claim[Auth(r)].s \in {"unconfirmed", "settled", "redeemed", "declined"}
        BY <4>2 DEF Live
      <4> QED BY <2>1, <2>2, <4>1, <4>2 DEF ChargeOk
    <3> QED BY <2>1, <2>2, <3>1, FlowKeeps
  <2>3. Over(Auth(r)) => Over(Auth(r))'
    BY <1>1 DEF Over
  <2> QED BY <1>1, <1>2, <2>1, <2>2, <2>3, ChargeKept
<1>4. ChargeOk(q)'
  <2>1. SUFFICES ASSUME ReadsInTime, Calm', q \in sent'
                 PROVE  ChargeOk(q)'
    BY DEF ChargeOk
  <2>2. Calm /\ crashes' = crashes
    BY <1>1, <2>1 DEF Calm
  <2>3. PICK a \in Auths : a = Auth(q) /\ a = Auth(q)'
    BY <1>1, FlowDeals
  <2>4. HoldOk(q) /\ HoldOk(q)' /\ ChargeOk(q)
    BY DEF ClaimInv, ChargeInv
  <2>5. CASE Settle(q)
    <3>1. Goes(q, "asked") /\ req'[q].pc = "asked"
      BY <2>5, SettleType, GoesIs
    <3>2. claim'[a].o = q /\ verdict'[a] = q
      BY <2>3, <2>4, <3>1 DEF HoldOk, Holding, Sending, Holds, Auth
    <3> QED BY <2>3, <3>1, <3>2 DEF ChargeOk
  <2>6. CASE SettleFails(q) \/ SettleOk(q) \/ RefundSlot(q)
    <3>1. req'[q].pc \in {"unconf", "refund", "mark"}
      BY <2>6, SettleFailsType, PlainType, RefundType, GoesIs
         DEF SettleOk, CheckNonce, Verify, Refuse, Block, RefuseSign, Confirm, At
    <3>2. claim'[a].o = q /\ verdict'[a] = q
      BY <2>3, <2>4, <3>1 DEF HoldOk, Holding, Sending, Holds, Auth
    <3> QED BY <2>3, <3>1, <3>2 DEF ChargeOk
  <2>7. CASE Unconfirm(q)
    <3>1. req[q].pc = "unconf" /\ Move(q, "unconfirmed") /\ UNCHANGED verdict
      BY <2>7 DEF Unconfirm, At
    <3>2. Holds(q) /\ verdict[a] = q
      BY <2>3, <2>4, <3>1 DEF HoldOk, Holding, Sending, Auth
    <3>3. claim'[a].s = "unconfirmed" /\ claim'[a].o = q
      <4>1. faults' = faults /\ faults \in Nat
        BY <2>1, <2>2 DEF Calm
      <4>2. PICK s : s = "unconfirmed" /\ Move(q, s)
        BY <3>1
      <4>3. a = Auth(q) /\ Holds(q)
        BY <2>3, <3>2
      <4>4. \/ claim'[a].s = s /\ claim'[a].o = q
            \/ claim' = claim /\ Fault
        BY <4>2, <4>3, MoveIs
      <4> QED BY <4>1, <4>2, <4>4 DEF Fault
    <3>4. /\ Auth(q)' = a /\ claim'[a].o = q /\ verdict'[a] = q
          /\ claim'[a].s = "unconfirmed"
      BY <2>3, <3>1, <3>2, <3>3
    <3> QED BY <3>4 DEF ChargeOk
  <2>8. CASE Mark(q)
    <3>1. /\ req[q].pc = "mark" /\ Move(q, "settled") /\ UNCHANGED verdict
          /\ delivered' = [delivered EXCEPT ![q] = @ + 1]
      BY <2>8 DEF Mark, At, Deliver
    <3>2. Holds(q) /\ verdict[a] = q
      BY <2>3, <2>4, <3>1 DEF HoldOk, Holding, Sending, Auth
    <3>3. claim'[a].s = "settled" /\ claim'[a].o = q
      <4>1. faults' = faults /\ faults \in Nat
        BY <2>1, <2>2 DEF Calm
      <4>2. PICK s : s = "settled" /\ Move(q, s)
        BY <3>1
      <4>3. a = Auth(q) /\ Holds(q)
        BY <2>3, <3>2
      <4>4. \/ claim'[a].s = s /\ claim'[a].o = q
            \/ claim' = claim /\ Fault
        BY <4>2, <4>3, MoveIs
      <4> QED BY <4>1, <4>2, <4>4 DEF Fault
    <3>4. delivered'[q] > 0
      BY <3>1 DEF TypeInv, SeenType
    <3>5. /\ Auth(q)' = a /\ claim'[a].o = q /\ verdict'[a] = q
          /\ claim'[a].s = "settled"
      BY <2>3, <3>1, <3>2, <3>3
    <3> QED BY <3>4, <3>5 DEF ChargeOk
  <2>9. CASE Pend(q)
    <3>1. req[q].pc = "pend" /\ UNCHANGED <<claim, verdict, delivered, sent>>
      BY <2>9 DEF Pend, At, seen
    <3>2. Over(Auth(q)) => Over(Auth(q))'
      BY <1>1 DEF Over
    <3> QED BY <1>1, <2>4, <3>1, <3>2, ChargeKept
  <2>10. CASE ~(Settle(q) \/ SettleFails(q) \/ SettleOk(q) \/ RefundSlot(q) \/ Unconfirm(q)
                \/ Mark(q) \/ Pend(q))
    <3>1. ~Crash(q)
      BY <2>2 DEF Crash, Die, TypeInv, MetersType
    <3>2. sent' = sent
      BY <2>10, PlainMoves
         DEF PaidFlow, PlainFlow, TryClaim, Release, SignerFails, FailChecks, Decline,
             CacheVerdict, LogReceipt, Undo, LoseTest, seen
    <3>3. req[q].pc \notin Sending \cup {"end"}
      BY <2>10, <3>1
         DEF PaidFlow, TryClaim, CheckNonce, Verify, Refuse, Release, TakeDeclineSlot,
             Block, Reserve, BookTest, Sign, RefuseSign, Unsign, Confirm, SignerFails,
             FailChecks, Decline, CacheVerdict, LogReceipt, Undo, LoseTest, At, Sending
    <3> QED BY <2>1, <2>4, <3>2, <3>3 DEF HoldOk
  <2> QED BY <2>5, <2>6, <2>7, <2>8, <2>9, <2>10
<1> QED BY <1>3, <1>4 DEF ChargeInv

\* Only a redeem that delivers, or one that answers, swaps a claim.
LEMMA ActorSwaps ==
  ASSUME TypeInv, ClaimInv, NEW d \in Acts, ActorFlow(d), NEW a \in Auths,
         claim'[a] # claim[a]
  PROVE  /\ act[d].auth = a /\ ~act[d].cron /\ claim[a].s = "unconfirmed"
         /\ claim'[a].o = claim[a].o
         /\ \/ /\ claim'[a].s = "redeemed" /\ act'[d].pc = "hand"
               /\ act'[d].by = verdict[a] /\ act'[d].auth = a
            \/ /\ claim'[a].s = "declined" /\ act[d].pc = "drop"
<1>1. Give(d) \/ Drop(d)
  BY DEF ActorFlow, Hand, CrashAct, Die, Adjust, Probe, Judge, Close, LoseClosed, Cron,
         Redeem, Reconcile, store
<1>2. act[d].auth \in Auths /\ act[d] \in Actor /\ ActOk(d)
  BY <1>1 DEF Give, Drop, Doing, TypeInv, KnownType, ActorsType, ClaimInv
<1>3. CASE Give(d)
  <2>1. /\ act[d].pc = "give" /\ claim' \in {claim, Swapped(d, "redeemed")}
        /\ Becomes(d, [act[d] EXCEPT !.pc = "hand"])
    BY <1>3, GiveType DEF Give, Doing
  <2>2. /\ act'[d].pc = "hand" /\ act'[d].by = act[d].by /\ act'[d].auth = act[d].auth
    BY <1>2, <2>1 DEF Becomes, Actor
  <2>3. ~act[d].cron /\ act[d].by = verdict[act[d].auth]
    BY <1>2, <2>1 DEF ActOk
  <2>4. /\ act[d].auth = a /\ claim[a].s = "unconfirmed" /\ claim'[a].s = "redeemed"
        /\ claim'[a].o = claim[a].o
    BY <1>2, <2>1, SwappedIs
  <2> QED BY <2>2, <2>3, <2>4
<1>4. CASE Drop(d)
  <2>1. act[d].pc = "drop" /\ ~act[d].cron /\ claim' \in {claim, Swapped(d, "declined")}
    BY <1>4, DropType DEF Drop, Doing
  <2>2. /\ act[d].auth = a /\ claim[a].s = "unconfirmed" /\ claim'[a].s = "declined"
        /\ claim'[a].o = claim[a].o
    BY <1>2, <2>1, SwappedIs
  <2> QED BY <2>1, <2>2
<1> QED BY <1>1, <1>3, <1>4

LEMMA ActorCharge ==
  ASSUME TypeInv, TypeInv', ClaimInv, ChargeInv, NEW d \in Acts, ActorFlow(d)
  PROVE  ChargeInv'
<1>1. /\ Steady /\ now' = now /\ (Calm' => Calm) /\ req' = req
      /\ UNCHANGED <<chain, sent, verdict>>
      /\ delivered' = delivered \/ Hand(d)
  BY ActorFlowSteady, SteadyCalm, ActorDeals DEF Steady
<1>2. \A e \in Acts \ {d} : act'[e] = act[e]
  BY RedeemType, CronType, ProbeType, JudgeType, CloseType, LoseClosedType, DropType,
     GiveType, HandType, ReconcileType, AdjustType, CrashType DEF ActorFlow, Becomes
<1>3. ASSUME NEW r \in Reqs PROVE ChargeOk(r)'
  <2>1. SUFFICES ASSUME ReadsInTime, Calm', r \in sent' PROVE ChargeOk(r)'
    BY DEF ChargeOk
  <2>2. /\ Calm /\ r \in sent /\ ChargeOk(r) /\ HoldOk(r) /\ Auth(r)' = Auth(r)
    BY <1>1, <2>1 DEF ChargeInv, ClaimInv, Auth
  <2>3. PICK a \in Auths : a = Auth(r)
    BY <2>2 DEF HoldOk, Auth
  <2>4. delivered[r] > 0 => delivered'[r] > 0
    <3>1. delivered' = delivered \/ delivered' = [delivered EXCEPT ![act[d].by] = @ + 1]
      BY <1>1 DEF Hand, Deliver
    <3> QED BY <3>1 DEF TypeInv, SeenType
  <2>5. CASE claim'[a] = claim[a]
    <3>1. ASSUME act[d].pc = "hand", act[d].by = r PROVE delivered'[r] > 0
      <4>1. Hand(d) \/ CrashAct(d)
        BY <3>1 DEF ActorFlow, Adjust, Probe, Judge, Close, LoseClosed, Drop, Give, Cron,
                    Redeem, Reconcile, Doing
      <4>2. ~CrashAct(d)
        BY <2>1, <2>2 DEF CrashAct, Die, Calm
      <4>3. delivered' = [delivered EXCEPT ![r] = @ + 1]
        BY <3>1, <4>1, <4>2 DEF Hand, Deliver
      <4> QED BY <4>3 DEF TypeInv, SeenType
    <3>2. \A e \in Acts : act[e].pc = "hand" /\ act[e].by = r /\ act[e].auth = Auth(r) =>
            \/ act'[e].pc = "hand" /\ act'[e].by = r /\ act'[e].auth = Auth(r)
            \/ delivered'[r] > 0
      BY <1>2, <3>1
    <3>3. Over(Auth(r)) => Over(Auth(r))'
      BY <1>1, <2>2 DEF Over
    <3> QED BY <1>1, <2>2, <2>3, <2>4, <2>5, <3>2, <3>3, ChargeKept
  <2>6. CASE claim'[a] # claim[a]
    <3>1. /\ claim[a].o = r /\ verdict[a] = r
      BY <2>1, <2>2, <2>3 DEF ChargeOk
    <3>2. /\ act[d].auth = a /\ claim'[a].o = claim[a].o
          /\ \/ /\ claim'[a].s = "redeemed" /\ act'[d].pc = "hand"
                /\ act'[d].by = verdict[a] /\ act'[d].auth = a
             \/ /\ claim'[a].s = "declined" /\ act[d].pc = "drop"
      BY <2>6, ActorSwaps
    <3>3. act[d].pc = "drop" => Over(a) /\ chain[a] = "unused"
      BY <2>1, <3>2 DEF ClaimInv, ActOk, Closing
    <3>4. Over(a) => Over(a)'
      BY <1>1 DEF Over
    <3>5. Auth(r)' = a
      BY <2>2, <2>3
    <3> QED BY <1>1, <3>1, <3>2, <3>3, <3>4, <3>5 DEF ChargeOk, Over
  <2> QED BY <2>5, <2>6
<1> QED BY <1>3 DEF ChargeInv

LEMMA OtherCharge ==
  ASSUME TypeInv, TypeInv', ClaimInv, ChargeInv,
         \/ UNCHANGED vars \/ Tick \/ \E r \in Reqs : TestLands(r)
         \/ \E a \in Auths : Land(a) \/ Cancel(a)
         \/ \E r \in Reqs : \E a \in Auths, rq \in Rqs : Open(r, a, rq)
  PROVE  ChargeInv'
<1>1. UNCHANGED <<claim, verdict, sent, delivered, faults, crashes>>
  BY DEF vars, Tick, TestLands, Land, Cancel, Open, store, seen, meters
<1>2. now' >= now /\ now \in Nat /\ now' \in Nat
  <2>1. now' = now \/ now' = now + 1
    BY DEF vars, Tick, TestLands, Land, Cancel, Open, meters
  <2> QED BY <2>1 DEF TypeInv, MetersType
<1>3. \A a \in Auths : Over(a) => Over(a)' /\ chain'[a] = chain[a]
  <2>1. \A a \in Auths : Over(a) => Over(a)'
    BY <1>2, SellerDdAssumption DEF Over
  <2>2. CASE \E a \in Auths : Land(a) \/ Cancel(a)
    <3>1. PICK b \in Auths : Land(b) \/ Cancel(b)
      BY <2>2
    <3>2. ~Over(b) /\ \A a \in Auths \ {b} : chain'[a] = chain[a]
      BY <1>2, <3>1, SellerDdAssumption DEF Land, Cancel, Over, TypeInv, SeenType
    <3> QED BY <2>1, <3>2
  <2>3. CASE chain' = chain
    BY <2>1, <2>3
  <2> QED BY <2>2, <2>3 DEF vars, Tick, TestLands, Open, seen
<1>4. /\ \A d \in Acts : /\ act'[d].pc = act[d].pc /\ act'[d].by = act[d].by
                         /\ act'[d].auth = act[d].auth
      /\ \A r \in sent : req'[r].auth = req[r].auth /\ req'[r].pc = req[r].pc
  <2>1. CASE \E r \in Reqs : \E a \in Auths, rq \in Rqs : Open(r, a, rq)
    <3>1. PICK r \in Reqs, a \in Auths, rq \in Rqs : Open(r, a, rq)
      BY <2>1
    <3>2. /\ req[r].pc = "new" /\ act' = act
          /\ \A q \in Reqs \ {r} : req'[q] = req[q]
      BY <3>1, OpenType DEF Open, At
    <3>3. r \notin sent
      BY <3>2 DEF ClaimInv, HoldOk, Sending
    <3> QED BY <3>2, <3>3 DEF TypeInv, SeenType
  <2>2. CASE Tick
    BY <2>2, TickType DEF TypeInv, SeenType
  <2>3. CASE req' = req /\ act' = act
    BY <2>3
  <2> QED BY <2>1, <2>2, <2>3 DEF vars, TestLands, Land, Cancel
<1>5. ASSUME NEW r \in Reqs PROVE ChargeOk(r)'
  <2>1. SUFFICES ASSUME r \in sent PROVE ChargeOk(r)'
    BY <1>1 DEF ChargeOk
  <2>2. ChargeOk(r) /\ Auth(r) \in Auths /\ Auth(r)' = Auth(r) /\ req'[r].pc = req[r].pc
    BY <1>4, <2>1 DEF ChargeInv, ClaimInv, HoldOk, Auth
  <2>3. Calm' => Calm
    BY <1>1 DEF Calm
  <2> QED BY <1>1, <1>3, <1>4, <2>1, <2>2, <2>3, ChargeKept
<1> QED BY <1>5 DEF ChargeInv

LEMMA ChargeNext ==
  /\ TypeInv /\ TypeInv' /\ LedgerInv /\ ClaimInv /\ ClaimInv' /\ ChargeInv
  /\ [Next]_vars
  => ChargeInv'
  BY FlowCharge, ActorCharge, OtherCharge DEF Next, ActorFlow

LEMMA ChargeHolds == Spec => [](MoneyInv /\ ClaimInv /\ ChargeInv)
<1>1. Init => ChargeInv
  BY DEF Init, ChargeInv, ChargeOk
<1>2. /\ MoneyInv /\ ClaimInv /\ ChargeInv /\ MoneyInv' /\ ClaimInv' /\ [Next]_vars
      => ChargeInv'
  BY ChargeNext DEF MoneyInv
<1> QED BY <1>1, <1>2, MoneyClaimHolds, PTL DEF Spec

\* handler.ts:220: what can be redeemed has its verdict, for the same request, with
\* its receipt, whatever fails or dies.
LEMMA Redeemable == ClaimInv => RedeemableCached
<1> SUFFICES ASSUME ClaimInv, NEW a \in Auths, claim[a].s = "unconfirmed"
             PROVE  /\ verdict[a] # None /\ verdict[a] \in logged
                    /\ claim[a].rq = req[verdict[a]].rq
  BY DEF RedeemableCached
<1>1. /\ claim[a].o \in sent /\ claim[a].o \in Reqs /\ verdict[a] = claim[a].o
      /\ claim[a].rq = req[claim[a].o].rq
  BY DEF ClaimInv, ClaimOk
<1> QED BY <1>1, SellerDdAssumption DEF ClaimInv, HoldOk

\* handler.ts:220: when nothing fails, a buyer who was charged has the verdict or
\* can redeem it, once nobody works on the authorization; and whatever fails, what
\* its redeem needs is there.
THEOREM ChargedCanRedeem ==
  ASSUME ReadsInTime
  PROVE  Spec => []ChargedRedeemable
<1>1. MoneyInv /\ ClaimInv /\ ChargeInv => ChargedRecoverable
  <2> SUFFICES ASSUME MoneyInv, ClaimInv, ChargeInv, NEW a \in Auths, chain[a] = "paid",
                      QuietFor(a), ~Trouble
               PROVE  \/ claim[a].s = "unconfirmed"
                      \/ \E r \in Reqs : Auth(r) = a /\ delivered[r] > 0
    BY DEF ChargedRecoverable
  <2>1. PICK r \in Reqs : r \in sent /\ Auth(r) = a
    BY DEF ClaimInv, ClaimOk, MoneyInv, TypeInv, SeenType
  <2>2. Calm
    BY DEF Trouble, Calm, MoneyInv, TypeInv, MetersType
  <2>3. req[r].pc = "end" /\ \A d \in Acts : act[d].auth # a
    BY <2>1 DEF QuietFor, Ended, At
  <2> QED BY <2>1, <2>2, <2>3 DEF ChargeInv, ChargeOk
<1>2. MoneyInv /\ ClaimInv /\ ChargeInv => ChargedRedeemable
  BY <1>1, Redeemable DEF ChargedRedeemable
<1> QED BY <1>2, ChargeHolds, PTL

----------------------------------------------------------------------------
(* The loss ledger. *)

Through == {"decline", "end"}
\* A test payment is a loss once its request is done with it: once at most, and for
\* one that was submitted only when it is closed.
LossOk(r) ==
  LET a == Auth(r) IN
    /\ loss[r] > 0 \/ r \in lossRec => req[r].pc \in Through
    /\ loss[r] > 0 /\ r \in sent => a \in closed
    /\ faults < 2 => loss[r] <= 1
    /\ faults < 2 /\ loss[r] > 0 /\ a \in Auths /\ verdict[a] = r /\ a \in pend
         => a \in closed
\* Whoever may close an authorization finds no loss of its test payment.
LoserOk(d) ==
  LET a == act[d].auth  b == act[d].by IN
    a # None /\ b # None /\ faults < 2 =>
      /\ act[d].pc \in {"probe", "judge", "close"} /\ loss[b] > 0 => a \in closed
      /\ act[d].pc = "lose" => loss[b] = 0
AloneInv == \A d, e \in Acts :
  act[d].pc = "lose" /\ act[e].pc = "lose" /\ act[d].auth = act[e].auth => d = e
LossInv == (\A r \in Reqs : LossOk(r)) /\ (\A d \in Acts : LoserOk(d)) /\ AloneInv

\* recordLoss.
LEMMA RecordIs ==
  ASSUME TypeInv, NEW r \in Reqs, NEW b \in BOOLEAN, Lose(r, b)
  PROVE  /\ \A q \in Reqs \ {r} : loss'[q] = loss[q] /\ (q \in lossRec' <=> q \in lossRec)
         /\ r \in lossRec => r \in lossRec'
         /\ \/ loss'[r] = loss[r] /\ (r \in lossRec' => r \in lossRec) /\ Fault
            \/ /\ loss'[r] = loss[r] + 1
               /\ b /\ r \in lossRec' => r \in lossRec
               /\ Fault \/ (UNCHANGED faults /\ (b \/ r \in lossRec'))
<1>1. PICK n \in 0..2 : RecordLoss(r, b, n) /\ (Fault \/ (UNCHANGED faults /\ n = 2))
  BY DEF Lose
<1>2. loss \in [Reqs -> Int]
  BY DEF TypeInv, LedgerType
<1>3. CASE n = 0
  BY <1>1, <1>2, <1>3 DEF RecordLoss
<1>4. CASE n \in 1..2
  <2>1. loss' = [loss EXCEPT ![r] = @ + 1]
        /\ lossRec' = IF n = 2 /\ ~b THEN lossRec \cup {r} ELSE lossRec
    BY <1>1, <1>4 DEF RecordLoss
  <2> QED BY <1>1, <1>2, <1>4, <2>1
<1> QED BY <1>3, <1>4

\* Who else leaves the losses alone.
LEMMA FlowLosses ==
  ASSUME TypeInv, NEW r \in Reqs, PaidFlow(r) \/ Crash(r)
  PROVE  /\ UNCHANGED closed /\ released \subseteq released'
         /\ FailChecks(r) \/ LoseTest(r) \/ UNCHANGED losses
         /\ pend' = pend \/ (Pend(r) /\ pend' \subseteq pend \cup {Auth(r)})
         /\ verdict' = verdict
            \/ (CacheVerdict(r) /\ verdict' = [verdict EXCEPT ![Auth(r)] = r])
<1>1. CASE \/ TryClaim(r) \/ CheckNonce(r) \/ Verify(r) \/ Refuse(r) \/ Release(r)
           \/ TakeDeclineSlot(r) \/ Block(r) \/ RefuseSign(r) \/ Confirm(r)
           \/ SignerFails(r) \/ Decline(r) \/ LogReceipt(r) \/ Undo(r) \/ Settle(r)
           \/ SettleFails(r) \/ Unconfirm(r) \/ SettleOk(r) \/ RefundSlot(r) \/ Mark(r)
           \/ Crash(r)
  BY <1>1 DEF TryClaim, CheckNonce, Verify, Refuse, Release, TakeDeclineSlot, Block,
              RefuseSign, Confirm, SignerFails, Decline, LogReceipt, Undo, Settle,
              SettleFails, Unconfirm, SettleOk, RefundSlot, Mark, Crash, Die, ledger,
              booking, store
<1>2. CASE Reserve(r) \/ Sign(r) \/ FailChecks(r) \/ LoseTest(r)
  BY <1>2 DEF Reserve, Sign, FailChecks, LoseTest, booking, store
<1>3. CASE BookTest(r) \/ Unsign(r)
  BY <1>3 DEF BookTest, Book, Unsign, ReleaseUnsigned, Once, booking, store
<1>4. CASE CacheVerdict(r)
  BY <1>4 DEF CacheVerdict, Applied, Lost, ledger, booking
<1>5. CASE Pend(r)
  BY <1>5 DEF Pend, Tried, Applied, Lost, ledger, booking
<1> QED BY <1>1, <1>2, <1>3, <1>4, <1>5 DEF PaidFlow

LEMMA ActorLosses ==
  ASSUME TypeInv, NEW d \in Acts, ActorFlow(d)
  PROVE  /\ released \subseteq released' /\ closed \subseteq closed' /\ pend' \subseteq pend
         /\ LoseClosed(d) \/ Adjust(d) \/ UNCHANGED <<losses, released>>
         /\ closed' = closed \/ Close(d)
<1>1. CASE LoseClosed(d)
  BY <1>1 DEF LoseClosed, booking, store
<1>2. CASE Adjust(d)
  <2>1. released \subseteq released'
    BY <1>2, AdjustIs
  <2> QED BY <1>2, <2>1 DEF Adjust, store
<1>3. CASE Judge(d) \/ Drop(d) \/ Give(d)
  <2>1. pend' \in {pend, pend \ {act[d].auth}}
    BY <1>3, JudgeType, DropType, GiveType
  <2> QED BY <1>3, <2>1 DEF Judge, Drop, Give, ledger, booking
<1>4. CASE Close(d)
  BY <1>4, CloseType DEF Close, ledger, booking
<1>5. CASE \/ \E a \in Auths : Cron(d, a) \/ \E rq \in Rqs : Redeem(d, a, rq)
           \/ Probe(d) \/ Hand(d) \/ CrashAct(d)
  BY <1>5 DEF Cron, Redeem, Probe, Hand, CrashAct, Die, ledger, booking, store
<1>6. CASE \E r \in Reqs : Reconcile(d, r)
  BY <1>6 DEF Reconcile, booking, store
<1> QED BY <1>1, <1>2, <1>3, <1>4, <1>5, <1>6 DEF ActorFlow

LEMMA LossKept ==
  ASSUME NEW q \in Reqs, LossOk(q), Steady, TypeInv, TypeInv',
         loss'[q] <= loss[q],
         q \in lossRec' => q \in lossRec, closed \subseteq closed', Auth(q)' = Auth(q),
         req[q].pc \in Through => req'[q].pc \in Through,
         loss[q] > 0 => /\ q \in sent' => q \in sent
                        /\ verdict'[Auth(q)] = q /\ Auth(q) \in Auths =>
                             verdict[Auth(q)] = q
                        /\ verdict[Auth(q)] = q /\ Auth(q) \in pend' => Auth(q) \in pend
  PROVE  LossOk(q)'
<1>1. loss[q] \in Int /\ loss'[q] \in Int /\ (faults' < 2 => faults < 2)
  BY SteadyCalm DEF TypeInv, LedgerType
<1>2. loss'[q] > 0 => loss[q] > 0
  BY <1>1
<1> QED BY <1>1, <1>2 DEF LossOk

LEMMA FlowLoss ==
  ASSUME TypeInv, TypeInv', LedgerInv, OwedInv, ClaimInv, ClaimInv', LossInv,
         NEW r \in Reqs, PaidFlow(r) \/ Crash(r)
  PROVE  LossInv'
<1>1. /\ Steady /\ now' = now /\ act' = act /\ UNCHANGED closed /\ Auth(r) \in Auths
      /\ \A q \in Reqs : Auth(q)' = Auth(q)
      /\ \A q \in Reqs \ {r} : req'[q] = req[q]
  <2>1. PICK l : Goes(r, l)
    BY FlowDeals
  <2> QED BY <2>1, PaidFlowSteady, FlowLosses, FlowDeals, GoesIs DEF Goes, Auth, Steady
<1>2. \A q \in Reqs : loss[q] \in Nat
  BY DEF OwedInv, OwedOk, TypeInv, LedgerType
<1>3. \/ UNCHANGED losses
      \/ /\ FailChecks(r) /\ req[r].pc = "watch" /\ req'[r].pc = "decline"
         /\ \E b \in BOOLEAN : Lose(r, b)
      \/ /\ LoseTest(r) /\ req[r].pc = "lose" /\ req'[r].pc = "end" /\ Lose(r, TRUE)
  <2>1. CASE FailChecks(r)
    BY <2>1, FailChecksType, GoesIs DEF FailChecks, At
  <2>2. CASE LoseTest(r)
    BY <2>2, LoseTestType, GoesIs DEF LoseTest, At
  <2> QED BY <2>1, <2>2, FlowLosses
<1>4. \A q \in Reqs \ {r} : loss'[q] = loss[q] /\ (q \in lossRec' <=> q \in lossRec)
  BY <1>3, RecordIs DEF losses
<1>5. ASSUME NEW q \in Reqs \ {r} PROVE LossOk(q)'
  <2>1. LossOk(q) /\ loss'[q] <= loss[q] /\ (q \in sent' => q \in sent)
    <3>1. sent' = sent \/ sent' = sent \cup {r}
      BY PlainMoves
         DEF PaidFlow, PlainFlow, TryClaim, Release, SignerFails, FailChecks, Decline,
             CacheVerdict, LogReceipt, Undo, LoseTest, Settle, Unconfirm, Pend, Mark, seen
    <3> QED BY <1>2, <1>4, <3>1 DEF LossInv
  <2>2. verdict'[Auth(q)] = q /\ Auth(q) \in Auths => verdict[Auth(q)] = q
    BY FlowLosses DEF TypeInv, StoreType
  <2>3. verdict[Auth(q)] = q /\ Auth(q) \in pend' => Auth(q) \in pend
    <3>1. CASE Pend(r)
      <4>1. req[r].pc = "pend" /\ HoldOk(r)
        BY <3>1 DEF Pend, At, ClaimInv
      <4>2. verdict[Auth(r)] = r
        BY <4>1 DEF HoldOk, Sending, Auth
      <4> QED BY <4>2, FlowLosses
    <3>2. CASE ~Pend(r)
      BY <3>2, FlowLosses
    <3> QED BY <3>1, <3>2
  <2> QED BY <1>1, <1>4, <2>1, <2>2, <2>3, LossKept
<1>6. LossOk(r)'
  <2>1. LossOk(r) /\ HoldOk(r) /\ (Auth(r)' = Auth(r)) /\ (faults' < 2 => faults < 2)
    BY <1>1, SteadyCalm DEF LossInv, ClaimInv
  <2>2. CASE req[r].pc \in Through
    <3>1. Decline(r) \/ Crash(r)
      BY <2>2
         DEF PaidFlow, TryClaim, CheckNonce, Verify, Refuse, Release, TakeDeclineSlot,
             Block, Reserve, BookTest, Sign, RefuseSign, Unsign, Confirm, SignerFails,
             FailChecks, CacheVerdict, LogReceipt, Undo, LoseTest, Settle, SettleFails,
             Unconfirm, Pend, SettleOk, RefundSlot, Mark, At, Through
    <3>2. UNCHANGED <<losses, sent, verdict, pend>>
      BY <3>1 DEF Decline, Crash, Die, ledger, store, seen
    <3>3. req'[r].pc \in Through
      BY <3>1, MovesType, CrashType, GoesIs
         DEF Decline, Undo, Unconfirm, Mark, At, Through
    <3>4. loss'[r] <= loss[r] /\ (r \in lossRec' => r \in lossRec)
      BY <1>2, <3>2 DEF losses
    <3> QED BY <1>1, <2>1, <3>2, <3>3, <3>4, LossKept
  <2>3. CASE req[r].pc \notin Through
    <3>1. loss[r] = 0 /\ r \notin lossRec
      BY <1>2, <2>1, <2>3 DEF LossOk
    <3>2. CASE UNCHANGED losses
      <4>1. loss'[r] = 0 /\ r \notin lossRec'
        BY <3>1, <3>2 DEF losses
      <4> QED BY <4>1 DEF LossOk
    <3>3. CASE /\ FailChecks(r) /\ req[r].pc = "watch" /\ req'[r].pc = "decline"
               /\ \E b \in BOOLEAN : Lose(r, b)
      <4>1. loss'[r] = loss[r] \/ loss'[r] = loss[r] + 1
        BY <3>3, RecordIs
      <4>2. r \notin sent'
        BY <2>1, <3>3 DEF FailChecks, seen, HoldOk, Sending
      <4>3. verdict'[Auth(r)] # r
        <5>1. verdict'[Auth(r)] = r => req'[r].pc \in Cached
          BY <1>1, SellerDdAssumption DEF ClaimInv, ClaimOk
        <5> QED BY <3>3, <5>1 DEF Cached, Sending
      <4> QED BY <2>1, <3>1, <3>3, <4>1, <4>2, <4>3 DEF LossOk, Through
    <3>4. CASE LoseTest(r) /\ req[r].pc = "lose" /\ req'[r].pc = "end" /\ Lose(r, TRUE)
      <4>1. loss'[r] = loss[r] \/ loss'[r] = loss[r] + 1
        BY <3>4, RecordIs
      <4>2. r \notin sent'
        BY <2>1, <3>4 DEF LoseTest, seen, HoldOk, Sending
      <4>3. ~(faults' < 2 /\ Auth(r) \in pend')
        BY <2>1, <3>4, SteadyCalm DEF LoseTest, store, HoldOk, Auth, TypeInv, MetersType
      <4> QED BY <2>1, <3>1, <3>4, <4>1, <4>2, <4>3 DEF LossOk, Through
    <3> QED BY <1>3, <3>2, <3>3, <3>4
  <2> QED BY <2>2, <2>3
<1>7. ASSUME NEW e \in Acts PROVE LoserOk(e)'
  <2>0. PICK a, b : a = act[e].auth /\ b = act[e].by
    OBVIOUS
  <2>1. LoserOk(e) /\ ActOk(e) /\ act'[e] = act[e] /\ (faults' < 2 => faults < 2)
        /\ a = act[e].auth /\ b = act[e].by
    BY <1>1, <2>0, SteadyCalm DEF LossInv, ClaimInv
  <2>2. ASSUME act[e].pc \notin {"idle", "adjust"},
               b # None
        PROVE  loss'[b] = loss[b]
    <3>1. /\ a \in Auths /\ b = verdict[a] /\ ClaimOk(a)
          /\ ~act[e].cron => b \in sent
          /\ act[e].cron => Over(a)
      BY <2>1, <2>2 DEF ActOk, ClaimInv
    <3>2. b \in Reqs /\ req[b].auth = a /\ req[b].pc \in Cached /\ HoldOk(b)
      BY <2>2, <3>1 DEF ClaimOk, ClaimInv
    <3>3. req[b].pc \notin {"watch", "lose"}
      <4>1. b \in sent => req[b].pc \notin {"watch", "lose"}
        BY <3>2 DEF HoldOk, Sending
      <4>2. Over(a) => ~Busy(b)
        BY <3>1, <3>2, SellerDdAssumption DEF HoldOk, Over, Young, TypeInv, MetersType
      <4> QED BY <3>1, <4>1, <4>2 DEF Busy
    <3>4. CASE b = r
      <4>1. UNCHANGED losses
        BY <1>3, <3>3, <3>4
      <4> QED BY <4>1 DEF losses
    <3> QED BY <1>4, <3>2, <3>4
  <2> QED BY <1>1, <2>1, <2>2 DEF LoserOk
<1>8. AloneInv'
  BY <1>1 DEF LossInv, AloneInv
<1> QED BY <1>5, <1>6, <1>7, <1>8 DEF LossInv

\* Whose loss a cron pass or a redeem records: a request that is over, closed.
LEMMA LoserIs ==
  ASSUME TypeInv, ClaimInv, NEW d \in Acts, act[d].pc \notin {"idle", "adjust"},
         NEW b, b = act[d].by, b # None
  PROVE  /\ act[d].auth \in Auths /\ b \in Reqs /\ Auth(b) = act[d].auth
         /\ b = verdict[Auth(b)] /\ test[b] = "landed"
         /\ Over(Auth(b)) => req[b].pc = "end"
         /\ act[d].pc = "lose" => Over(Auth(b)) /\ Auth(b) \in closed
<1>1. ActOk(d)
  BY DEF ClaimInv
<1>2. PICK a \in Auths : a = act[d].auth
  BY <1>1 DEF ActOk
<1>3. b = verdict[a] /\ ClaimOk(a)
  BY <1>1, <1>2 DEF ActOk, ClaimInv
<1>4. /\ b \in Reqs /\ req[b].auth = a /\ req[b].pc \in Cached /\ HoldOk(b)
      /\ test[b] = "landed"
  BY <1>3 DEF ClaimOk, ClaimInv
<1>5. Over(a) => ~Busy(b)
  BY <1>4, SellerDdAssumption DEF HoldOk, Over, Young, TypeInv, MetersType
<1>6. Over(a) => req[b].pc = "end"
  BY <1>4, <1>5 DEF Busy, Cached, Sending
<1>7. act[d].pc = "lose" => Over(a) /\ a \in closed
  BY <1>1, <1>2 DEF ActOk, Closing
<1> QED BY <1>2, <1>3, <1>4, <1>6, <1>7 DEF Auth

LEMMA ActorMoves ==
  ASSUME TypeInv, NEW d \in Acts, ActorFlow(d)
  PROVE  /\ \A e \in Acts \ {d} : act'[e] = act[e]
         /\ \/ act'[d].pc \notin {"probe", "judge", "close", "lose"}
            \/ act' = act
            \/ \E a \in Auths : /\ act'[d].auth = a /\ act'[d].by = verdict[a]
                                /\ act'[d].pc = "probe"
                                /\ (a \in pend \/ claim[a].s = "unconfirmed")
            \/ /\ act'[d].auth = act[d].auth /\ act'[d].by = act[d].by
               /\ \/ act[d].pc = "probe" /\ act'[d].pc = "judge"
                  \/ act[d].pc = "judge" /\ act'[d].pc = "close"
                  \/ /\ Close(d) /\ act[d].pc = "close" /\ act'[d].pc = "lose"
                     /\ act[d].auth \notin closed
<1>0. act[d] \in Actor /\ Idle.pc = "idle"
  BY DEF TypeInv, ActorsType, Idle
<1>1. CASE Hand(d) \/ CrashAct(d) \/ Adjust(d) \/ Drop(d)
  BY <1>0, <1>1, HandType, CrashType, AdjustType, DropType DEF Becomes
<1>2. CASE LoseClosed(d) \/ Give(d)
  BY <1>0, <1>2, LoseClosedType, GiveType DEF Becomes, Actor
<1>3. CASE Probe(d)
  BY <1>0, <1>3, ProbeType DEF Becomes, Actor, Probe, Doing
<1>4. CASE Judge(d)
  BY <1>0, <1>4, JudgeType DEF Becomes, Actor, Judge, Doing
<1>5. CASE Close(d)
  BY <1>0, <1>5, CloseType DEF Becomes, Actor, Close, Doing
<1>6. CASE \E a \in Auths : Cron(d, a)
  <2>1. PICK a \in Auths : Cron(d, a)
    BY <1>6
  <2>2. /\ \A e \in Acts \ {d} : act'[e] = act[e]
        /\ act'[d].auth = a /\ act'[d].by = verdict[a] /\ act'[d].pc = "probe"
    <3>1. Becomes(d, [Idle EXCEPT !.pc = "probe", !.auth = a, !.by = verdict[a],
                                  !.cron = TRUE])
      BY <2>1, CronType
    <3> QED BY <3>1 DEF Becomes, Idle
  <2>3. a \in pend
    BY <2>1 DEF Cron
  <2> QED BY <2>2, <2>3
<1>7. CASE \E a \in Auths : \E rq \in Rqs : Redeem(d, a, rq)
  <2>1. PICK a \in Auths, rq \in Rqs : Redeem(d, a, rq)
    BY <1>7
  <2>2. /\ \A e \in Acts \ {d} : act'[e] = act[e]
        /\ act'[d].auth = a /\ act'[d].by = verdict[a] /\ act'[d].pc = "probe"
    <3>1. Becomes(d, [Idle EXCEPT !.pc = "probe", !.auth = a, !.by = verdict[a]])
      BY <2>1, RedeemType
    <3> QED BY <3>1 DEF Becomes, Idle
  <2>3. claim[a].s = "unconfirmed"
    BY <2>1 DEF Redeem
  <2> QED BY <2>2, <2>3
<1>8. CASE \E r \in Reqs : Reconcile(d, r)
  <2>1. PICK r \in Reqs : Reconcile(d, r)
    BY <1>8
  <2>2. \/ UNCHANGED act
        \/ act'[d].pc = "adjust" /\ \A e \in Acts \ {d} : act'[e] = act[e]
    <3>1. \/ UNCHANGED act
          \/ Becomes(d, [Idle EXCEPT !.pc = "adjust", !.by = r, !.used = act'[d].used])
      BY <2>1, ReconcileType
    <3>2. CASE Becomes(d, [Idle EXCEPT !.pc = "adjust", !.by = r,
                                       !.used = act'[d].used])
      BY <3>2 DEF Becomes, Idle
    <3> QED BY <3>1, <3>2
  <2> QED BY <2>2
<1> QED BY <1>1, <1>2, <1>3, <1>4, <1>5, <1>6, <1>7, <1>8 DEF ActorFlow

LEMMA ActorLoss ==
  ASSUME TypeInv, TypeInv', OwedInv, ClaimInv, LossInv, NEW d \in Acts, ActorFlow(d)
  PROVE  LossInv'
<1>1. /\ Steady /\ req' = req /\ UNCHANGED <<sent, verdict>>
      /\ \A q \in Reqs : Auth(q)' = Auth(q)
      /\ closed \subseteq closed' /\ pend' \subseteq pend
      /\ faults' < 2 => faults < 2
  BY ActorFlowSteady, SteadyCalm, ActorDeals, ActorLosses DEF Auth
<1>2. \A q \in Reqs : loss[q] \in Nat
  BY DEF OwedInv, OwedOk, TypeInv, LedgerType
\* Only a closed payment's loss grows, and only of one.
<1>3. \A q \in Reqs : q \in lossRec' => q \in lossRec
  <2>1. CASE LoseClosed(d)
    BY <2>1, LoseClosedType, RecordIs DEF losses
  <2>2. CASE Adjust(d)
    BY <2>2, AdjustIs DEF ReleaseLoss, losses
  <2> QED BY <2>1, <2>2, ActorLosses DEF losses
<1>4. \A q \in Reqs : \/ loss'[q] <= loss[q]
                      \/ /\ act[d].pc = "lose" /\ act[d].by = q
                         /\ loss'[q] = loss[q] + 1
  <2>1. CASE LoseClosed(d)
    <3>1. act[d].pc = "lose"
      BY <2>1 DEF LoseClosed, Doing
    <3>2. CASE UNCHANGED losses
      BY <1>2, <3>2 DEF losses
    <3>3. CASE act[d].by \in Reqs /\ Lose(act[d].by, TRUE)
      <4>1. PICK b \in Reqs : b = act[d].by /\ Lose(b, TRUE)
        BY <3>3
      <4>2. /\ \A q \in Reqs \ {b} : loss'[q] = loss[q]
            /\ loss'[b] = loss[b] \/ loss'[b] = loss[b] + 1
        BY <4>1, RecordIs
      <4> QED BY <1>2, <3>1, <4>1, <4>2
    <3> QED BY <2>1, <3>2, <3>3, LoseClosedType
  <2>2. CASE Adjust(d)
    <3>1. PICK r \in Reqs : r = act[d].by
      BY <2>2, AdjustIs
    <3>2. UNCHANGED losses \/ \E n \in 0..2 : ReleaseLoss(r, n)
      BY <2>2, <3>1, AdjustIs
    <3>3. loss' = loss \/ loss' = [loss EXCEPT ![r] = @ - 1]
      BY <3>2 DEF ReleaseLoss, losses
    <3>4. loss \in [Reqs -> Int]
      BY DEF TypeInv, LedgerType
    <3> QED BY <1>2, <3>1, <3>3, <3>4
  <2>3. CASE UNCHANGED losses
    BY <1>2, <2>3 DEF losses
  <2> QED BY <2>1, <2>2, <2>3, ActorLosses DEF losses
<1>5. ASSUME NEW q \in Reqs PROVE LossOk(q)'
  <2>1. LossOk(q)
    BY DEF LossInv
  <2>2. CASE loss'[q] <= loss[q]
    BY <1>1, <1>3, <2>1, <2>2, LossKept
  <2>3. CASE act[d].pc = "lose" /\ act[d].by = q /\ loss'[q] = loss[q] + 1
    <3>1. /\ req[q].pc = "end" /\ Auth(q) \in closed /\ act[d].auth \in Auths
      BY <2>3, LoserIs, SellerDdAssumption
    <3>2. faults < 2 => loss[q] = 0
      BY <2>3, <3>1, SellerDdAssumption DEF LossInv, LoserOk
    <3> QED BY <1>1, <2>1, <2>3, <3>1, <3>2 DEF LossOk, Through
  <2> QED BY <1>4, <2>2, <2>3
<1>6. ASSUME NEW e \in Acts \ {d} PROVE LoserOk(e)'
  <2>0. PICK a, b : a = act[e].auth /\ b = act[e].by
    OBVIOUS
  <2>1. LoserOk(e) /\ ActOk(e) /\ act'[e] = act[e] /\ act[e] \in Actor
        /\ a = act[e].auth /\ b = act[e].by
    BY <2>0, ActorMoves DEF LossInv, ClaimInv, TypeInv, ActorsType
  <2>2. CASE loss'[b] <= loss[b]
    <3>1. b # None => b \in Reqs
      BY <2>1 DEF Actor
    <3>2. b # None => loss'[b] \in Nat /\ loss[b] \in Nat
      <4>1. OwedInv'
        BY OwedNext DEF Next, ActorFlow
      <4> QED BY <1>2, <3>1, <4>1 DEF OwedInv, OwedOk, TypeInv, LedgerType
    <3> QED BY <1>1, <2>1, <2>2, <3>2 DEF LoserOk
  <2>3. CASE b # None /\ act[e].pc \in {"probe", "judge", "close", "lose"}
             /\ act[d].pc = "lose" /\ act[d].by = b
    <3>1. Auth(b) = act[d].auth /\ Auth(b) = a /\ a \in closed
      BY <2>1, <2>3, LoserIs
    <3>2. act[e].pc # "lose"
      BY <2>1, <2>3, <3>1 DEF LossInv, AloneInv
    <3> QED BY <1>1, <2>1, <2>3, <3>1, <3>2 DEF LoserOk
  <2>4. CASE b = None \/ act[e].pc \notin {"probe", "judge", "close", "lose"}
    BY <2>1, <2>4 DEF LoserOk
  <2>5. b # None => b \in Reqs
    BY <2>1 DEF Actor
  <2> QED BY <1>4, <2>2, <2>3, <2>4, <2>5
<1>7. LoserOk(d)'
  <2>1. LoserOk(d) /\ ActOk(d)
    BY DEF LossInv, ClaimInv
  <2>2. CASE act'[d].pc \notin {"probe", "judge", "close", "lose"}
    BY <2>2 DEF LoserOk
  <2>3. ASSUME act[d].pc # "lose", UNCHANGED losses,
               act'[d].auth = act[d].auth, act'[d].by = act[d].by,
               \/ act'[d].pc = act[d].pc
               \/ act'[d].pc = "judge" /\ act[d].pc = "probe"
               \/ act'[d].pc = "close" /\ act[d].pc = "judge"
        PROVE  LoserOk(d)'
    BY <1>1, <2>1, <2>3 DEF LoserOk, losses
  <2>4. act[d].pc \in {"idle", "probe", "judge", "close"} => UNCHANGED losses
    BY ActorLosses DEF LoseClosed, Adjust, Doing
  <2>5. CASE act' = act
    <3>1. ~LoseClosed(d)
      BY <2>5, LoseClosedType DEF LoseClosed, Doing, Becomes, TypeInv, ActorsType, Actor
    <3>2. ~Adjust(d)
      BY <2>5, AdjustIs DEF Becomes, Idle
    <3>3. UNCHANGED losses
      BY <3>1, <3>2, ActorLosses
    <3> QED BY <1>1, <2>1, <2>5, <3>3 DEF LoserOk, losses
  <2>6. CASE \E a \in Auths : /\ act'[d].auth = a /\ act'[d].by = verdict[a]
                              /\ act'[d].pc = "probe"
                              /\ (a \in pend \/ claim[a].s = "unconfirmed")
    <3>1. PICK a \in Auths : /\ act'[d].auth = a /\ act'[d].by = verdict[a]
                             /\ act'[d].pc = "probe"
                             /\ (a \in pend \/ claim[a].s = "unconfirmed")
      BY <2>6
    <3>2. UNCHANGED losses
      <4>1. ~LoseClosed(d)
        BY <3>1, LoseClosedType DEF Becomes, TypeInv, ActorsType, Actor
      <4>2. ~Adjust(d)
        BY <3>1, AdjustIs DEF Becomes, Idle
      <4> QED BY <4>1, <4>2, ActorLosses
    <3>3. PICK b : b = verdict[a]
      OBVIOUS
    <3>4. b # None => /\ b \in Reqs /\ Auth(b) = a
                      /\ claim[a].s = "unconfirmed" => b \in sent
      BY <3>3 DEF ClaimInv, ClaimOk, Auth
    <3>5. b # None /\ faults < 2 /\ loss[b] > 0 => a \in closed
      BY <3>1, <3>3, <3>4 DEF LossInv, LossOk
    <3> QED BY <1>1, <3>1, <3>2, <3>3, <3>5 DEF LoserOk, losses
  <2>7. CASE /\ act'[d].auth = act[d].auth /\ act'[d].by = act[d].by
             /\ \/ act[d].pc = "probe" /\ act'[d].pc = "judge"
                \/ act[d].pc = "judge" /\ act'[d].pc = "close"
    BY <2>3, <2>4, <2>7
  <2>8. CASE /\ act'[d].auth = act[d].auth /\ act'[d].by = act[d].by
             /\ act[d].pc = "close" /\ act'[d].pc = "lose"
             /\ act[d].auth \notin closed
    <3>1. PICK a, b : a = act[d].auth /\ b = act[d].by
      OBVIOUS
    <3>2. b # None => b \in Reqs
      BY <3>1 DEF TypeInv, ActorsType, Actor
    <3>3. a # None /\ b # None /\ faults < 2 => loss[b] = 0
      BY <1>2, <2>1, <2>8, <3>1, <3>2 DEF LoserOk
    <3> QED BY <1>1, <2>4, <2>8, <3>1, <3>3 DEF LoserOk, losses
  <2> QED BY <2>2, <2>5, <2>6, <2>7, <2>8, ActorMoves
<1>8. AloneInv'
  <2>1. ASSUME NEW e \in Acts \ {d}, act'[d].pc = "lose", act[e].pc = "lose",
               act'[d].auth = act[e].auth
        PROVE  FALSE
    <3>1. CASE act' = act
      BY <2>1, <3>1 DEF LossInv, AloneInv
    <3>2. CASE act[d].auth = act'[d].auth /\ act[d].auth \notin closed
      BY <2>1, <3>2 DEF ClaimInv, ActOk
    <3> QED BY <2>1, <3>1, <3>2, ActorMoves
  <2> QED BY <2>1, ActorMoves DEF LossInv, AloneInv
<1> QED BY <1>5, <1>6, <1>7, <1>8 DEF LossInv

LEMMA OtherLoss ==
  ASSUME TypeInv, TypeInv', OwedInv, ClaimInv, LossInv,
         \/ UNCHANGED vars \/ Tick \/ \E r \in Reqs : TestLands(r)
         \/ \E a \in Auths : Land(a) \/ Cancel(a)
         \/ \E r \in Reqs : \E a \in Auths, rq \in Rqs : Open(r, a, rq)
  PROVE  LossInv'
<1>1. UNCHANGED <<losses, sent, verdict, pend, closed, faults>>
  BY DEF vars, Tick, TestLands, Land, Cancel, Open, ledger, store, seen, meters
<1>2. /\ \A d \in Acts : /\ act'[d].pc = act[d].pc /\ act'[d].by = act[d].by
                         /\ act'[d].auth = act[d].auth
      /\ \A r \in Reqs : \/ req'[r].auth = req[r].auth /\ req'[r].pc = req[r].pc
                         \/ req[r].pc = "new"
  <2>1. CASE \E r \in Reqs : \E a \in Auths, rq \in Rqs : Open(r, a, rq)
    BY <2>1, OpenType DEF Open, At
  <2>2. CASE Tick
    BY <2>2, TickType
  <2>3. CASE req' = req /\ act' = act
    BY <2>3
  <2> QED BY <2>1, <2>2, <2>3 DEF vars, TestLands, Land, Cancel
<1>3. ASSUME NEW r \in Reqs PROVE LossOk(r)'
  <2>1. LossOk(r)
    BY DEF LossInv
  <2>2. CASE req'[r].auth = req[r].auth /\ req'[r].pc = req[r].pc
    BY <1>1, <2>1, <2>2 DEF LossOk, Auth, losses
  <2>3. CASE req[r].pc = "new"
    <3>1. ~(loss[r] > 0) /\ r \notin lossRec
      BY <2>1, <2>3 DEF LossOk, Through
    <3>2. ~(loss'[r] > 0) /\ r \notin lossRec' /\ (faults' < 2 => loss'[r] <= 1)
      BY <1>1, <2>1, <3>1 DEF losses, LossOk
    <3> QED BY <3>2 DEF LossOk
  <2> QED BY <1>2, <2>2, <2>3
<1>4. ASSUME NEW d \in Acts PROVE LoserOk(d)'
  BY <1>1, <1>2 DEF LossInv, LoserOk, losses
<1>5. AloneInv'
  BY <1>2 DEF LossInv, AloneInv
<1> QED BY <1>3, <1>4, <1>5 DEF LossInv

LEMMA LossNext ==
  /\ TypeInv /\ TypeInv' /\ LedgerInv /\ OwedInv /\ ClaimInv /\ ClaimInv' /\ LossInv
  /\ [Next]_vars
  => LossInv'
  BY FlowLoss, ActorLoss, OtherLoss DEF Next, ActorFlow


LEMMA FaultNext == TypeInv /\ [Next]_vars => faults' = faults \/ Fault
<1> SUFFICES ASSUME TypeInv, [Next]_vars PROVE faults' = faults \/ Fault
  OBVIOUS
<1>1. ASSUME NEW r \in Reqs, PaidFlow(r) PROVE faults' = faults \/ Fault
  BY <1>1
     DEF PaidFlow, CheckNonce, Verify, Refuse, Block, RefuseSign, Confirm, SettleOk, Sign,
         SignerFails, Settle, meters, TryClaim, Release, TakeDeclineSlot, Reserve, BookTest,
         Unsign, FailChecks, LoseTest, Lose, Decline, Undo, Unconfirm, Mark, Move,
         CacheVerdict, LogReceipt, SettleFails, Pend, RefundSlot, Tried, Applied, Lost
<1>2. ASSUME NEW d \in Acts, ActorFlow(d) PROVE faults' = faults \/ Fault
  BY <1>2
     DEF ActorFlow, Cron, Redeem, Probe, meters, Reconcile, Adjust, Judge, Close,
         LoseClosed, Lose, Drop, Give, Hand, CrashAct, Die, Tried, Applied, Lost
<1>3. CASE \/ UNCHANGED vars \/ Tick \/ \E a \in Auths : Land(a) \/ Cancel(a)
           \/ \E r \in Reqs : \/ \E a \in Auths, rq \in Rqs : Open(r, a, rq)
                              \/ Crash(r) \/ TestLands(r)
  BY <1>3 DEF vars, Tick, Land, Cancel, Open, Crash, Die, TestLands, meters
<1> QED BY <1>1, <1>2, <1>3 DEF Next, ActorFlow

\* As many store errors as the bound allows.
FaultsInv == faults <= MaxFaults
LEMMA LossHolds == Spec => [](MoneyInv /\ ClaimInv /\ LossInv /\ FaultsInv)
<1>1. Init => LossInv /\ FaultsInv
  <2> SUFFICES ASSUME Init PROVE LossInv /\ FaultsInv
    OBVIOUS
  <2>1. /\ lossRec = {} /\ faults = 0 /\ \A r \in Reqs : loss[r] = 0
        /\ \A d \in Acts : act[d].auth = None /\ act[d].pc = "idle"
    BY DEF Init, CapsInit, Idle
  <2>2. LossInv
    BY <2>1 DEF LossInv, LossOk, LoserOk, AloneInv
  <2>3. FaultsInv
    BY <2>1, SellerDdAssumption DEF FaultsInv
  <2> QED BY <2>2, <2>3
<1>2. /\ MoneyInv /\ ClaimInv /\ LossInv /\ FaultsInv /\ MoneyInv' /\ ClaimInv'
      /\ [Next]_vars
      => LossInv' /\ FaultsInv'
  <2> SUFFICES ASSUME MoneyInv, ClaimInv, LossInv, FaultsInv, MoneyInv', ClaimInv',
                      [Next]_vars
               PROVE  LossInv' /\ FaultsInv'
    OBVIOUS
  <2>1. LossInv'
    BY LossNext DEF MoneyInv
  <2>2. faults \in Nat /\ MaxFaults \in Nat
    BY SellerDdAssumption DEF MoneyInv, TypeInv, MetersType
  <2>3. FaultsInv'
    BY <2>2, FaultNext DEF FaultsInv, Fault, MoneyInv
  <2> QED BY <2>1, <2>3
<1> QED BY <1>1, <1>2, MoneyClaimHolds, PTL DEF Spec

\* handler.ts:272: with one store error at most, the loss of a test payment is on the
\* books once at most, and never with the buyer's payment for it.
LEMMA LossIsOnce ==
  ASSUME ReadsInTime, MaxFaults <= 1
  PROVE  Spec => []LossOnce
<1>1. MoneyInv /\ ClaimInv /\ LossInv /\ FaultsInv => LossOnce
  <2> SUFFICES ASSUME MoneyInv, ClaimInv, LossInv, FaultsInv, NEW r \in Reqs
               PROVE  /\ loss[r] <= 1
                      /\ loss[r] = 1 /\ r \in sent => chain[Auth(r)] # "paid"
    BY DEF LossOnce
  <2>1. faults < 2 /\ LossOk(r) /\ HoldOk(r)
    BY SellerDdAssumption DEF FaultsInv, MoneyInv, TypeInv, MetersType, LossInv, ClaimInv
  <2>2. loss[r] <= 1
    BY <2>1 DEF LossOk
  <2>3. ASSUME loss[r] = 1, r \in sent PROVE chain[Auth(r)] # "paid"
    <3>1. Auth(r) \in closed /\ Auth(r) \in Auths
      BY <2>1, <2>3 DEF LossOk, HoldOk, Auth
    <3> QED BY <3>1 DEF ClaimInv, ClaimOk
  <2> QED BY <2>2, <2>3
<1> QED BY <1>1, LossHolds, PTL

----------------------------------------------------------------------------
(* What is on the books when nothing fails. *)

\* A request that is over without having submitted has its test payment on the books,
\* unless it was given back; one that was submitted and closed has it too, or the one
\* who closed it is about to write it.
BookedOk(r) ==
  ReadsInTime /\ Calm /\ r \notin unsigned =>
    /\ req[r].pc \in Through /\ r \notin sent =>
         /\ test[r] = "landed" => loss[r] = 1
         /\ test[r] = "signed" /\ r \notin released => r \in lossRec /\ loss[r] = 1
         /\ test[r] = "signed" /\ r \in released => loss[r] = 0
    /\ r \in sent /\ Auth(r) \in closed =>
         loss[r] = 1 \/ \E d \in Acts : act[d].pc = "lose" /\ act[d].by = r
BookedInv == \A r \in Reqs : BookedOk(r)

LEMMA BookedKept ==
  ASSUME NEW q \in Reqs, BookedOk(q), Calm' => Calm, Auth(q)' = Auth(q),
         q \in unsigned => q \in unsigned',
         q \in sent' <=> q \in sent,
         test'[q] = test[q], loss'[q] = loss[q],
         q \in lossRec' <=> q \in lossRec, q \in released' <=> q \in released,
         req'[q].pc \in Through => req[q].pc \in Through,
         Auth(q) \in closed' => Auth(q) \in closed,
         Calm' => \A d \in Acts : act[d].pc = "lose" /\ act[d].by = q =>
                    act'[d].pc = "lose" /\ act'[d].by = q
  PROVE  BookedOk(q)'
  BY DEF BookedOk

\* A request's own step leaves the others' test payments alone.
LEMMA FlowApart ==
  ASSUME TypeInv, NEW r \in Reqs, PaidFlow(r) \/ Crash(r), NEW q \in Reqs \ {r}
  PROVE  /\ test'[q] = test[q] /\ (q \in released' <=> q \in released)
         /\ (q \in sent' <=> q \in sent)
         /\ q \in unsigned => q \in unsigned'
         /\ loss'[q] = loss[q] /\ (q \in lossRec' <=> q \in lossRec)
<1>1. test'[q] = test[q] /\ (q \in released' <=> q \in released)
  <2>1. CASE Sign(r)
    BY <2>1 DEF Sign, SignTest, booking, TypeInv, LedgerType
  <2>2. CASE Unsign(r)
    BY <2>2 DEF Unsign, ReleaseUnsigned, Once, booking, pays
  <2>3. CASE BookTest(r)
    BY <2>3 DEF BookTest, Book, pays
  <2>4. CASE ~(Sign(r) \/ Unsign(r) \/ BookTest(r))
    BY <2>4
       DEF PaidFlow, TryClaim, CheckNonce, Verify, Refuse, Release, TakeDeclineSlot,
           Block, Reserve, RefuseSign, Confirm, SignerFails, FailChecks, Decline,
           CacheVerdict, LogReceipt, Undo, LoseTest, Settle, SettleFails, Unconfirm, Pend,
           SettleOk, RefundSlot, Mark, Crash, Die, ledger, booking, pays
  <2> QED BY <2>1, <2>2, <2>3, <2>4
<1>2. /\ sent' \in {sent, sent \cup {r}} /\ unsigned' \in {unsigned, unsigned \cup {r}}
  BY DEF PaidFlow, TryClaim, CheckNonce, Verify, Refuse, Release, TakeDeclineSlot, Block,
         Reserve, BookTest, Sign, RefuseSign, Unsign, Confirm, SignerFails, FailChecks,
         Decline, CacheVerdict, LogReceipt, Undo, LoseTest, Settle, SettleFails, Unconfirm,
         Pend, SettleOk, RefundSlot, Mark, Crash, Die, seen
<1>3. loss'[q] = loss[q] /\ (q \in lossRec' <=> q \in lossRec)
  <2>1. CASE UNCHANGED losses
    BY <2>1 DEF losses
  <2>2. CASE \E b \in BOOLEAN : Lose(r, b)
    BY <2>2, RecordIs
  <2> QED BY <2>1, <2>2, FlowLosses DEF FailChecks, LoseTest
<1> QED BY <1>1, <1>2, <1>3

LEMMA NoFault ==
  ASSUME TypeInv, Calm, Calm'
  PROVE  ~Fault /\ UNCHANGED <<faults, crashes>>
  BY DEF Calm, Fault

LEMMA FlowBooked ==
  ASSUME TypeInv, TypeInv', LedgerInv, OwedInv, ClaimInv, ClaimInv', LossInv, BookedInv,
         NEW r \in Reqs, PaidFlow(r) \/ Crash(r)
  PROVE  BookedInv'
<1>1. /\ (Calm' => Calm) /\ act' = act /\ UNCHANGED closed /\ Auth(r) \in Auths
      /\ \A q \in Reqs : Auth(q)' = Auth(q)
      /\ \A q \in Reqs \ {r} : req'[q] = req[q]
  <2>1. PICK l : Goes(r, l)
    BY FlowDeals
  <2> QED BY <2>1, PaidFlowSteady, SteadyCalm, FlowLosses, FlowDeals, GoesIs DEF Goes, Auth
<1>2. ASSUME NEW q \in Reqs \ {r} PROVE BookedOk(q)'
  <2>1. BookedOk(q)
    BY DEF BookedInv
  <2> QED BY <1>1, <2>1, FlowApart, BookedKept
<1>3. BookedOk(r)'
  <2>1. SUFFICES ASSUME ReadsInTime, Calm', r \notin unsigned' PROVE BookedOk(r)'
    BY DEF BookedOk
  <2>2. /\ Calm /\ ~Fault /\ UNCHANGED <<faults, crashes>>
        /\ BookedOk(r) /\ HoldOk(r) /\ HoldOk(r)' /\ TestOk(r) /\ LossOk(r)
    BY <1>1, <2>1, NoFault DEF BookedInv, ClaimInv, LedgerInv, LossInv
  <2>3. ~Crash(r)
    BY <2>2 DEF Crash, Die, TypeInv, MetersType
  <2>4. faults = 0 /\ req[r].pc \notin {"undo", "lose"}
    BY <2>2 DEF Calm, HoldOk
  <2>5. CASE req[r].pc \in Through
    <3>1. Decline(r)
      BY <2>3, <2>5
         DEF PaidFlow, TryClaim, CheckNonce, Verify, Refuse, Release, TakeDeclineSlot,
             Block, Reserve, BookTest, Sign, RefuseSign, Unsign, Confirm, SignerFails,
             FailChecks, CacheVerdict, LogReceipt, Undo, LoseTest, Settle, SettleFails,
             Unconfirm, Pend, SettleOk, RefundSlot, Mark, At, Through
    <3>2. /\ UNCHANGED <<test, loss, lossRec, released, unsigned, sent>>
          /\ req[r].pc = "decline"
      BY <3>1 DEF Decline, At, ledger, booking, losses, pays, seen
    <3> QED BY <1>1, <2>2, <2>5, <3>2, BookedKept
  <2>6. CASE req[r].pc \notin Through
    <3>1. ASSUME req'[r].pc \in Through, r \notin sent'
          PROVE  test'[r] = "none" \/ FailChecks(r)
      <4>1. CASE PlainFlow(r)
        <5>1. PICK l : Goes(r, l) /\ PlainMove(r, l)
          BY <4>1, PlainMoves
        <5>2. l \in Through /\ req[r].pc \in Before /\ l = "decline"
          <6>1. req'[r].pc = l
            BY <5>1, GoesIs
          <6>2. ~(crashes' > crashes)
            BY <2>2 DEF TypeInv, MetersType
          <6> QED BY <3>1, <5>1, <6>1, <6>2 DEF PlainMove, Through, Onward
        <5>3. req[r].pc \in Fore \cup Reserving
          BY <5>2 DEF Before, Fore, Early, Reserving
        <5>4. test[r] = "none"
          BY <2>2, <5>3 DEF TestOk, Reserving
        <5>5. ~Sign(r)
          BY <5>2, <5>1, SignType, GoesIs
        <5>6. test'[r] = test[r]
          BY <4>1, <5>5
             DEF PlainFlow, CheckNonce, Verify, Refuse, TakeDeclineSlot, Block, Reserve,
                 BookTest, RefuseSign, Unsign, Confirm, SettleFails, SettleOk, RefundSlot,
                 Crash, Die, ledger, pays
        <5> QED BY <5>4, <5>6
      <4>2. CASE TryClaim(r) \/ Release(r)
        <5>1. req[r].pc \in Fore /\ UNCHANGED test
          BY <4>2 DEF TryClaim, Release, At, Fore, Early, ledger, pays
        <5> QED BY <2>2, <5>1 DEF TestOk
      <4>3. CASE CacheVerdict(r) \/ LogReceipt(r)
        <5>1. req'[r].pc \in {"log", "settle", "undo"}
          BY <4>3, CacheType, LogType, GoesIs
        <5> QED BY <3>1, <5>1 DEF Through
      <4>4. CASE Settle(r) \/ Unconfirm(r)
        <5>1. req'[r].pc \in {"asked", "pend"}
          BY <4>4, SettleType, MovesType, GoesIs DEF Decline, Undo, Unconfirm, Mark, At
        <5> QED BY <3>1, <5>1 DEF Through
      <4>5. CASE Pend(r) \/ Mark(r)
        <5>1. r \in sent /\ UNCHANGED sent
          BY <2>2, <4>5 DEF Pend, Mark, At, HoldOk, Sending, seen
        <5> QED BY <3>1, <5>1
      <4>6. CASE SignerFails(r)
        BY <2>1, <4>6 DEF SignerFails
      <4>7. ~(Undo(r) \/ LoseTest(r) \/ Decline(r))
        BY <2>4, <2>6 DEF Undo, LoseTest, Decline, At, Through
      <4> QED BY <2>3, <4>1, <4>2, <4>3, <4>4, <4>5, <4>6, <4>7 DEF PaidFlow, PlainFlow
    <3>2. CASE FailChecks(r)
      <4>1. /\ req[r].pc = "watch" /\ UNCHANGED <<test, released, sent>>
            /\ \/ test[r] = "landed" /\ Lose(r, TRUE)
               \/ Lose(r, FALSE)
        BY <3>2 DEF FailChecks, At, booking, pays, seen
      <4>2. loss[r] = 0 /\ r \notin released
        <5>1. loss[r] = 0
          BY <2>2, <2>6 DEF LossOk, OwedInv, OwedOk, TypeInv, LedgerType
        <5>2. test[r] # "none" /\ now < expires[r]
          BY <2>2, <4>1 DEF TestOk, Reserving, Young
        <5>3. CanLand(r)
          BY <5>2 DEF CanLand, TypeInv, LedgerType
        <5> QED BY <2>2, <5>1, <5>3 DEF TestOk
      <4>3. loss'[r] = 1 /\ (test[r] = "landed" \/ r \in lossRec')
        <5>1. CASE test[r] = "landed" /\ Lose(r, TRUE)
          <6>1. PICK b \in BOOLEAN : b /\ Lose(r, b)
            BY <5>1
          <6>2. loss'[r] = loss[r] + 1
            BY <2>2, <6>1, RecordIs
          <6> QED BY <4>2, <5>1, <6>2
        <5>2. CASE Lose(r, FALSE)
          <6>1. PICK b \in BOOLEAN : ~b /\ Lose(r, b)
            BY <5>2
          <6>2. loss'[r] = loss[r] + 1 /\ r \in lossRec'
            BY <2>2, <6>1, RecordIs
          <6> QED BY <4>2, <6>2
        <5> QED BY <4>1, <5>1, <5>2
      <4>4. r \notin sent'
        BY <2>2, <4>1 DEF HoldOk, Sending
      <4> QED BY <4>1, <4>2, <4>3, <4>4 DEF BookedOk
    <3>3. CASE ~FailChecks(r)
      <4>1. UNCHANGED losses
        BY <2>4, <3>3, FlowLosses DEF LoseTest, At
      <4>2. ASSUME r \in sent', Auth(r) \in closed
            PROVE  r \in sent
        <5>1. CASE Settle(r)
          <6>1. Over(Auth(r)) /\ Busy(r) /\ Young(r, ValidBefore[Auth(r)])
            BY <1>1, <2>2, <4>2, <5>1
               DEF ClaimInv, ClaimOk, Settle, At, Busy, HoldOk, Auth
          <6> QED BY <1>1, <6>1, SellerDdAssumption DEF Over, Young, TypeInv, MetersType
        <5>2. CASE ~Settle(r)
          <6>1. sent' = sent
            BY <5>2, PlainMoves
               DEF PaidFlow, PlainFlow, TryClaim, Release, SignerFails, FailChecks,
                   Decline, CacheVerdict, LogReceipt, Undo, LoseTest, Unconfirm, Pend,
                   Mark, seen
          <6> QED BY <4>2, <6>1
        <5> QED BY <5>1, <5>2
      <4>3. r \notin unsigned
        <5>1. unsigned' = unsigned \/ unsigned' = unsigned \cup {r}
          BY DEF PaidFlow, TryClaim, CheckNonce, Verify, Refuse, Release, TakeDeclineSlot,
                 Block, Reserve, BookTest, Sign, RefuseSign, Unsign, Confirm, SignerFails,
                 FailChecks, Decline, CacheVerdict, LogReceipt, Undo, LoseTest, Settle,
                 SettleFails, Unconfirm, Pend, SettleOk, RefundSlot, Mark, Crash, Die, seen
        <5> QED BY <2>1, <5>1
      <4>4. Auth(r)' = Auth(r) /\ UNCHANGED <<loss, act, closed>>
        BY <1>1, <4>1 DEF losses
      <4>5. /\ r \in sent' /\ Auth(r)' \in closed' =>
                 loss'[r] = 1 \/ \E d \in Acts : act'[d].pc = "lose" /\ act'[d].by = r
        BY <2>1, <2>2, <4>2, <4>3, <4>4 DEF BookedOk
      <4>6. req'[r].pc \in Through /\ r \notin sent' => test'[r] = "none"
        BY <3>1, <3>3
      <4> QED BY <4>5, <4>6 DEF BookedOk
    <3> QED BY <3>2, <3>3
  <2> QED BY <2>5, <2>6
<1> QED BY <1>2, <1>3 DEF BookedInv

LEMMA ActorBooked ==
  ASSUME TypeInv, TypeInv', LedgerInv, ClaimInv, ChargeInv, LossInv, BookedInv,
         NEW d \in Acts, ActorFlow(d)
  PROVE  BookedInv'
<1>1. /\ (Calm' => Calm) /\ req' = req /\ UNCHANGED <<sent, verdict>>
      /\ \A q \in Reqs : Auth(q)' = Auth(q)
      /\ \A e \in Acts \ {d} : act'[e] = act[e]
  BY ActorFlowSteady, SteadyCalm, ActorDeals, ActorMoves DEF Auth
<1>2. UNCHANGED <<test, unsigned>>
  BY DEF ActorFlow, Cron, Redeem, Probe, Reconcile, Adjust, Judge, Close, LoseClosed, Drop,
         Give, Hand, CrashAct, Die, ledger, pays, seen
<1>3. ASSUME NEW r \in Reqs PROVE BookedOk(r)'
  <2>1. SUFFICES ASSUME ReadsInTime, Calm', r \notin unsigned' PROVE BookedOk(r)'
    BY DEF BookedOk
  <2>2. /\ Calm /\ ~Fault /\ faults = 0 /\ crashes' = crashes /\ r \notin unsigned
        /\ BookedOk(r) /\ HoldOk(r) /\ ChargeOk(r) /\ Auth(r)' = Auth(r)
    BY <1>1, <1>2, <2>1, NoFault DEF BookedInv, ClaimInv, ChargeInv, Calm
  <2>3. CASE Adjust(d)
    <3>1. PICK b \in Reqs : b = act[d].by
      BY <2>3, AdjustIs
    <3>2. closed' = closed /\ act[d].pc = "adjust"
      BY <2>3 DEF Adjust, Doing, store
    <3>3. CASE UNCHANGED <<losses, released>>
      BY <1>1, <1>2, <2>2, <3>2, <3>3, BookedKept DEF losses
    <3>4. CASE /\ ~act[d].used /\ b \notin released /\ released' = released \cup {b}
               /\ ReleaseLoss(b, 2)
      <4>1. test[b] # "landed"
        BY <3>1, <3>2, <3>4 DEF LedgerInv, AdjustOk
      <4>2. /\ loss' = IF b \in lossRec THEN [loss EXCEPT ![b] = @ - 1] ELSE loss
            /\ lossRec' = lossRec \ {b}
        BY <3>4 DEF ReleaseLoss, losses
      <4>3. CASE r # b
        <5>1. /\ loss'[r] = loss[r] /\ (r \in lossRec' <=> r \in lossRec)
              /\ (r \in released' <=> r \in released)
          BY <3>4, <4>2, <4>3 DEF TypeInv, LedgerType
        <5> QED BY <1>1, <1>2, <2>2, <3>2, <5>1, BookedKept
      <4>4. CASE r = b
        <5>1. r \notin sent /\ r \in released'
          BY <2>2, <3>4, <4>1, <4>4 DEF HoldOk
        <5>2. ASSUME req[r].pc \in Through, test[r] = "signed" PROVE loss'[r] = 0
          <6>1. r \in lossRec /\ loss[r] = 1
            BY <2>1, <2>2, <3>4, <4>4, <5>1, <5>2 DEF BookedOk
          <6> QED BY <4>2, <4>4, <6>1 DEF TypeInv, LedgerType
        <5> QED BY <1>1, <1>2, <4>1, <4>4, <5>1, <5>2 DEF BookedOk
      <4> QED BY <4>3, <4>4
    <3>5. UNCHANGED <<losses, released>>
          \/ /\ ~act[d].used /\ b \notin released /\ released' = released \cup {b}
             /\ ReleaseLoss(b, 2)
      <4>1. \/ UNCHANGED <<losses, released>>
            \/ /\ ~act[d].used /\ b \notin released /\ released' = released \cup {b}
               /\ \E n \in 0..2 : /\ ReleaseLoss(b, n)
                                  /\ (n = 2 /\ UNCHANGED faults) \/ Fault
        BY <2>3, <3>1, AdjustIs
      <4> QED BY <2>2, <4>1
    <3> QED BY <3>3, <3>4, <3>5
  <2>4. CASE LoseClosed(d)
    <3>1. /\ act[d].pc = "lose" /\ UNCHANGED <<closed, released>>
          /\ LoserOk(d) /\ ActOk(d) /\ act[d].auth # None
      BY <2>4, SellerDdAssumption
         DEF LoseClosed, Doing, booking, store, LossInv, ClaimInv, ActOk
    <3>2. CASE act[d].by # r
      <4>1. loss'[r] = loss[r] /\ (r \in lossRec' <=> r \in lossRec)
        <5>1. CASE UNCHANGED losses
          BY <5>1 DEF losses
        <5>2. CASE act[d].by \in Reqs /\ Lose(act[d].by, TRUE)
          <6>1. PICK b \in Reqs : b = act[d].by /\ Lose(b, TRUE)
            BY <5>2
          <6> QED BY <3>2, <6>1, RecordIs
        <5> QED BY <2>4, <5>1, <5>2, LoseClosedType
      <4> QED BY <1>1, <1>2, <2>2, <3>1, <3>2, <4>1, BookedKept
    <3>3. CASE act[d].by = r
      <4>1. r # None /\ loss[r] = 0
        BY <2>2, <3>1, <3>3, SellerDdAssumption DEF LoserOk
      <4>2. test[r] = "landed" /\ req[r].pc = "end"
        BY <3>1, <3>3, <4>1, LoserIs
      <4>3. r \in sent
        BY <2>1, <2>2, <4>1, <4>2 DEF BookedOk, Through
      <4>4. Lose(r, TRUE)
        BY <2>4, <3>3, <4>1 DEF LoseClosed
      <4>5. loss'[r] = 1
        <5>1. PICK b \in BOOLEAN : b /\ Lose(r, b)
          BY <4>4
        <5>2. loss'[r] = loss[r] + 1
          BY <2>2, <5>1, RecordIs
        <5> QED BY <4>1, <5>2
      <4> QED BY <1>1, <4>3, <4>5 DEF BookedOk
    <3> QED BY <3>2, <3>3
  <2>5. CASE ~Adjust(d) /\ ~LoseClosed(d)
    <3>1. UNCHANGED <<losses, released>>
      BY <2>5, ActorLosses
    <3>2. act[d].pc # "lose"
      <4>1. ~CrashAct(d)
        BY <2>2 DEF CrashAct, Die, TypeInv, MetersType
      <4> QED BY <2>5, <4>1
              DEF ActorFlow, Cron, Redeem, Probe, Reconcile, Judge, Close, Drop, Give, Hand,
                  Doing
    <3>3. \A e \in Acts : act[e].pc = "lose" /\ act[e].by = r =>
                            act'[e].pc = "lose" /\ act'[e].by = r
      BY <1>1, <3>2
    <3>4. CASE r \in sent /\ Auth(r) \in closed' /\ Auth(r) \notin closed
      <4>1. Close(d)
        BY <3>4, ActorLosses
      <4>2. PICK a \in Auths : a = act[d].auth
        BY <4>1, CloseType
      <4>3. /\ a \notin closed /\ closed' = closed \cup {a}
            /\ Becomes(d, [act[d] EXCEPT !.pc = "lose"])
        BY <2>2, <3>4, <4>1, <4>2, CloseType
      <4>4. a = Auth(r)
        BY <3>4, <4>3
      <4>5. act'[d].pc = "lose" /\ act'[d].by = act[d].by
        BY <4>3 DEF Becomes, TypeInv, ActorsType, Actor
      <4>6. act[d].by = verdict[a]
        BY <4>1, <4>2 DEF Close, Doing, ClaimInv, ActOk
      <4>7. verdict[a] = r
        BY <2>1, <2>2, <3>4, <4>4 DEF ChargeOk
      <4> QED BY <1>1, <3>4, <4>5, <4>6, <4>7 DEF BookedOk
    <3>5. CASE ~(r \in sent /\ Auth(r) \in closed' /\ Auth(r) \notin closed)
      <4>1. /\ loss' = loss /\ lossRec' = lossRec /\ released' = released
            /\ test' = test /\ req' = req /\ sent' = sent
        BY <1>1, <1>2, <3>1 DEF losses
      <4> QED BY <2>1, <2>2, <3>3, <3>5, <4>1 DEF BookedOk
    <3> QED BY <3>4, <3>5
  <2> QED BY <2>3, <2>4, <2>5
<1> QED BY <1>3 DEF BookedInv

LEMMA OtherBooked ==
  ASSUME TypeInv, TypeInv', LedgerInv, ClaimInv, BookedInv,
         \/ UNCHANGED vars \/ Tick \/ \E r \in Reqs : TestLands(r)
         \/ \E a \in Auths : Land(a) \/ Cancel(a)
         \/ \E r \in Reqs : \E a \in Auths, rq \in Rqs : Open(r, a, rq)
  PROVE  BookedInv'
<1>1. UNCHANGED <<losses, released, sent, unsigned, closed, faults, crashes>>
  BY DEF vars, Tick, TestLands, Land, Cancel, Open, ledger, booking, store, seen, meters
<1>2. /\ loss' = loss /\ lossRec' = lossRec /\ (Calm' <=> Calm)
  BY <1>1 DEF losses, Calm
<1>3. /\ \A d \in Acts : /\ act'[d].pc = act[d].pc /\ act'[d].by = act[d].by
      /\ \A r \in Reqs : \/ Auth(r)' = Auth(r) /\ req'[r].pc = req[r].pc
                         \/ req[r].pc = "new" /\ req'[r].pc = "claim"
  <2>1. CASE \E r \in Reqs : \E a \in Auths, rq \in Rqs : Open(r, a, rq)
    BY <2>1, OpenType DEF Open, At, Auth
  <2>2. CASE Tick
    BY <2>2, TickType DEF Auth
  <2>3. CASE req' = req /\ act' = act
    BY <2>3 DEF Auth
  <2> QED BY <2>1, <2>2, <2>3 DEF vars, TestLands, Land, Cancel
<1>4. ASSUME NEW r \in Reqs
      PROVE  test'[r] = test[r] \/ (test[r] = "signed" /\ test'[r] = "landed" /\ CanLand(r))
  <2>1. CASE \E q \in Reqs : TestLands(q)
    BY <2>1 DEF TestLands, LandTest, CanLand, TypeInv, LedgerType
  <2>2. CASE ~\E q \in Reqs : TestLands(q)
    BY <2>2 DEF vars, Tick, Land, Cancel, Open, ledger, pays
  <2> QED BY <2>1, <2>2
<1>5. ASSUME NEW r \in Reqs PROVE BookedOk(r)'
  <2>1. BookedOk(r) /\ HoldOk(r) /\ TestOk(r)
    BY DEF BookedInv, ClaimInv, LedgerInv
  <2>2. CASE req[r].pc = "new" /\ req'[r].pc = "claim"
    <3>1. r \notin sent /\ r \notin sent'
      BY <1>1, <2>1, <2>2 DEF HoldOk, Sending
    <3> QED BY <2>2, <3>1 DEF BookedOk, Through
  <2>3. CASE Auth(r)' = Auth(r) /\ req'[r].pc = req[r].pc
    <3>1. CASE test'[r] = test[r]
      BY <1>1, <1>2, <1>3, <2>1, <2>3, <3>1, BookedKept
    <3>2. CASE test[r] = "signed" /\ test'[r] = "landed" /\ CanLand(r)
      <4>1. r \notin released
        BY <2>1, <3>2 DEF TestOk
      <4>2. r \notin sent /\ r \notin sent'
        BY <1>1, <2>1, <3>2 DEF HoldOk
      <4> QED BY <1>1, <1>2, <2>1, <2>3, <3>2, <4>1, <4>2 DEF BookedOk
    <3> QED BY <1>4, <3>1, <3>2
  <2> QED BY <1>3, <2>2, <2>3
<1> QED BY <1>5 DEF BookedInv

LEMMA BookedNext ==
  /\ TypeInv /\ TypeInv' /\ LedgerInv /\ OwedInv /\ ClaimInv /\ ClaimInv' /\ ChargeInv
  /\ LossInv /\ BookedInv /\ [Next]_vars
  => BookedInv'
  BY FlowBooked, ActorBooked, OtherBooked DEF Next, ActorFlow

LEMMA BookedHolds == Spec => [](MoneyInv /\ ClaimInv /\ LossInv /\ FaultsInv /\ BookedInv)
<1>1. Init => BookedInv
  <2> SUFFICES ASSUME Init PROVE BookedInv
    OBVIOUS
  <2>1. \A r \in Reqs : req[r].pc = "new" /\ r \notin sent
    BY DEF Init, Fresh
  <2> QED BY <2>1 DEF BookedInv, BookedOk, Through
<1>2. /\ MoneyInv /\ ClaimInv /\ LossInv /\ ChargeInv /\ BookedInv /\ MoneyInv' /\ ClaimInv'
      /\ [Next]_vars
      => BookedInv'
  BY BookedNext DEF MoneyInv
<1> QED BY <1>1, <1>2, ChargeHolds, LossHolds, PTL DEF Spec

\* handler.ts:272 and caps.ts:173: with one store error at most, the loss of a test
\* payment is on the books once at most and never with the buyer's payment for it; while
\* nothing fails, a test payment that ended in no charge is on them, and one that never
\* landed is off them, once everyone is done with it.
THEOREM LossIsTrue ==
  ASSUME ReadsInTime, MaxFaults <= 1
  PROVE  Spec => []LossTrue
<1>1. MoneyInv /\ ClaimInv /\ BookedInv => LossBooked
  <2> SUFFICES ASSUME MoneyInv, ClaimInv, BookedInv, NEW r \in Reqs,
                      ~Trouble, r \notin unsigned, Settled(r)
               PROVE  /\ test[r] = "landed" /\ (r \notin sent \/ Auth(r) \in closed)
                           => loss[r] = 1
                      /\ test[r] = "signed" /\ r \notin open => loss[r] = 0
    BY DEF LossBooked
  <2>1. Calm
    BY DEF Trouble, Calm, MoneyInv, TypeInv, MetersType
  <2>2. /\ req[r].pc \in Through /\ \A d \in Acts : act[d].by # r
        /\ BookedOk(r) /\ HoldOk(r) /\ TestOk(r)
    BY DEF Settled, Ended, At, Through, BookedInv, ClaimInv, MoneyInv, LedgerInv
  <2>3. test[r] = "landed" /\ (r \notin sent \/ Auth(r) \in closed) => loss[r] = 1
    BY <2>1, <2>2 DEF BookedOk
  <2>4. ASSUME test[r] = "signed", r \notin open PROVE loss[r] = 0
    <3>1. r \in released /\ r \notin sent
      BY <2>1, <2>2, <2>4 DEF TestOk, HoldOk
    <3> QED BY <2>1, <2>2, <2>4, <3>1 DEF BookedOk
  <2> QED BY <2>3, <2>4
<1>2. Spec => []LossOnce
  BY LossIsOnce
<1> QED BY <1>1, <1>2, BookedHolds, PTL DEF LossTrue
=============================================================================
