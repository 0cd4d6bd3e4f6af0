------------------------- MODULE PremiumSyncProofs -------------------------
(***************************************************************************)
(* Theorems about PremiumSync, for any authorizations, payers, requests,      *)
(* caps, clocks and any number of store errors and crashes.                   *)
(***************************************************************************)
EXTENDS PremiumSync, FiniteSetTheorems, TLAPS

----------------------------------------------------------------------------
(* Types. *)

TypeInv ==
  /\ claim \in [Auths -> Claims]
  /\ passed \in [Auths -> Rqs \cup {NoRq}]
  /\ spend \in Int /\ slots \in [Payers -> Int] /\ unpaid \in [Payers -> Int]
  /\ flagged \subseteq Auths /\ sent \subseteq Auths /\ declined \subseteq Auths
  /\ lines \in [Auths -> Nat] /\ delivered \in [Auths -> Nat]
  /\ chain \in [Auths -> {"unused", "paid", "cancelled"}]
  /\ req \in [Procs -> Request]
  /\ now \in Nat /\ faults \in Nat /\ crashes \in Nat

Labels == {"idle", "claim"} \cup Owning \cup Redeeming

\* What a step does to the requests: one of them moves on.
Moves(p, r) == /\ req' \in [Procs -> Request] /\ req'[p] = r
               /\ \A q \in Procs : q # p => req'[q] = req[q]

LEMMA Values ==
  /\ NoClaim \in Claims /\ Idle \in Request
  /\ \A p \in Procs : TypeInv => /\ req[p] \in Request /\ Auth(p) \in Auths
                                 /\ req[p].held \in Claims /\ Payer(p) \in Payers
                                 /\ Inflight(p) \in Claims /\ NextLine(p) \in Nat \ {0}
<1>1. NoClaim \in Claims
  BY DEF NoClaim, Claims
<1>2. Idle \in Request
  <2>1. (CHOOSE a \in Auths : TRUE) \in Auths
    BY SyncAssumption
  <2> QED BY <1>1, <2>1 DEF Idle, Request
<1>3. ASSUME NEW p \in Procs, TypeInv
      PROVE  /\ req[p] \in Request /\ Auth(p) \in Auths
             /\ req[p].held \in Claims /\ Payer(p) \in Payers
             /\ Inflight(p) \in Claims /\ NextLine(p) \in Nat \ {0}
  <2>1. req[p] \in Request
    BY <1>3 DEF TypeInv
  <2>2. now + ClaimTTL \in Nat
    BY <1>3, SyncAssumption DEF TypeInv
  <2>3. Inflight(p) \in Claims
    BY <2>1, <2>2 DEF Inflight, NoClaim, Claims, Held, Request
  <2>4. Auth(p) \in Auths /\ req[p].held \in Claims
    BY <2>1 DEF Auth, Request
  <2>5. NextLine(p) \in Nat \ {0}
    BY <1>3, <2>4 DEF TypeInv, NextLine
  <2>6. Payer(p) \in Payers
    BY <2>4, SyncAssumption DEF Payer
  <2> QED BY <2>1, <2>3, <2>4, <2>5, <2>6
<1> QED BY <1>1, <1>2, <1>3

LEMMA Going ==
  ASSUME TypeInv, NEW p \in Procs, NEW l \in Labels, Goto(p, l)
  PROVE  Moves(p, [req[p] EXCEPT !.pc = l])
<1>1. req[p] \in Request /\ [req[p] EXCEPT !.pc = l] \in Request
  BY Values DEF Labels, Request
<1> QED BY <1>1 DEF TypeInv, Goto, Moves

LEMMA Entering ==
  ASSUME TypeInv, NEW p \in Procs, NEW l \in Labels, NEW c \in Claims,
         Enters(p, l, c)
  PROVE  Moves(p, [req[p] EXCEPT !.pc = l, !.held = c])
<1>1. req[p] \in Request /\ [req[p] EXCEPT !.pc = l, !.held = c] \in Request
  BY Values DEF Labels, Request
<1>2. req' = [req EXCEPT ![p] = [req[p] EXCEPT !.pc = l, !.held = c]]
  BY DEF Enters, TypeInv
<1> QED BY <1>1, <1>2 DEF TypeInv, Moves

LEMMA Ending ==
  ASSUME TypeInv, NEW p \in Procs, End(p)
  PROVE  Moves(p, Idle)
  BY Values DEF TypeInv, End, Moves

LEMMA Moving ==
  ASSUME TypeInv, NEW p \in Procs, NEW s \in Held, NEW n \in Nat,
         NEW b \in BOOLEAN
  PROVE  Moved(p, s, n, b) \in Claims /\ As(p, s) \in Claims
<1>1. req[p].held \in Claims
  BY Values
<1> QED BY <1>1 DEF Moved, As, Claims

LEMMA Swapping ==
  ASSUME TypeInv, NEW p \in Procs, NEW c \in Claims, Swap(p, c) \/ TryMove(p, c)
  PROVE  claim' \in [Auths -> Claims]
  BY Values DEF TypeInv, Swap, TryMove, Put

LEMMA FaultTypes == TypeInv /\ (Fault \/ UNCHANGED faults) => faults' \in Nat
  BY DEF TypeInv, Fault

\* Everything but the requests keeps its type.
Others ==
  /\ claim' \in [Auths -> Claims]
  /\ passed' \in [Auths -> Rqs \cup {NoRq}]
  /\ spend' \in Int /\ slots' \in [Payers -> Int] /\ unpaid' \in [Payers -> Int]
  /\ flagged' \subseteq Auths /\ sent' \subseteq Auths /\ declined' \subseteq Auths
  /\ lines' \in [Auths -> Nat] /\ delivered' \in [Auths -> Nat]
  /\ chain' \in [Auths -> {"unused", "paid", "cancelled"}]
  /\ now' \in Nat /\ faults' \in Nat /\ crashes' \in Nat

LEMMA Typed ==
  ASSUME TypeInv, Others, req' \in [Procs -> Request]
  PROVE  TypeInv'
  BY DEF TypeInv, Others

\* The way to the claim.
LEMMA OpenMoves ==
  ASSUME TypeInv, NEW p \in Procs, NEW a \in Auths, NEW rq \in Rqs,
         NEW proof \in 0..lines[a], Open(p, a, rq, proof)
  PROVE  /\ Others
         /\ Moves(p, [Idle EXCEPT !.pc = "claim", !.auth = a, !.rq = rq,
                                  !.proof = proof])
<1>1. proof \in Nat
  BY DEF TypeInv
<1>2. [Idle EXCEPT !.pc = "claim", !.auth = a, !.rq = rq, !.proof = proof]
        \in Request
  BY <1>1, Values DEF Request
<1> QED BY <1>2 DEF Open, TypeInv, Others, Moves, store, seen, meters

LEMMA ClaimMoves ==
  ASSUME TypeInv, NEW p \in Procs, Claim(p)
  PROVE  /\ Others
         /\ Moves(p, [req[p] EXCEPT !.pc = "nonce", !.held = Inflight(p)])
<1>1. Inflight(p) \in Claims
  BY Values
<1>2. Moves(p, [req[p] EXCEPT !.pc = "nonce", !.held = Inflight(p)])
  BY <1>1, Entering DEF Claim, TakeClaim, Labels, Owning
<1> QED BY <1>1, <1>2 DEF Claim, TakeClaim, TypeInv, Others, Put, seen, meters

LEMMA TakenMoves ==
  ASSUME TypeInv, NEW p \in Procs, Taken(p)
  PROVE  /\ Others
         /\ \/ /\ claim[Auth(p)].s = "unconfirmed" /\ Matches(p)
               /\ Moves(p, [req[p] EXCEPT !.pc = "probe",
                                          !.held = claim[Auth(p)]])
            \/ Moves(p, Idle)
<1>1. Auth(p) \in Auths /\ claim[Auth(p)] \in Claims
  BY Values DEF TypeInv
<1>2. \/ /\ claim[Auth(p)].s = "unconfirmed" /\ Matches(p)
         /\ Moves(p, [req[p] EXCEPT !.pc = "probe", !.held = claim[Auth(p)]])
      \/ Moves(p, Idle)
  BY <1>1, Entering, Ending DEF Taken, Labels, Redeeming
<1> QED BY <1>1, <1>2 DEF Taken, TypeInv, Others, seen, meters

LEMMA ThrowClaimMoves ==
  ASSUME TypeInv, NEW p \in Procs, ThrowClaim(p)
  PROVE  Others /\ Moves(p, Idle)
  BY Values, Ending, FaultTypes DEF ThrowClaim, TypeInv, Others, Put, seen

LEMMA ReleaseMoves ==
  ASSUME TypeInv, NEW p \in Procs, Release(p)
  PROVE  Others /\ Moves(p, Idle)
<1>1. claim' \in [Auths -> Claims] /\ faults' \in Nat
  BY Values, Swapping, FaultTypes DEF Release, TryMove
<1> QED BY <1>1, Ending DEF Release, TypeInv, Others, seen

LEMMA CheckNonceMoves ==
  ASSUME TypeInv, NEW p \in Procs, CheckNonce(p)
  PROVE  /\ Others
         /\ IF chain[Auth(p)] = "unused"
              THEN Moves(p, [req[p] EXCEPT !.pc = "check"])
              ELSE Moves(p, Idle)
<1>1. CASE chain[Auth(p)] = "unused"
  <2>1. Moves(p, [req[p] EXCEPT !.pc = "check"])
    BY <1>1, Going DEF CheckNonce, Labels, Owning
  <2> QED BY <1>1, <2>1 DEF CheckNonce, TypeInv, Others
<1>2. CASE chain[Auth(p)] # "unused"
  <2>1. Moved(p, "conflict", NextLine(p), FALSE) \in Claims
    BY Values, Moving DEF Held
  <2>2. claim' \in [Auths -> Claims] /\ faults' \in Nat
    BY <1>2, <2>1, Swapping, FaultTypes DEF CheckNonce, TryMove
  <2>3. lines' \in [Auths -> Nat]
    BY <1>2, Values DEF CheckNonce, NewLine, TypeInv
  <2> QED BY <1>2, <2>2, <2>3, Ending DEF CheckNonce, TypeInv, Others
<1> QED BY <1>1, <1>2

LEMMA RefuseMoves ==
  ASSUME TypeInv, NEW p \in Procs, Refuse(p)
  PROVE  Others /\ Moves(p, [req[p] EXCEPT !.pc = "release"])
  BY Going DEF Refuse, Labels, Owning, TypeInv, Others, store, seen, meters

LEMMA VerifyMoves ==
  ASSUME TypeInv, NEW p \in Procs, Verify(p)
  PROVE  /\ Others
         /\ Moves(p, [req[p] EXCEPT !.pc = IF Brief(p) THEN "spend"
                                                       ELSE "settle"])
  BY Going DEF Verify, Labels, Owning, TypeInv, Others, store, seen, meters

\* chargeOnPass.
LEMMA ReserveSpendMoves ==
  ASSUME TypeInv, NEW p \in Procs, ReserveSpend(p)
  PROVE  /\ Others
         /\ \/ /\ Moves(p, [req[p] EXCEPT !.pc = "slot"])
               /\ spend < SpendCap /\ spend' = spend + 1
            \/ /\ Moves(p, [req[p] EXCEPT !.pc = "release"])
               /\ spend' = spend \/ (spend < SpendCap /\ spend' = spend + 1)
<1>1. \/ /\ Moves(p, [req[p] EXCEPT !.pc = "slot"])
         /\ spend < SpendCap /\ spend' = spend + 1
      \/ /\ Moves(p, [req[p] EXCEPT !.pc = "release"])
         /\ spend' = spend \/ (spend < SpendCap /\ spend' = spend + 1)
  BY Going DEF ReserveSpend, Labels, Owning
<1>2. faults' \in Nat
  BY FaultTypes DEF ReserveSpend
<1> QED BY <1>1, <1>2 DEF ReserveSpend, TypeInv, Others, seen

LEMMA ReserveSlotMoves ==
  ASSUME TypeInv, NEW p \in Procs, ReserveSlot(p)
  PROVE  /\ Others
         /\ \/ /\ Moves(p, [req[p] EXCEPT !.pc = "research"])
               /\ SlotFree(p) /\ SlotTaken(p)
               /\ unpaid' = [unpaid EXCEPT ![Payer(p)] = @ + 1]
            \/ /\ Moves(p, [req[p] EXCEPT !.pc = "unspend"])
               /\ unpaid' = unpaid
               /\ slots' = slots \/ (SlotFree(p) /\ SlotTaken(p))
<1>1. \/ /\ Moves(p, [req[p] EXCEPT !.pc = "research"])
         /\ SlotFree(p) /\ SlotTaken(p)
         /\ unpaid' = [unpaid EXCEPT ![Payer(p)] = @ + 1]
      \/ /\ Moves(p, [req[p] EXCEPT !.pc = "unspend"])
         /\ unpaid' = unpaid
         /\ slots' = slots \/ (SlotFree(p) /\ SlotTaken(p))
  BY Going DEF ReserveSlot, Labels, Owning
<1>2. faults' \in Nat
  BY FaultTypes DEF ReserveSlot
<1>3. slots' \in [Payers -> Int] /\ unpaid' \in [Payers -> Int]
  BY Values DEF ReserveSlot, SlotTaken, TypeInv
<1> QED BY <1>1, <1>2, <1>3 DEF ReserveSlot, TypeInv, Others

LEMMA UnspendMoves ==
  ASSUME TypeInv, NEW p \in Procs, Unspend(p)
  PROVE  /\ Others /\ Moves(p, [req[p] EXCEPT !.pc = "release"])
         /\ spend' \in {spend, spend - 1}
<1>1. Moves(p, [req[p] EXCEPT !.pc = "release"])
  BY Going DEF Unspend, Labels, Owning
<1>2. faults' \in Nat
  BY FaultTypes DEF Unspend
<1> QED BY <1>1, <1>2 DEF Unspend, TypeInv, Others, seen

LEMMA ResearchMoves ==
  ASSUME TypeInv, NEW p \in Procs, Pass(p) \/ Outage(p)
  PROVE  /\ Others
         /\ \/ Moves(p, [req[p] EXCEPT !.pc = "cache"])
            \/ Moves(p, [req[p] EXCEPT !.pc = "unslot"])
<1>1. \/ Moves(p, [req[p] EXCEPT !.pc = "cache"])
      \/ Moves(p, [req[p] EXCEPT !.pc = "unslot"])
  BY Going DEF Pass, Outage, Labels, Owning
<1> QED BY <1>1 DEF Pass, Outage, TypeInv, Others, store, seen, meters

LEMMA DeclineMoves ==
  ASSUME TypeInv, NEW p \in Procs, Decline(p)
  PROVE  Others /\ Moves(p, Idle)
<1>1. As(p, "declined") \in Claims
  BY Moving DEF Held
<1>2. claim' \in [Auths -> Claims] /\ faults' \in Nat
  BY <1>1, Swapping, FaultTypes DEF Decline, TryMove
<1> QED BY <1>2, Ending, Values DEF Decline, TypeInv, Others

LEMMA UnslotMoves ==
  ASSUME TypeInv, NEW p \in Procs, Unslot(p)
  PROVE  /\ Others /\ Moves(p, [req[p] EXCEPT !.pc = "release"])
         /\ slots' \in {slots, [slots EXCEPT ![Payer(p)] = @ - 1]}
<1>1. Moves(p, [req[p] EXCEPT !.pc = "release"])
  BY Going DEF Unslot, Labels, Owning
<1>2. faults' \in Nat
  BY FaultTypes DEF Unslot
<1>3. slots' \in [Payers -> Int]
  BY Values DEF Unslot, TypeInv
<1> QED BY <1>1, <1>2, <1>3 DEF Unslot, TypeInv, Others, seen

LEMMA CacheBriefMoves ==
  ASSUME TypeInv, NEW p \in Procs, CacheBrief(p)
  PROVE  /\ Others
         /\ \/ /\ Moves(p, [req[p] EXCEPT !.pc = "settle"])
               /\ passed' = [passed EXCEPT ![Auth(p)] = req[p].rq]
            \/ /\ Moves(p, [req[p] EXCEPT !.pc = "unslot"])
               /\ passed' \in {passed, [passed EXCEPT ![Auth(p)] = req[p].rq]}
<1>1. \/ /\ Moves(p, [req[p] EXCEPT !.pc = "settle"])
         /\ passed' = [passed EXCEPT ![Auth(p)] = req[p].rq]
      \/ /\ Moves(p, [req[p] EXCEPT !.pc = "unslot"])
         /\ passed' \in {passed, [passed EXCEPT ![Auth(p)] = req[p].rq]}
  BY Going DEF CacheBrief, Labels, Owning
<1>2. faults' \in Nat
  BY FaultTypes DEF CacheBrief
<1>3. passed' \in [Auths -> Rqs \cup {NoRq}]
  BY <1>1, Values DEF TypeInv, Request
<1> QED BY <1>1, <1>2, <1>3 DEF CacheBrief, TypeInv, Others, seen

\* The settle, the work, the answer.
LEMMA SendSettleMoves ==
  ASSUME TypeInv, NEW p \in Procs, SendSettle(p)
  PROVE  Others /\ Moves(p, [req[p] EXCEPT !.pc = "asked"])
  BY Going, Values DEF SendSettle, Labels, Owning, TypeInv, Others, store, meters

LEMMA SettleOkMoves ==
  ASSUME TypeInv, NEW p \in Procs, SettleOk(p)
  PROVE  /\ Others
         /\ Moves(p, [req[p] EXCEPT !.pc = IF Brief(p) THEN "refund" ELSE "mark"])
<1>1. Moves(p, [req[p] EXCEPT !.pc = IF Brief(p) THEN "refund" ELSE "mark"])
  BY Going DEF SettleOk, Labels, Owning
<1>2. unpaid' \in [Payers -> Int]
  BY Values DEF SettleOk, TypeInv
<1> QED BY <1>1, <1>2 DEF SettleOk, TypeInv, Others, store, meters

LEMMA UnconfirmedMoves ==
  ASSUME TypeInv, NEW p \in Procs, NEW b \in BOOLEAN, Unconfirmed(p, b)
  PROVE  Others /\ Moves(p, Idle)
<1>1. Moved(p, "unconfirmed", NextLine(p), b) \in Claims
  BY Values, Moving DEF Held
<1>2. claim' \in [Auths -> Claims] /\ faults' \in Nat
  BY <1>1, Swapping, FaultTypes DEF Unconfirmed, TryMove
<1>3. lines' \in [Auths -> Nat]
  BY Values DEF Unconfirmed, NewLine, TypeInv
<1> QED BY <1>2, <1>3, Ending DEF Unconfirmed, TypeInv, Others

LEMMA RefundMoves ==
  ASSUME TypeInv, NEW p \in Procs, Refund(p)
  PROVE  /\ Others /\ Moves(p, [req[p] EXCEPT !.pc = "mark"])
         /\ slots' \in {slots, [slots EXCEPT ![Payer(p)] = @ - 1]}
         /\ spend' \in {spend, spend - 1}
<1>1. Moves(p, [req[p] EXCEPT !.pc = "mark"])
  BY Going DEF Refund, Labels, Owning
<1>2. faults' \in Nat
  BY FaultTypes DEF Refund
<1>3. /\ slots' \in {slots, [slots EXCEPT ![Payer(p)] = @ - 1]}
      /\ spend' \in {spend, spend - 1}
  BY DEF Refund
<1>4. slots' \in [Payers -> Int]
  BY <1>3, Values DEF TypeInv
<1> QED BY <1>1, <1>2, <1>3, <1>4 DEF Refund, TypeInv, Others, seen

\* What a request holds after its mark: an answered CAS leaves the new value.
LEMMA MarkMoves ==
  ASSUME TypeInv, NEW p \in Procs, Mark(p)
  PROVE  /\ Others
         /\ IF Brief(p)
              THEN Moves(p, Idle)
              ELSE \E c \in {req[p].held, As(p, "settled")} :
                     /\ Moves(p, [req[p] EXCEPT !.pc = "work", !.held = c])
                     /\ faults' = faults /\ Current(p) => c = As(p, "settled")
<1>1. As(p, "settled") \in Claims /\ req[p].held \in Claims
  BY Values, Moving DEF Held
<1>2. claim' \in [Auths -> Claims] /\ faults' \in Nat
  BY <1>1, Swapping, FaultTypes DEF Mark, TypeInv
<1>3. delivered' \in [Auths -> Nat]
  BY Values DEF Mark, Delivers, TypeInv
<1>4. IF Brief(p)
        THEN Moves(p, Idle)
        ELSE \E c \in {req[p].held, As(p, "settled")} :
               /\ Moves(p, [req[p] EXCEPT !.pc = "work", !.held = c])
               /\ faults' = faults /\ Current(p) => c = As(p, "settled")
  <2>1. CASE Brief(p)
    BY <2>1, Ending DEF Mark
  <2>2. CASE ~Brief(p)
    <3> DEFINE c == IF faults' = faults /\ Current(p)
                      THEN As(p, "settled") ELSE req[p].held
    <3>1. Enters(p, "work", c) /\ c \in Claims /\ "work" \in Labels
      BY <1>1, <2>2 DEF Mark, Labels, Owning
    <3>2. Moves(p, [req[p] EXCEPT !.pc = "work", !.held = c])
      BY <3>1, Entering
    <3> QED BY <2>2, <3>2
  <2> QED BY <2>1, <2>2
<1> QED BY <1>2, <1>3, <1>4 DEF Mark, TypeInv, Others

LEMMA AnswerMoves ==
  ASSUME TypeInv, NEW p \in Procs, Answer(p)
  PROVE  Others /\ Moves(p, Idle)
<1>1. delivered' \in [Auths -> Nat]
  BY Values DEF Answer, Delivers, TypeInv
<1> QED BY <1>1, Ending DEF Answer, TypeInv, Others, store, meters

\* redeem.
LEMMA ProbeMoves ==
  ASSUME TypeInv, NEW p \in Procs, Probe(p)
  PROVE  /\ Others
         /\ \/ /\ req[p].held.landed \/ chain[Auth(p)] = "paid"
               /\ Moves(p, [req[p] EXCEPT !.pc = "redeem"])
            \/ Moves(p, Idle)
<1>1. \/ /\ req[p].held.landed \/ chain[Auth(p)] = "paid"
         /\ Moves(p, [req[p] EXCEPT !.pc = "redeem"])
      \/ Moves(p, Idle)
  BY Going, Ending DEF Probe, Labels, Redeeming
<1> QED BY <1>1 DEF Probe, TypeInv, Others, store, seen, meters

LEMMA RedeemMoves ==
  ASSUME TypeInv, NEW p \in Procs, Redeem(p)
  PROVE  /\ Others
         /\ IF Current(p)
              THEN Moves(p, [req[p] EXCEPT !.pc = "rework",
                                           !.held = As(p, "redeemed")])
              ELSE Moves(p, Idle)
<1>1. As(p, "redeemed") \in Claims /\ "rework" \in Labels
  BY Values, Moving DEF Held, Labels, Redeeming
<1>2. claim' \in [Auths -> Claims]
  BY <1>1, Swapping DEF Redeem
<1>3. IF Current(p)
        THEN Moves(p, [req[p] EXCEPT !.pc = "rework", !.held = As(p, "redeemed")])
        ELSE Moves(p, Idle)
  BY <1>1, Entering, Ending DEF Redeem
<1> QED BY <1>2, <1>3 DEF Redeem, TypeInv, Others, seen, meters

LEMMA ThrowRedeemMoves ==
  ASSUME TypeInv, NEW p \in Procs, ThrowRedeem(p)
  PROVE  Others /\ Moves(p, Idle)
<1>1. As(p, "redeemed") \in Claims
  BY Moving DEF Held
<1>2. claim' \in [Auths -> Claims] /\ faults' \in Nat
  BY <1>1, Swapping, FaultTypes DEF ThrowRedeem, TypeInv
<1> QED BY <1>2, Ending DEF ThrowRedeem, TypeInv, Others, seen

LEMMA ReworkUnreadMoves ==
  ASSUME TypeInv, NEW p \in Procs, ReworkUnread(p)
  PROVE  Others /\ Moves(p, Idle)
<1>1. Moved(p, "unconfirmed", NextLine(p), TRUE) \in Claims
  BY Values, Moving DEF Held
<1>2. claim' \in [Auths -> Claims] /\ faults' \in Nat
  BY <1>1, Swapping, FaultTypes DEF ReworkUnread
<1>3. lines' \in [Auths -> Nat]
  BY Values DEF ReworkUnread, NewLine, TypeInv
<1> QED BY <1>2, <1>3, Ending DEF ReworkUnread, TypeInv, Others

LEMMA CrashMoves ==
  ASSUME TypeInv, NEW p \in Procs, Crash(p)
  PROVE  Others /\ Moves(p, Idle)
  BY Ending DEF Crash, TypeInv, Others, store, seen

LEMMA TickTypes ==
  ASSUME TypeInv, Tick
  PROVE  Others /\ req' \in [Procs -> Request]
<1>1. \A p \in Procs : [req[p] EXCEPT !.aged = ~At(p, "idle")] \in Request
  BY Values DEF Request, At
<1> QED BY <1>1 DEF Tick, TypeInv, Others, store, seen

LEMMA LedgerTypes ==
  ASSUME TypeInv, NEW a \in Auths, Land(a) \/ Cancel(a)
  PROVE  Others /\ req' \in [Procs -> Request]
  BY DEF Land, Cancel, TypeInv, Others, store, meters

----------------------------------------------------------------------------
(* The steps by what they do to their request. *)

Early(p)   == Taken(p) \/ Refuse(p) \/ Verify(p) \/ Probe(p)
Stores(p)  == Claim(p) \/ ThrowClaim(p) \/ Release(p) \/ CheckNonce(p)
Brieves(p) == \/ ReserveSpend(p) \/ ReserveSlot(p) \/ Unspend(p) \/ Pass(p)
              \/ Outage(p) \/ Decline(p) \/ Unslot(p) \/ CacheBrief(p)
Settles(p) == \/ SendSettle(p) \/ SettleOk(p) \/ SettleFails(p) \/ Refund(p)
              \/ Mark(p) \/ WorkOk(p) \/ WorkFails(p)
Redeems(p) == \/ Redeem(p) \/ ThrowRedeem(p) \/ ReworkOk(p) \/ ReworkFails(p)
              \/ ReworkUnread(p)
Opens(p)   == \E a \in Auths, rq \in Rqs : \E proof \in 0..lines[a] :
                Open(p, a, rq, proof)
Acts(p)    == \/ Opens(p) \/ Early(p) \/ Stores(p) \/ Brieves(p) \/ Settles(p)
              \/ Redeems(p) \/ Crash(p)

LEMMA NextIs ==
  [Next]_vars <=> \/ \E p \in Procs : Acts(p)
                  \/ \E a \in Auths : Land(a) \/ Cancel(a)
                  \/ Tick \/ UNCHANGED vars
  BY DEF Next, Steps, Acts, Opens, Early, Stores, Brieves, Settles, Redeems

LEMMA ActTypes ==
  ASSUME TypeInv, NEW p \in Procs, Acts(p)
  PROVE  Others /\ \E r \in Request : Moves(p, r)
<1> DEFINE Done == Others /\ \E r : Moves(p, r)
<1>1. ASSUME Opens(p) PROVE Done
  BY <1>1, OpenMoves DEF Opens
<1>2. ASSUME Early(p) PROVE Done
  BY <1>2, TakenMoves, RefuseMoves, VerifyMoves, ProbeMoves DEF Early
<1>3. ASSUME Stores(p) PROVE Done
  BY <1>3, ClaimMoves, ThrowClaimMoves, ReleaseMoves, CheckNonceMoves DEF Stores
<1>4. ASSUME Brieves(p) PROVE Done
  BY <1>4, ReserveSpendMoves, ReserveSlotMoves, UnspendMoves, ResearchMoves,
     DeclineMoves, UnslotMoves, CacheBriefMoves DEF Brieves
<1>5. ASSUME Settles(p) PROVE Done
  BY <1>5, SendSettleMoves, SettleOkMoves, UnconfirmedMoves, RefundMoves,
     MarkMoves, AnswerMoves DEF Settles, SettleFails, WorkOk, WorkFails
<1>6. ASSUME Redeems(p) PROVE Done
  BY <1>6, RedeemMoves, ThrowRedeemMoves, AnswerMoves, UnconfirmedMoves,
     ReworkUnreadMoves DEF Redeems, ReworkOk, ReworkFails
<1>7. ASSUME Crash(p) PROVE Done
  BY <1>7, CrashMoves
<1>8. Done
  BY <1>1, <1>2, <1>3, <1>4, <1>5, <1>6, <1>7 DEF Acts
<1> QED BY <1>8 DEF Moves

LEMMA NextTypes == TypeInv /\ [Next]_vars => TypeInv'
<1> SUFFICES ASSUME TypeInv, [Next]_vars PROVE TypeInv'
  OBVIOUS
<1>1. ASSUME NEW p \in Procs, Acts(p) PROVE TypeInv'
  BY <1>1, ActTypes, Typed DEF Moves
<1>2. ASSUME NEW a \in Auths, Land(a) \/ Cancel(a) PROVE TypeInv'
  BY <1>2, LedgerTypes, Typed
<1>3. ASSUME Tick PROVE TypeInv'
  BY <1>3, TickTypes, Typed
<1>4. ASSUME UNCHANGED vars PROVE TypeInv'
  BY <1>4 DEF TypeInv, vars, store, seen, meters
<1> QED BY <1>1, <1>2, <1>3, <1>4, NextIs

LEMMA InitTypes == Init => TypeInv
  BY Values DEF Init, TypeInv

----------------------------------------------------------------------------
(* The counters: what requests under way have reserved and will give back.    *)

\* Brief runs begun whose payment is open.
Running == {"research", "unslot", "cache", "settle", "asked"}
InRuns(q, u) ==
  q.auth \in Briefs /\ PayerOf[q.auth] = u /\ q.pc \in Running
\* ... and those whose slot is to be given back.
InSlotted(q, u) ==
  q.auth \in Briefs /\ PayerOf[q.auth] = u /\ q.pc \in Running \cup {"refund"}
\* The reserved runs that are not counted in what u has not paid.
InReserved(q, u) ==
  /\ q.auth \in Briefs
  /\ \/ q.pc \in {"slot", "unspend", "refund"}
     \/ PayerOf[q.auth] # u /\ q.pc \in Running
Runs(u)     == {p \in Procs : InRuns(req[p], u)}
Slotted(u)  == {p \in Procs : InSlotted(req[p], u)}
Reserved(u) == {p \in Procs : InReserved(req[p], u)}

CountInv ==
  /\ \A u \in Payers :
       /\ IsFiniteSet(Runs(u)) /\ unpaid[u] >= Cardinality(Runs(u))
       /\ IsFiniteSet(Slotted(u)) /\ slots[u] >= Cardinality(Slotted(u))
       /\ IsFiniteSet(Reserved(u)) /\ spend >= unpaid[u] + Cardinality(Reserved(u))
       /\ slots[u] <= SlotCap
  /\ spend <= SpendCap

\* A set that differs at one point at most.
One(b) == IF b THEN 1 ELSE 0
LEMMA Differ ==
  ASSUME NEW S, NEW T, NEW p, IsFiniteSet(S), S \ {p} = T \ {p}
  PROVE  /\ IsFiniteSet(T) /\ Cardinality(S) \in Nat /\ Cardinality(T) \in Nat
         /\ Cardinality(T) = Cardinality(S) + One(p \in T) - One(p \in S)
<1> DEFINE C == S \ {p}
<1>1. IsFiniteSet(C) /\ Cardinality(C) \in Nat /\ p \notin C
  BY FS_RemoveElement, FS_CardinalityType
<1>2. /\ IsFiniteSet(C \cup {p})
      /\ Cardinality(C \cup {p}) = Cardinality(C) + 1
  BY <1>1, FS_AddElement
<1>3. S = IF p \in S THEN C \cup {p} ELSE C
  OBVIOUS
<1>4. T = IF p \in T THEN C \cup {p} ELSE C
  OBVIOUS
<1> HIDE DEF C
<1>5. Cardinality(S) = Cardinality(C) + One(p \in S)
  <2>1. CASE p \in S
    BY <1>2, <1>3, <2>1 DEF One
  <2>2. CASE p \notin S
    <3>1. One(p \in S) = 0 /\ S = C
      BY <1>3, <2>2 DEF One
    <3> QED BY <1>1, <3>1
  <2> QED BY <2>1, <2>2
<1>6. IsFiniteSet(T) /\ Cardinality(T) = Cardinality(C) + One(p \in T)
  <2>1. CASE p \in T
    BY <1>2, <1>4, <2>1 DEF One
  <2>2. CASE p \notin T
    <3>1. One(p \in T) = 0 /\ T = C
      BY <1>4, <2>2 DEF One
    <3> QED BY <1>1, <3>1
  <2> QED BY <2>1, <2>2
<1>7. One(p \in S) \in Int /\ One(p \in T) \in Int
  BY DEF One
<1>8. Cardinality(S) \in Nat /\ Cardinality(T) \in Nat
  BY <1>6, FS_CardinalityType
<1> QED BY <1>1, <1>5, <1>6, <1>7, <1>8

\* When the request p becomes r, its counters pay for what it then has reserved.
Pays(p, r) ==
  /\ \A u \in Payers :
       /\ unpaid'[u] - unpaid[u] >= One(InRuns(r, u)) - One(InRuns(req[p], u))
       /\ slots'[u] - slots[u] >= One(InSlotted(r, u)) - One(InSlotted(req[p], u))
       /\ spend' - spend >= unpaid'[u] - unpaid[u]
                            + One(InReserved(r, u)) - One(InReserved(req[p], u))
       /\ slots'[u] <= SlotCap
  /\ spend' <= SpendCap

LEMMA CountStep ==
  ASSUME TypeInv, CountInv, Others, NEW p \in Procs, NEW r \in Request,
         Moves(p, r), Pays(p, r)
  PROVE  CountInv'
<1> SUFFICES ASSUME NEW u \in Payers
             PROVE  /\ IsFiniteSet(Runs(u)') /\ unpaid'[u] >= Cardinality(Runs(u)')
                    /\ IsFiniteSet(Slotted(u)')
                    /\ slots'[u] >= Cardinality(Slotted(u)')
                    /\ IsFiniteSet(Reserved(u)')
                    /\ spend' >= unpaid'[u] + Cardinality(Reserved(u)')
  BY DEF Pays, CountInv
<1>1. /\ unpaid[u] \in Int /\ slots[u] \in Int /\ spend \in Int
      /\ unpaid'[u] \in Int /\ slots'[u] \in Int /\ spend' \in Int
  BY DEF TypeInv, Others
<1>2. \A b : One(b) \in Int
  BY DEF One
<1>3. /\ IsFiniteSet(Runs(u)') /\ Cardinality(Runs(u)) \in Nat
      /\ Cardinality(Runs(u)') \in Nat
      /\ Cardinality(Runs(u)') = Cardinality(Runs(u)) + One(InRuns(r, u))
                                 - One(InRuns(req[p], u))
  <2>1. Runs(u) \ {p} = Runs(u)' \ {p}
    BY DEF Runs, InRuns, Moves
  <2>2. (p \in Runs(u) <=> InRuns(req[p], u)) /\ (p \in Runs(u)' <=> InRuns(r, u))
    BY DEF Runs, InRuns, Moves
  <2>3. IsFiniteSet(Runs(u))
    BY DEF CountInv
  <2>4. /\ IsFiniteSet(Runs(u)') /\ Cardinality(Runs(u)) \in Nat
        /\ Cardinality(Runs(u)') \in Nat
        /\ Cardinality(Runs(u)') = Cardinality(Runs(u)) + One(p \in Runs(u)')
                                   - One(p \in Runs(u))
    BY <2>1, <2>3, Differ, ZenonT(30)
  <2> QED BY <2>2, <2>4 DEF One
<1>4. /\ IsFiniteSet(Slotted(u)') /\ Cardinality(Slotted(u)) \in Nat
      /\ Cardinality(Slotted(u)') \in Nat
      /\ Cardinality(Slotted(u)') = Cardinality(Slotted(u)) + One(InSlotted(r, u))
                                    - One(InSlotted(req[p], u))
  <2>1. Slotted(u) \ {p} = Slotted(u)' \ {p}
    BY DEF Slotted, InSlotted, Moves
  <2>2. /\ p \in Slotted(u) <=> InSlotted(req[p], u)
        /\ p \in Slotted(u)' <=> InSlotted(r, u)
    BY DEF Slotted, InSlotted, Moves
  <2>3. IsFiniteSet(Slotted(u))
    BY DEF CountInv
  <2>4. /\ IsFiniteSet(Slotted(u)') /\ Cardinality(Slotted(u)) \in Nat
        /\ Cardinality(Slotted(u)') \in Nat
        /\ Cardinality(Slotted(u)') = Cardinality(Slotted(u))
                                      + One(p \in Slotted(u)') - One(p \in Slotted(u))
    BY <2>1, <2>3, Differ, ZenonT(30)
  <2> QED BY <2>2, <2>4 DEF One
<1>5. /\ IsFiniteSet(Reserved(u)') /\ Cardinality(Reserved(u)) \in Nat
      /\ Cardinality(Reserved(u)') \in Nat
      /\ Cardinality(Reserved(u)') = Cardinality(Reserved(u))
                              + One(InReserved(r, u)) - One(InReserved(req[p], u))
  <2>1. Reserved(u) \ {p} = Reserved(u)' \ {p}
    BY DEF Reserved, InReserved, Moves
  <2>2. /\ p \in Reserved(u) <=> InReserved(req[p], u)
        /\ p \in Reserved(u)' <=> InReserved(r, u)
    BY DEF Reserved, InReserved, Moves
  <2>3. IsFiniteSet(Reserved(u))
    BY DEF CountInv
  <2>4. /\ IsFiniteSet(Reserved(u)') /\ Cardinality(Reserved(u)) \in Nat
        /\ Cardinality(Reserved(u)') \in Nat
        /\ Cardinality(Reserved(u)') = Cardinality(Reserved(u))
                                   + One(p \in Reserved(u)') - One(p \in Reserved(u))
    BY <2>1, <2>3, Differ, ZenonT(30)
  <2> QED BY <2>2, <2>4 DEF One
<1>6. /\ unpaid[u] >= Cardinality(Runs(u)) /\ slots[u] >= Cardinality(Slotted(u))
      /\ spend >= unpaid[u] + Cardinality(Reserved(u))
  BY DEF CountInv
<1>7. /\ unpaid'[u] - unpaid[u] >= One(InRuns(r, u)) - One(InRuns(req[p], u))
      /\ slots'[u] - slots[u] >= One(InSlotted(r, u)) - One(InSlotted(req[p], u))
      /\ spend' - spend >= unpaid'[u] - unpaid[u]
                           + One(InReserved(r, u)) - One(InReserved(req[p], u))
  BY DEF Pays
<1>8. /\ One(InRuns(r, u)) \in Int /\ One(InRuns(req[p], u)) \in Int
      /\ One(InSlotted(r, u)) \in Int /\ One(InSlotted(req[p], u)) \in Int
      /\ One(InReserved(r, u)) \in Int /\ One(InReserved(req[p], u)) \in Int
  BY DEF One
<1>9. unpaid'[u] >= Cardinality(Runs(u)')
  BY <1>1, <1>3, <1>6, <1>7, <1>8
<1>10. slots'[u] >= Cardinality(Slotted(u)')
  BY <1>1, <1>4, <1>6, <1>7, <1>8
<1>11. spend' >= unpaid'[u] + Cardinality(Reserved(u)')
  BY <1>1, <1>5, <1>6, <1>7, <1>8
<1> QED BY <1>3, <1>4, <1>5, <1>9, <1>10, <1>11

Counting == Running \cup {"slot", "unspend", "refund"}
\* Where the request goes nothing is reserved, or what was reserved stays.
Light(q, r) == \/ r.pc \notin Counting \/ r.auth \notin Briefs
               \/ r.auth = q.auth /\ q.pc \in Running /\ r.pc \in Running

LEMMA LightPays ==
  ASSUME TypeInv, CountInv, NEW p \in Procs, NEW r \in Request,
         UNCHANGED <<spend, slots, unpaid>>, Light(req[p], r)
  PROVE  Pays(p, r)
<1>1. ASSUME NEW u \in Payers
      PROVE  /\ InRuns(r, u) => InRuns(req[p], u)
             /\ InSlotted(r, u) => InSlotted(req[p], u)
             /\ InReserved(r, u) => InReserved(req[p], u)
  BY DEF InRuns, InSlotted, InReserved, Light, Counting, Running
<1>2. ASSUME NEW u \in Payers
      PROVE  /\ unpaid[u] \in Int /\ slots[u] \in Int /\ spend \in Int
             /\ slots[u] <= SlotCap /\ spend <= SpendCap
  BY DEF TypeInv, CountInv
<1>3. spend <= SpendCap
  BY DEF CountInv
<1> QED BY <1>1, <1>2, <1>3 DEF Pays, One

LEMMA LightCount ==
  ASSUME TypeInv, CountInv, Others, NEW p \in Procs, NEW r, Moves(p, r),
         UNCHANGED <<spend, slots, unpaid>>, Light(req[p], r)
  PROVE  CountInv'
<1>1. r \in Request
  BY DEF Moves
<1> QED BY <1>1, LightPays, CountStep

\* What a request of a brief has reserved before and after it goes to l, against
\* what it does to the counters: its own payer's, and the spend.
Gain(S, p, l) == One(l \in S) - One(req[p].pc \in S)
Covers(p, l) ==
  LET u == Payer(p) IN
    /\ \A v \in Payers : v # u => unpaid'[v] = unpaid[v] /\ slots'[v] = slots[v]
    /\ unpaid'[u] - unpaid[u] >= Gain(Running, p, l)
    /\ slots'[u] - slots[u] >= Gain(Running \cup {"refund"}, p, l)
    /\ spend' - spend >= unpaid'[u] - unpaid[u]
                         + Gain({"slot", "unspend", "refund"}, p, l)
    /\ spend' - spend >= Gain(Counting, p, l)
    /\ slots'[u] <= SlotCap /\ spend' <= SpendCap

LEMMA BriefCount ==
  ASSUME TypeInv, CountInv, Others, NEW p \in Procs, NEW l \in Labels, Brief(p),
         Moves(p, [req[p] EXCEPT !.pc = l]), Covers(p, l)
  PROVE  CountInv'
<1> DEFINE r == [req[p] EXCEPT !.pc = l]
           u0 == Payer(p)
<1>1. r \in Request /\ req[p] \in Request
  BY Values DEF Moves
<1>2. r.auth = req[p].auth /\ r.pc = l /\ req[p].auth \in Briefs
  BY <1>1 DEF Request, Brief, Auth
<1>3. u0 = PayerOf[req[p].auth] /\ u0 \in Payers
  BY Values DEF Payer, Auth
<1>4. Moves(p, r) /\ Covers(p, l)
  OBVIOUS
<1> HIDE DEF r
<1>5. ASSUME NEW u \in Payers
      PROVE  /\ unpaid'[u] - unpaid[u] >= One(InRuns(r, u)) - One(InRuns(req[p], u))
             /\ slots'[u] - slots[u] >= One(InSlotted(r, u))
                                        - One(InSlotted(req[p], u))
             /\ spend' - spend >= unpaid'[u] - unpaid[u]
                               + One(InReserved(r, u)) - One(InReserved(req[p], u))
             /\ slots'[u] <= SlotCap
  <2>1. /\ unpaid[u] \in Int /\ slots[u] \in Int /\ spend \in Int /\ spend' \in Int
        /\ unpaid'[u] \in Int /\ slots'[u] \in Int /\ slots[u] <= SlotCap
    BY DEF TypeInv, CountInv, Others
  <2>2. /\ One(InReserved(r, u)) \in Int /\ One(InReserved(req[p], u)) \in Int
    BY DEF One
  <2>3. CASE u = u0
    <3>1. /\ One(InRuns(r, u)) - One(InRuns(req[p], u)) = Gain(Running, p, l)
          /\ One(InSlotted(r, u)) - One(InSlotted(req[p], u))
               = Gain(Running \cup {"refund"}, p, l)
          /\ One(InReserved(r, u)) - One(InReserved(req[p], u))
               = Gain({"slot", "unspend", "refund"}, p, l)
      BY <1>2, <1>3, <2>3 DEF InRuns, InSlotted, InReserved, One, Gain
    <3>2. Gain({"slot", "unspend", "refund"}, p, l) \in Int
      BY DEF Gain, One
    <3> QED BY <1>4, <2>1, <2>2, <2>3, <3>1, <3>2 DEF Covers
  <2>4. CASE u # u0
    <3>1. unpaid'[u] = unpaid[u] /\ slots'[u] = slots[u]
      BY <1>4, <2>4 DEF Covers
    <3>2. /\ One(InRuns(r, u)) = 0 /\ One(InRuns(req[p], u)) = 0
          /\ One(InSlotted(r, u)) = 0 /\ One(InSlotted(req[p], u)) = 0
      BY <1>2, <1>3, <2>4 DEF InRuns, InSlotted, One
    <3>3. One(InReserved(r, u)) - One(InReserved(req[p], u)) = Gain(Counting, p, l)
      BY <1>2, <1>3, <2>4 DEF InReserved, One, Counting, Gain
    <3> QED BY <1>4, <2>1, <2>2, <3>1, <3>2, <3>3 DEF Covers
  <2> QED BY <2>3, <2>4
<1>6. Pays(p, r)
  BY <1>4, <1>5 DEF Pays, Covers
<1> QED BY <1>1, <1>4, <1>6, CountStep

\* The steps that reserve and give back.
LEMMA ReserveSpendCount ==
  ASSUME TypeInv, CountInv, NEW p \in Procs, ReserveSpend(p), Brief(p)
  PROVE  CountInv'
<1>1. Others /\ UNCHANGED <<slots, unpaid>> /\ req[p].pc = "spend"
  BY ReserveSpendMoves DEF ReserveSpend, seen, At
<1>2. PICK l \in {"slot", "release"} : /\ Moves(p, [req[p] EXCEPT !.pc = l])
                                       /\ l = "slot" => spend' = spend + 1
                                       /\ \/ spend' = spend
                                          \/ spend < SpendCap /\ spend' = spend + 1
  BY ReserveSpendMoves
<1>3. /\ unpaid[Payer(p)] \in Int /\ slots[Payer(p)] \in Int /\ spend \in Int
      /\ slots[Payer(p)] <= SlotCap /\ spend <= SpendCap /\ SpendCap \in Int
  BY Values, SyncAssumption DEF TypeInv, CountInv
<1>4. Covers(p, l)
  BY <1>1, <1>2, <1>3 DEF Covers, Gain, One, Running, Counting
<1> QED BY <1>1, <1>2, <1>4, BriefCount DEF Labels, Owning

LEMMA ReserveSlotCount ==
  ASSUME TypeInv, CountInv, NEW p \in Procs, ReserveSlot(p), Brief(p)
  PROVE  CountInv'
<1>1. Others /\ UNCHANGED spend /\ req[p].pc = "slot"
  BY ReserveSlotMoves DEF ReserveSlot, At
<1>2. /\ unpaid[Payer(p)] \in Int /\ slots[Payer(p)] \in Int /\ spend \in Int
      /\ slots[Payer(p)] <= SlotCap /\ spend <= SpendCap /\ SlotCap \in Int
  BY Values, SyncAssumption DEF TypeInv, CountInv
<1>3. PICK l \in {"research", "unspend"} :
        /\ Moves(p, [req[p] EXCEPT !.pc = l])
        /\ \/ slots' = slots /\ l = "unspend"
           \/ SlotFree(p) /\ SlotTaken(p)
        /\ IF l = "research" THEN unpaid' = [unpaid EXCEPT ![Payer(p)] = @ + 1]
                             ELSE unpaid' = unpaid
  BY ReserveSlotMoves
<1>4. \A v \in Payers : v # Payer(p) => /\ unpaid'[v] = unpaid[v]
                                        /\ slots'[v] = slots[v]
  BY <1>3 DEF SlotTaken, TypeInv
<1>5. /\ unpaid'[Payer(p)] = unpaid[Payer(p)] + One(l = "research")
      /\ slots'[Payer(p)] <= SlotCap
      /\ \/ slots'[Payer(p)] = slots[Payer(p)] /\ l = "unspend"
         \/ slots'[Payer(p)] = slots[Payer(p)] + 1
  BY <1>2, <1>3, Values DEF SlotTaken, SlotFree, TypeInv, One
<1>6. Covers(p, l)
  BY <1>1, <1>2, <1>4, <1>5 DEF Covers, Gain, One, Running, Counting
<1> QED BY <1>1, <1>3, <1>6, BriefCount DEF Labels, Owning

LEMMA UnspendCount ==
  ASSUME TypeInv, CountInv, NEW p \in Procs, Unspend(p), Brief(p)
  PROVE  CountInv'
<1>1. /\ Others /\ UNCHANGED <<slots, unpaid>> /\ req[p].pc = "unspend"
      /\ Moves(p, [req[p] EXCEPT !.pc = "release"]) /\ spend' \in {spend, spend - 1}
  BY UnspendMoves DEF Unspend, seen, At
<1>2. /\ unpaid[Payer(p)] \in Int /\ slots[Payer(p)] \in Int /\ spend \in Int
      /\ slots[Payer(p)] <= SlotCap /\ spend <= SpendCap /\ SpendCap \in Int
  BY Values, SyncAssumption DEF TypeInv, CountInv
<1>3. Covers(p, "release")
  BY <1>1, <1>2 DEF Covers, Gain, One, Running, Counting
<1> QED BY <1>1, <1>3, BriefCount DEF Labels, Owning

LEMMA UnslotCount ==
  ASSUME TypeInv, CountInv, NEW p \in Procs, Unslot(p), Brief(p)
  PROVE  CountInv'
<1>1. /\ Others /\ UNCHANGED <<spend, unpaid>> /\ req[p].pc = "unslot"
      /\ Moves(p, [req[p] EXCEPT !.pc = "release"])
      /\ slots' \in {slots, [slots EXCEPT ![Payer(p)] = @ - 1]}
  BY UnslotMoves DEF Unslot, seen, At
<1>2. /\ unpaid[Payer(p)] \in Int /\ slots[Payer(p)] \in Int /\ spend \in Int
      /\ slots[Payer(p)] <= SlotCap /\ spend <= SpendCap /\ SlotCap \in Int
  BY Values, SyncAssumption DEF TypeInv, CountInv
<1>3. /\ \A v \in Payers : v # Payer(p) => slots'[v] = slots[v]
      /\ slots'[Payer(p)] \in {slots[Payer(p)], slots[Payer(p)] - 1}
  BY <1>1, Values DEF TypeInv
<1>4. Covers(p, "release")
  BY <1>1, <1>2, <1>3 DEF Covers, Gain, One, Running, Counting
<1> QED BY <1>1, <1>4, BriefCount DEF Labels, Owning

LEMMA SettleOkCount ==
  ASSUME TypeInv, CountInv, NEW p \in Procs, SettleOk(p), Brief(p)
  PROVE  CountInv'
<1>1. /\ Others /\ UNCHANGED <<spend, slots>> /\ req[p].pc = "asked"
      /\ Moves(p, [req[p] EXCEPT !.pc = "refund"])
      /\ unpaid' = [unpaid EXCEPT ![Payer(p)] = @ - 1]
  BY SettleOkMoves DEF SettleOk, store, At
<1>2. /\ unpaid[Payer(p)] \in Int /\ slots[Payer(p)] \in Int /\ spend \in Int
      /\ slots[Payer(p)] <= SlotCap /\ spend <= SpendCap /\ SlotCap \in Int
  BY Values, SyncAssumption DEF TypeInv, CountInv
<1>3. /\ \A v \in Payers : v # Payer(p) => unpaid'[v] = unpaid[v]
      /\ unpaid'[Payer(p)] = unpaid[Payer(p)] - 1
  BY <1>1, Values DEF TypeInv
<1>4. Covers(p, "refund")
  BY <1>1, <1>2, <1>3 DEF Covers, Gain, One, Running, Counting
<1> QED BY <1>1, <1>4, BriefCount DEF Labels, Owning

LEMMA RefundCount ==
  ASSUME TypeInv, CountInv, NEW p \in Procs, Refund(p), Brief(p)
  PROVE  CountInv'
<1>1. /\ Others /\ UNCHANGED unpaid /\ req[p].pc = "refund"
      /\ Moves(p, [req[p] EXCEPT !.pc = "mark"])
      /\ slots' \in {slots, [slots EXCEPT ![Payer(p)] = @ - 1]}
      /\ spend' \in {spend, spend - 1}
  BY RefundMoves DEF Refund, seen, At
<1>2. /\ unpaid[Payer(p)] \in Int /\ slots[Payer(p)] \in Int /\ spend \in Int
      /\ slots[Payer(p)] <= SlotCap /\ spend <= SpendCap
      /\ SlotCap \in Int /\ SpendCap \in Int
  BY Values, SyncAssumption DEF TypeInv, CountInv
<1>3. /\ \A v \in Payers : v # Payer(p) => slots'[v] = slots[v]
      /\ slots'[Payer(p)] \in {slots[Payer(p)], slots[Payer(p)] - 1}
  BY <1>1, Values DEF TypeInv
<1>4. Covers(p, "mark")
  BY <1>1, <1>2, <1>3 DEF Covers, Gain, One, Running, Counting
<1> QED BY <1>1, <1>4, BriefCount DEF Labels, Owning

----------------------------------------------------------------------------
(* The claim and its worker. *)

\* The claim of the request p is its own, and will not lapse under it.
Owns(p) ==
  LET q == req[p]  c == claim[q.auth] IN
    /\ \/ /\ c.s = "inflight" /\ now < c.exp
          /\ q.aged \/ now + 1 < c.exp
       \/ c.s = "settled" /\ q.pc = "work"
    /\ q.held = c \/ (q.pc = "work" /\ faults > 0)

\* What a request knows by where it is.
Knows(p) ==
  LET q == req[p]  a == q.auth  c == claim[a] IN
    /\ q.pc \in Owning => Owns(p) /\ c.rq = q.rq /\ q.held.rq = q.rq
    /\ q.pc = "rework" => q.held = c /\ c.s = "redeemed" /\ c.rq = q.rq
    /\ q.pc \in {"probe", "redeem"} =>
         /\ q.held.s = "unconfirmed" /\ q.held.rq = q.rq
         /\ q.held.landed => chain[a] = "paid"
    /\ q.pc \in {"refund", "mark", "work", "redeem", "rework"} =>
         chain[a] = "paid"
    /\ q.pc = "asked" => a \in sent
    /\ q.pc \in {"spend", "slot", "unspend", "research", "unslot", "cache",
                 "refund"} => a \in Briefs
    /\ q.pc = "work" => a \notin Briefs
    /\ a \in Briefs /\ q.pc \in {"settle", "asked", "refund", "mark", "rework"}
         => passed[a] = q.rq

\* Requests that will answer for what was sent.
Busy(a) == {p \in Procs : /\ Auth(p) = a
                          /\ req[p].pc \in {"asked", "refund", "mark", "work",
                                            "rework"}}
Sound(a) ==
  LET c == claim[a] IN
    /\ c.landed => chain[a] = "paid"
    /\ chain[a] = "paid" => a \in sent
    /\ a \in Briefs /\ c.s = "unconfirmed" => passed[a] = c.rq
    /\ delivered[a] <= 1
    /\ delivered[a] = 1 =>
         /\ chain[a] = "paid" /\ c.s # "unconfirmed"
         /\ \A p \in Working(a) : req[p].pc \in {"nonce", "release"}
    /\ a \in sent => lines[a] > 0 \/ crashes > 0 \/ delivered[a] = 1 \/ Busy(a) # {}
    /\ a \in sent /\ faults = 0 /\ crashes = 0 =>
         delivered[a] = 1 \/ Redeemable(a) \/ Busy(a) # {}
    /\ a \in declined /\ faults = 0 /\ crashes = 0 =>
         a \notin sent /\ c.s = "declined"

Alone(a) == \A p, q \in Working(a) : p = q
WorkInv == /\ \A p \in Procs : Knows(p)
           /\ \A a \in Auths : Sound(a) /\ Alone(a)

Works == Owning \cup {"rework"}
BusyAt == {"asked", "refund", "mark", "work", "rework"}

\* A step on a leaves the other authorizations alone.
Apart(a) ==
  \A b \in Auths \ {a} :
    /\ claim'[b] = claim[b] /\ passed'[b] = passed[b] /\ lines'[b] = lines[b]
    /\ delivered'[b] = delivered[b]
    /\ b \in sent' <=> b \in sent
    /\ b \in declined' <=> b \in declined
Grows == /\ now' = now /\ chain' = chain /\ sent \subseteq sent'
         /\ faults' >= faults /\ crashes' >= crashes

\* The workers after a step of p.
LEMMA Workers ==
  ASSUME TypeInv, NEW p \in Procs, NEW r \in Request, Moves(p, r), NEW b \in Auths
  PROVE  /\ \A q \in Procs : q # p => /\ q \in Working(b)' <=> q \in Working(b)
                                      /\ q \in Busy(b)' <=> q \in Busy(b)
         /\ p \in Working(b) <=> req[p].auth = b /\ req[p].pc \in Works
         /\ p \in Busy(b) <=> req[p].auth = b /\ req[p].pc \in BusyAt
         /\ p \in Working(b)' <=> r.auth = b /\ r.pc \in Works
         /\ p \in Busy(b)' <=> r.auth = b /\ r.pc \in BusyAt
         /\ Busy(b) \subseteq Working(b) /\ Busy(b)' \subseteq Working(b)'
  BY DEF Moves, Working, Busy, Auth, Works, BusyAt, Owning

LEMMA KnowsOn ==
  ASSUME TypeInv, Others, Grows, NEW q \in Procs, Knows(q), req'[q] = req[q],
         req[q].pc \in Works => /\ claim'[req[q].auth] = claim[req[q].auth]
                                /\ passed'[req[q].auth] = passed[req[q].auth]
  PROVE  Knows(q)'
<1>1. CASE req[q].pc \in Works
  <2>1. faults > 0 => faults' > 0
    BY DEF Grows, TypeInv, Others
  <2> QED BY <1>1, <2>1 DEF Knows, Owns, Grows, Works, Owning
<1>2. CASE req[q].pc \notin Works
  BY <1>2 DEF Knows, Grows, Works, Owning
<1> QED BY <1>1, <1>2

LEMMA SoundElsewhere ==
  ASSUME TypeInv, Others, NEW p \in Procs, NEW r \in Request, Moves(p, r),
         NEW a \in Auths, Apart(a), Grows,
         req[p].pc = "idle" \/ req[p].auth = a, r.pc = "idle" \/ r.auth = a,
         NEW b \in Auths, b # a, Sound(b), Alone(b)
  PROVE  Sound(b)' /\ Alone(b)'
<1>1. p \notin Working(b) /\ p \notin Working(b)'
  BY Workers DEF Works, Owning
<1>2. Working(b)' = Working(b)
  BY <1>1, Workers DEF Working
<1>3. Busy(b)' = Busy(b)
  BY <1>1, Workers DEF Busy
<1>4. \A q \in Working(b) : req'[q] = req[q]
  BY <1>1 DEF Moves, Working
<1>5. faults' = 0 /\ crashes' = 0 => faults = 0 /\ crashes = 0
  BY DEF Grows, TypeInv, Others
<1>6. crashes > 0 => crashes' > 0
  BY DEF Grows, TypeInv, Others
<1>7. Alone(b)'
  BY <1>2 DEF Alone
<1>8. Redeemable(b)' <=> Redeemable(b)
  BY DEF Apart, Redeemable
<1> QED BY <1>2, <1>3, <1>4, <1>5, <1>6, <1>7, <1>8 DEF Sound, Apart, Grows

\* What is left to show of a step of p on a.
LEMMA WorkStep ==
  ASSUME TypeInv, WorkInv, Others, NEW p \in Procs, NEW r \in Request, Moves(p, r),
         NEW a \in Auths, Apart(a), Grows,
         req[p].pc = "idle" \/ req[p].auth = a, r.pc = "idle" \/ r.auth = a,
         \/ p \in Working(a) \/ Working(a) = {}
         \/ claim'[a] = claim[a] /\ passed'[a] = passed[a],
         r.pc \in Works => p \in Working(a) \/ Working(a) = {},
         Knows(p)', Sound(a)'
  PROVE  WorkInv'
<1>1. ASSUME NEW q \in Procs, q # p PROVE Knows(q)'
  <2>1. req'[q] = req[q] /\ Knows(q)
    BY <1>1 DEF Moves, WorkInv
  <2>2. req[q].pc \in Works => /\ claim'[req[q].auth] = claim[req[q].auth]
                               /\ passed'[req[q].auth] = passed[req[q].auth]
    <3> SUFFICES ASSUME req[q].pc \in Works
                 PROVE  /\ claim'[req[q].auth] = claim[req[q].auth]
                        /\ passed'[req[q].auth] = passed[req[q].auth]
      OBVIOUS
    <3>1. req[q].auth \in Auths
      BY Values DEF Auth
    <3>2. CASE req[q].auth # a
      BY <3>1, <3>2 DEF Apart
    <3>3. CASE req[q].auth = a
      <4>1. q \in Working(a)
        BY <3>3 DEF Working, Auth, Works
      <4>2. p \notin Working(a)
        BY <1>1, <4>1 DEF WorkInv, Alone
      <4> QED BY <3>3, <4>1, <4>2
    <3> QED BY <3>2, <3>3
  <2> QED BY <2>1, <2>2, KnowsOn
<1>2. ASSUME NEW b \in Auths, b # a PROVE Sound(b)' /\ Alone(b)'
  BY <1>2, SoundElsewhere DEF WorkInv
<1>3. Alone(a)'
  <2>1. CASE p \in Working(a)'
    <3>1. p \in Working(a) \/ Working(a) = {}
      BY <2>1, Workers
    <3>2. Working(a) \subseteq {p}
      BY <3>1 DEF WorkInv, Alone
    <3>3. Working(a)' \subseteq {p}
      BY <3>2, Workers DEF Working
    <3> QED BY <3>3 DEF Alone
  <2>2. CASE p \notin Working(a)'
    <3>1. Working(a)' \subseteq Working(a)
      BY <2>2, Workers DEF Working
    <3> QED BY <3>1 DEF WorkInv, Alone
  <2> QED BY <2>1, <2>2
<1> QED BY <1>1, <1>2, <1>3 DEF WorkInv

\* A worker knows that nobody else works on its authorization; before it settles,
\* that what was submitted was answered for.
LEMMA Worker ==
  ASSUME TypeInv, WorkInv, NEW p \in Procs, req[p].pc \in Works
  PROVE  LET a == Auth(p)  c == claim[Auth(p)] IN
           /\ p \in Working(a) /\ Working(a) = {p} /\ Live(a)
           /\ req[p].pc \notin {"nonce", "release"} => delivered[a] = 0
           /\ c.s \in {"inflight", "settled", "redeemed"}
           /\ req[p].pc = "work" \/ Current(p)
           /\ faults = 0 => Current(p)
           /\ faults = 0 /\ crashes = 0 => a \notin declined
           /\ req[p].pc \notin BusyAt =>
                /\ Busy(a) = {} /\ c.s = "inflight"
                /\ a \in sent => lines[a] > 0 \/ crashes > 0 \/ delivered[a] = 1
                /\ a \in sent /\ faults = 0 /\ crashes = 0 => delivered[a] = 1
<1> DEFINE a == Auth(p)
           c == claim[a]
<1>1. a \in Auths /\ p \in Working(a) /\ Knows(p) /\ Sound(a) /\ Alone(a)
  BY Values DEF Working, Works, WorkInv
<1>2. Working(a) = {p}
  BY <1>1 DEF Alone
<1>3. /\ c.s \in {"inflight", "settled", "redeemed"}
      /\ c.s = "inflight" => now < c.exp
      /\ req[p].pc \notin BusyAt => c.s = "inflight"
      /\ req[p].held = c \/ (req[p].pc = "work" /\ faults > 0)
  BY <1>1 DEF Knows, Owns, Works, BusyAt, Auth
<1>4. Live(a)
  BY <1>3 DEF Live
<1>5. Current(p) <=> c = req[p].held
  BY <1>4 DEF Current
<1>6. delivered[a] \in Nat /\ faults \in Nat
  BY <1>1 DEF TypeInv
<1>7. req[p].pc \notin {"nonce", "release"} => delivered[a] = 0
  BY <1>1, <1>6 DEF Sound
<1>8. req[p].pc \notin BusyAt => Busy(a) = {}
  BY <1>2 DEF Busy, Working, BusyAt, Owning
<1> QED BY <1>1, <1>2, <1>3, <1>4, <1>5, <1>6, <1>7, <1>8 DEF Sound, Redeemable

\* A step that leaves the claim and what was submitted.
Keeps(a) == /\ claim'[a] = claim[a] /\ lines'[a] = lines[a]
            /\ delivered'[a] = delivered[a]
            /\ a \in sent' <=> a \in sent
            /\ a \in declined' <=> a \in declined
            /\ passed'[a] = passed[a] \/ claim[a].s # "unconfirmed"

LEMMA SoundKept ==
  ASSUME TypeInv, Others, NEW p \in Procs, NEW r \in Request, Moves(p, r),
         NEW a \in Auths, Keeps(a), Grows, Sound(a),
         p \in Busy(a) => p \in Busy(a)' \/ crashes' > 0,
         p \in Working(a)' => delivered[a] = 0 \/ r.pc \in {"nonce", "release"}
  PROVE  Sound(a)'
<1>1. Busy(a) = {} \/ Busy(a)' # {} \/ crashes' > 0
  BY Workers DEF Busy
<1>2. \A q \in Working(a)' : q # p => q \in Working(a) /\ req'[q] = req[q]
  BY Workers DEF Working, Moves
<1>3. p \in Working(a)' => req'[p].pc = r.pc
  BY DEF Moves
<1>4. faults' = 0 /\ crashes' = 0 => faults = 0 /\ crashes = 0
  BY DEF Grows, TypeInv, Others
<1>5. crashes > 0 => crashes' > 0
  BY DEF Grows, TypeInv, Others
<1>6. Redeemable(a)' <=> Redeemable(a)
  BY DEF Keeps, Redeemable
<1>7. chain' = chain
  BY DEF Grows
<1> USE DEF Keeps, Sound
<1>8. (claim[a].landed => chain[a] = "paid")' /\ (chain[a] = "paid" => a \in sent)'
  BY <1>7
<1>9. (a \in Briefs /\ claim[a].s = "unconfirmed" => passed[a] = claim[a].rq)'
  OBVIOUS
<1>10. (delivered[a] <= 1)'
  OBVIOUS
<1>11. (delivered[a] = 1 =>
         /\ chain[a] = "paid" /\ claim[a].s # "unconfirmed"
         /\ \A q \in Working(a) : req[q].pc \in {"nonce", "release"})'
  BY <1>2, <1>3, <1>7
<1>12. (a \in sent => lines[a] > 0 \/ crashes > 0 \/ delivered[a] = 1
                      \/ Busy(a) # {})'
  BY <1>1, <1>5
<1>13. (a \in sent /\ faults = 0 /\ crashes = 0 =>
          delivered[a] = 1 \/ Redeemable(a) \/ Busy(a) # {})'
  <2>1. crashes' = 0 => ~(crashes' > 0)
    BY DEF Others
  <2> QED BY <1>1, <1>4, <1>6, <2>1
<1>14. (a \in declined /\ faults = 0 /\ crashes = 0 =>
          a \notin sent /\ claim[a].s = "declined")'
  BY <1>4
<1> QED BY <1>8, <1>9, <1>10, <1>11, <1>12, <1>13, <1>14

\* A step of p on its own authorization that keeps what the others rely on.
LEMMA QuietStep ==
  ASSUME TypeInv, WorkInv, Others, NEW p \in Procs, NEW r \in Request, Moves(p, r),
         NEW a \in Auths, a = Auth(p), Keeps(a), Apart(a), Grows,
         r.pc = "idle" \/ r.auth = a,
         req[p].pc \in Works \/ r.pc \notin Works,
         req[p].pc \in Works \/ passed'[a] = passed[a],
         req[p].pc \in BusyAt /\ crashes' = 0 => r.pc \in BusyAt,
         \/ r.pc \in {"idle", "nonce", "release"}
         \/ req[p].pc \notin {"nonce", "release"}
         \/ delivered[a] = 0,
         Knows(p)'
  PROVE  WorkInv'
<1>1. a = req[p].auth /\ Sound(a) /\ crashes' \in Nat
  BY DEF WorkInv, Auth, Others
<1>2. p \in Busy(a) => p \in Busy(a)' \/ crashes' > 0
  <2>1. "idle" \notin BusyAt
    BY DEF BusyAt
  <2> QED BY <1>1, <2>1, Workers
<1>3. p \in Working(a)' => delivered[a] = 0 \/ r.pc \in {"nonce", "release"}
  <2> SUFFICES ASSUME p \in Working(a)', r.pc \notin {"nonce", "release"}
               PROVE  delivered[a] = 0
    OBVIOUS
  <2>1. r.pc \in Works
    BY <1>1, Workers
  <2>2. req[p].pc \in Works /\ r.pc # "idle"
    BY <2>1 DEF Works, Owning
  <2> QED BY <2>2, Worker
<1>4. Sound(a)'
  BY <1>1, <1>2, <1>3, SoundKept
<1>5. p \in Working(a) <=> req[p].pc \in Works
  BY <1>1, Workers
<1>6. claim'[a] = claim[a]
  BY DEF Keeps
<1>7. /\ req[p].pc = "idle" \/ req[p].auth = a
      /\ \/ p \in Working(a) \/ Working(a) = {}
         \/ claim'[a] = claim[a] /\ passed'[a] = passed[a]
      /\ r.pc \in Works => p \in Working(a) \/ Working(a) = {}
  BY <1>1, <1>5, <1>6
<1> QED BY <1>4, <1>7, WorkStep

LEMMA KnowsEnded ==
  ASSUME NEW p \in Procs, Moves(p, Idle)
  PROVE  Knows(p)'
  BY DEF Moves, Idle, Knows, Owning

\* An owner goes on from before its work to before its work.
BriefAt == {"spend", "slot", "unspend", "research", "unslot", "cache", "refund"}
LEMMA KnowsGoes ==
  ASSUME TypeInv, Grows, Others, NEW p \in Procs, Knows(p), NEW a \in Auths,
         a = Auth(p), claim'[a] = claim[a], NEW l \in Owning \ {"work"},
         req[p].pc \in Owning \ {"work"}, Moves(p, [req[p] EXCEPT !.pc = l]),
         l \in BriefAt => a \in Briefs,
         l \in {"refund", "mark"} => chain[a] = "paid",
         l = "asked" => a \in sent',
         a \in Briefs /\ l \in {"settle", "asked", "refund", "mark"}
           => passed'[a] = req[p].rq
  PROVE  Knows(p)'
<1> DEFINE r == [req[p] EXCEPT !.pc = l]
<1>1. req[p] \in Request
  BY Values
<1>2. /\ r.pc = l /\ r.auth = a /\ r.rq = req[p].rq /\ r.held = req[p].held
      /\ r.aged = req[p].aged
  BY <1>1 DEF Request, Auth
<1>3. req'[p] = r
  BY DEF Moves
<1> HIDE DEF r
<1>4. now' = now /\ chain' = chain
  BY DEF Grows
<1>5. Owns(p) /\ claim[a].rq = req[p].rq /\ req[p].held.rq = req[p].rq
  BY DEF Knows, Auth
<1>6. Owns(p)'
  BY <1>2, <1>3, <1>4, <1>5 DEF Owns, Auth
<1>7. l \notin Redeeming
  BY DEF Owning, Redeeming
<1> QED BY <1>2, <1>3, <1>4, <1>5, <1>6, <1>7 DEF Knows, BriefAt, Redeeming

----------------------------------------------------------------------------
(* The steps that leave the claim. *)

LEMMA OpenWork ==
  ASSUME TypeInv, WorkInv, NEW p \in Procs, NEW a \in Auths, NEW rq \in Rqs,
         NEW proof \in 0..lines[a], Open(p, a, rq, proof)
  PROVE  WorkInv'
<1> DEFINE r == [Idle EXCEPT !.pc = "claim", !.auth = a, !.rq = rq, !.proof = proof]
<1>0. Others /\ Moves(p, r)
  BY OpenMoves
<1>1. Others /\ Moves(p, r) /\ r \in Request /\ req'[p] = r
  BY <1>0 DEF Moves
<1>2. r.pc = "claim" /\ r.auth = a /\ req[p].pc = "idle"
  BY DEF Idle, Open, At
<1> HIDE DEF r
<1>3. UNCHANGED <<store, seen, meters>>
  BY DEF Open
<1>4. Apart(a) /\ Grows /\ Keeps(a)
  BY <1>3 DEF Apart, Grows, Keeps, store, seen, meters, TypeInv
<1>5. Knows(p)'
  BY <1>1, <1>2 DEF Knows, Owning, Redeeming
<1>6. p \notin Busy(a) /\ p \notin Working(a)'
  BY <1>1, <1>2, Workers DEF Works, BusyAt, Owning
<1>7. Sound(a)'
  BY <1>1, <1>4, <1>6, SoundKept DEF WorkInv
<1>8. r.pc \notin Works /\ claim'[a] = claim[a] /\ passed'[a] = passed[a]
  BY <1>2, <1>3 DEF Works, Owning, store
<1> QED BY <1>1, <1>2, <1>4, <1>5, <1>7, <1>8, WorkStep

LEMMA IdleNot == Idle \in Request /\ Idle.pc = "idle" /\ "idle" \notin Works
  BY Values DEF Idle, Works, Owning

\* Ends that change nothing of the authorization.
LEMMA EndsWork ==
  ASSUME TypeInv, WorkInv, Others, NEW p \in Procs, Moves(p, Idle),
         NEW a \in Auths, a = Auth(p), Keeps(a), Apart(a), Grows,
         req[p].pc \notin BusyAt \/ crashes' > 0, passed'[a] = passed[a]
  PROVE  WorkInv'
<1>1. Knows(p)'
  BY KnowsEnded
<1>2. req[p].pc \in BusyAt /\ crashes' = 0 => Idle.pc \in BusyAt
  OBVIOUS
<1>3. Idle.pc = "idle" /\ Idle.pc \notin Works /\ Idle \in Request
  BY IdleNot
<1> QED BY <1>1, <1>2, <1>3, QuietStep

LEMMA TakenWork ==
  ASSUME TypeInv, WorkInv, NEW p \in Procs, Taken(p)
  PROVE  WorkInv'
<1> DEFINE a == Auth(p)
<1>1. PICK b \in Auths : b = a
  BY Values
<1>2. Others
  BY TakenMoves
<1>3. Apart(b) /\ Grows /\ Keeps(b) /\ passed' = passed
  BY DEF Taken, Apart, Grows, Keeps, seen, meters, TypeInv
<1>4. req[p].pc = "claim" /\ "claim" \notin BusyAt /\ "claim" \notin Works
  BY DEF Taken, At, BusyAt, Works, Owning
<1>5. CASE Moves(p, Idle)
  BY <1>1, <1>2, <1>3, <1>4, <1>5, EndsWork
<1>6. CASE /\ claim[a].s = "unconfirmed" /\ Matches(p)
           /\ Moves(p, [req[p] EXCEPT !.pc = "probe", !.held = claim[a]])
  <2> DEFINE r == [req[p] EXCEPT !.pc = "probe", !.held = claim[a]]
  <2>1. req[p] \in Request /\ r \in Request /\ req'[p] = r
    BY <1>6, Values DEF Moves
  <2>2. r.pc = "probe" /\ r.auth = b /\ r.rq = req[p].rq /\ r.held = claim[b]
    BY <1>1, <2>1 DEF Request, Auth
  <2>3. Moves(p, r) /\ claim[b].s = "unconfirmed" /\ req[p].rq = claim[b].rq
    BY <1>1, <1>6 DEF Matches
  <2> HIDE DEF r
  <2>4. claim[b].landed => chain[b] = "paid"
    BY DEF WorkInv, Sound
  <2>5. Knows(p)'
    BY <1>3, <2>1, <2>2, <2>3, <2>4 DEF Knows, Owning, Grows
  <2>6. r.pc \notin Works /\ r.pc # "idle"
    BY <2>2 DEF Works, Owning
  <2>7. req[p].pc \notin {"nonce", "release"}
    BY <1>4
  <2> QED BY <1>1, <1>2, <1>3, <1>4, <2>1, <2>2, <2>3, <2>5, <2>6, <2>7, QuietStep
<1> QED BY <1>5, <1>6, TakenMoves

LEMMA ProbeWork ==
  ASSUME TypeInv, WorkInv, NEW p \in Procs, Probe(p)
  PROVE  WorkInv'
<1>1. PICK a \in Auths : a = Auth(p)
  BY Values
<1>2. Others
  BY ProbeMoves
<1>3. Apart(a) /\ Grows /\ Keeps(a) /\ passed' = passed
  BY DEF Probe, Apart, Grows, Keeps, store, seen, meters, TypeInv
<1>4. req[p].pc = "probe" /\ "probe" \notin BusyAt /\ "probe" \notin Works
  BY DEF Probe, At, BusyAt, Works, Owning
<1>5. CASE Moves(p, Idle)
  BY <1>1, <1>2, <1>3, <1>4, <1>5, EndsWork
<1>6. CASE /\ req[p].held.landed \/ chain[Auth(p)] = "paid"
           /\ Moves(p, [req[p] EXCEPT !.pc = "redeem"])
  <2> DEFINE r == [req[p] EXCEPT !.pc = "redeem"]
  <2>1. req[p] \in Request /\ r \in Request /\ req'[p] = r
    BY <1>6, Values DEF Moves
  <2>2. r.pc = "redeem" /\ r.auth = a /\ r.rq = req[p].rq /\ r.held = req[p].held
    BY <1>1, <2>1 DEF Request, Auth
  <2>3. Moves(p, r)
    BY <1>6
  <2> HIDE DEF r
  <2>4. /\ req[p].held.s = "unconfirmed" /\ req[p].held.rq = req[p].rq
        /\ chain[a] = "paid"
    BY <1>1, <1>4, <1>6 DEF WorkInv, Knows, Auth
  <2>5. Knows(p)'
    BY <1>3, <2>1, <2>2, <2>4 DEF Knows, Owning, Grows
  <2>6. r.pc \notin Works /\ r.pc # "idle"
    BY <2>2 DEF Works, Owning
  <2>7. req[p].pc \notin {"nonce", "release"}
    BY <1>4
  <2> QED BY <1>1, <1>2, <1>3, <1>4, <2>1, <2>2, <2>3, <2>5, <2>6, <2>7, QuietStep
<1> QED BY <1>5, <1>6, ProbeMoves

\* An owner goes on; what it needs there it has.
LEMMA GoesWork ==
  ASSUME TypeInv, WorkInv, Others, NEW p \in Procs, NEW a \in Auths, a = Auth(p),
         Keeps(a), Apart(a), Grows, NEW l \in Owning \ {"work"},
         req[p].pc \in Owning \ {"work"}, Moves(p, [req[p] EXCEPT !.pc = l]),
         l \in BriefAt => a \in Briefs,
         l \in {"refund", "mark"} => chain[a] = "paid",
         l = "asked" => a \in sent',
         a \in Briefs /\ l \in {"settle", "asked", "refund", "mark"}
           => passed'[a] = req[p].rq,
         req[p].pc \in BusyAt => l \in BusyAt,
         req[p].pc \in {"nonce", "release"} => l = "release" \/ chain[a] = "unused"
  PROVE  WorkInv'
<1> DEFINE r == [req[p] EXCEPT !.pc = l]
<1>1. req[p] \in Request /\ r \in Request
  BY Values DEF Moves
<1>2. r.pc = l /\ r.auth = a /\ Moves(p, r)
  BY <1>1 DEF Request, Auth
<1>3. Knows(p)'
  BY KnowsGoes DEF Keeps, WorkInv
<1>4. delivered[a] \in Nat /\ Sound(a)
  BY DEF TypeInv, WorkInv
<1>5. \/ l \in {"idle", "nonce", "release"}
      \/ req[p].pc \notin {"nonce", "release"}
      \/ delivered[a] = 0
  BY <1>4 DEF Sound
<1>6. req[p].pc \in Works
  BY DEF Works
<1> HIDE DEF r
<1> QED BY <1>1, <1>2, <1>3, <1>5, <1>6, QuietStep

LEMMA CheckWork ==
  ASSUME TypeInv, WorkInv, NEW p \in Procs, Refuse(p) \/ Verify(p)
  PROVE  WorkInv'
<1>1. PICK a \in Auths : a = Auth(p)
  BY Values
<1>2. Apart(a) /\ Grows /\ Keeps(a) /\ passed' = passed /\ Knows(p)
  BY DEF Refuse, Verify, Apart, Grows, Keeps, store, seen, meters, TypeInv, WorkInv
<1>3. CASE Refuse(p)
  <2>1. Others /\ Moves(p, [req[p] EXCEPT !.pc = "release"])
    BY <1>3, RefuseMoves
  <2>2. /\ req[p].pc \in Owning \ {"work"} /\ "release" \in Owning \ {"work"}
        /\ req[p].pc \notin BusyAt /\ "release" \notin BriefAt
    BY <1>3 DEF Refuse, Owning, BusyAt, BriefAt
  <2> QED BY <1>1, <1>2, <2>1, <2>2, GoesWork
<1>4. CASE Verify(p)
  <2>1. PICK l \in {"spend", "settle"} :
          /\ Moves(p, [req[p] EXCEPT !.pc = l])
          /\ IF Brief(p) THEN l = "spend" ELSE l = "settle"
    BY <1>4, VerifyMoves
  <2>2. /\ req[p].pc \in Owning \ {"work"} /\ l \in Owning \ {"work"}
        /\ req[p].pc \notin BusyAt /\ req[p].pc \notin {"nonce", "release"}
    BY <1>4 DEF Verify, Owning, BusyAt, At
  <2>3. a \in Briefs <=> l = "spend"
    BY <1>1, <2>1 DEF Brief
  <2>4. l \in BriefAt => a \in Briefs
    BY <2>1, <2>3 DEF BriefAt
  <2>5. ~(a \in Briefs /\ l \in {"settle", "asked", "refund", "mark"})
    BY <2>3
  <2>6. Others
    BY <1>4, VerifyMoves
  <2> QED BY <1>1, <1>2, <2>1, <2>2, <2>4, <2>5, <2>6, GoesWork
<1> QED BY <1>3, <1>4

\* chargeOnPass up to its settle.
LEMMA ReserveWork ==
  ASSUME TypeInv, WorkInv, NEW p \in Procs,
         \/ ReserveSpend(p) \/ ReserveSlot(p) \/ Unspend(p) \/ Pass(p)
         \/ Outage(p) \/ Unslot(p)
  PROVE  WorkInv'
<1>1. PICK a \in Auths : a = Auth(p)
  BY Values
<1>2. Apart(a) /\ Grows /\ Keeps(a) /\ passed' = passed /\ Knows(p)
  BY DEF ReserveSpend, ReserveSlot, Unspend, Pass, Outage, Unslot, Fault,
         Apart, Grows, Keeps, store, seen, meters, TypeInv, WorkInv
<1>3. Others /\ \E l \in {"slot", "release", "research", "unspend", "cache",
                          "unslot"} : Moves(p, [req[p] EXCEPT !.pc = l])
  BY ReserveSpendMoves, ReserveSlotMoves, UnspendMoves, ResearchMoves, UnslotMoves
<1>4. PICK l \in {"slot", "release", "research", "unspend", "cache", "unslot"} :
        Moves(p, [req[p] EXCEPT !.pc = l])
  BY <1>3
<1>5. req[p].pc \in {"spend", "slot", "unspend", "research", "unslot"}
  BY DEF ReserveSpend, ReserveSlot, Unspend, Pass, Outage, Unslot, At
<1>6. /\ req[p].pc \in Owning \ {"work"} /\ l \in Owning \ {"work"}
      /\ req[p].pc \notin BusyAt /\ req[p].pc \notin {"nonce", "release"}
  BY <1>5 DEF Owning, BusyAt
<1>7. a \in Briefs
  BY <1>1, <1>2, <1>5 DEF Knows, Auth
<1> QED BY <1>1, <1>2, <1>3, <1>4, <1>6, <1>7, GoesWork

LEMMA CacheBriefWork ==
  ASSUME TypeInv, WorkInv, NEW p \in Procs, CacheBrief(p)
  PROVE  WorkInv'
<1>1. PICK a \in Auths : a = Auth(p)
  BY Values
<1>2. req[p].pc = "cache" /\ req[p].pc \in Works /\ req[p].pc \notin BusyAt
  BY DEF CacheBrief, At, Works, Owning, BusyAt
<1>3. claim[a].s = "inflight"
  BY <1>1, <1>2, Worker
<1>4. Apart(a) /\ Grows /\ Keeps(a) /\ Knows(p)
  BY <1>1, <1>3 DEF CacheBrief, Fault, Apart, Grows, Keeps, seen, TypeInv, WorkInv
<1>5. Others
  BY CacheBriefMoves
<1>6. PICK l \in {"settle", "unslot"} :
        /\ Moves(p, [req[p] EXCEPT !.pc = l])
        /\ l = "settle" => passed' = [passed EXCEPT ![Auth(p)] = req[p].rq]
  BY CacheBriefMoves
<1>7. l = "settle" => passed'[a] = req[p].rq
  BY <1>1, <1>6 DEF TypeInv
<1>8. /\ req[p].pc \in Owning \ {"work"} /\ l \in Owning \ {"work"}
      /\ req[p].pc \notin {"nonce", "release"}
  BY <1>2 DEF Owning
<1>9. a \in Briefs
  BY <1>1, <1>2, <1>4 DEF Knows, Auth
<1> QED BY <1>1, <1>2, <1>4, <1>5, <1>6, <1>7, <1>8, <1>9, GoesWork

LEMMA SettleOkWork ==
  ASSUME TypeInv, WorkInv, NEW p \in Procs, SettleOk(p) \/ Refund(p)
  PROVE  WorkInv'
<1>1. PICK a \in Auths : a = Auth(p)
  BY Values
<1>2. Apart(a) /\ Grows /\ Keeps(a) /\ passed' = passed /\ Knows(p)
  BY DEF SettleOk, Refund, Fault, Apart, Grows, Keeps, store, seen, meters,
         TypeInv, WorkInv
<1>3. Others /\ \E l \in {"refund", "mark"} :
                  /\ Moves(p, [req[p] EXCEPT !.pc = l])
                  /\ l = "refund" => Brief(p)
  BY SettleOkMoves, RefundMoves
<1>4. PICK l \in {"refund", "mark"} : /\ Moves(p, [req[p] EXCEPT !.pc = l])
                                      /\ l = "refund" => Brief(p)
  BY <1>3
<1>5. req[p].pc \in {"asked", "refund"}
  BY DEF SettleOk, Refund, At
<1>6. /\ req[p].pc \in Owning \ {"work"} /\ l \in Owning \ {"work"}
      /\ l \in BusyAt /\ req[p].pc \notin {"nonce", "release"}
  BY <1>5 DEF Owning, BusyAt
<1>7. chain[a] = "paid"
  BY <1>1, <1>2 DEF SettleOk, Refund, Knows, Auth, At
<1>8. l \in BriefAt => a \in Briefs
  BY <1>1, <1>4 DEF BriefAt, Brief
<1>9. a \in Briefs => passed'[a] = req[p].rq
  BY <1>1, <1>2, <1>5 DEF Knows, Auth
<1> QED BY <1>1, <1>2, <1>3, <1>4, <1>6, <1>7, <1>8, <1>9, GoesWork

LEMMA CrashWork ==
  ASSUME TypeInv, WorkInv, NEW p \in Procs, Crash(p)
  PROVE  WorkInv'
<1>1. PICK a \in Auths : a = Auth(p)
  BY Values
<1>2. Apart(a) /\ Grows /\ Keeps(a) /\ passed' = passed /\ crashes' > 0
  BY DEF Crash, Apart, Grows, Keeps, store, seen, TypeInv
<1> QED BY <1>1, <1>2, CrashMoves, EndsWork

\* What is submitted was nobody else's, and the request that submits answers.
LEMMA SendSettleWork ==
  ASSUME TypeInv, WorkInv, NEW p \in Procs, SendSettle(p)
  PROVE  WorkInv'
<1>1. PICK a \in Auths : a = Auth(p)
  BY Values
<1>2. /\ req[p].pc = "settle" /\ req[p].pc \in Works /\ req[p].pc \notin BusyAt
      /\ req[p].pc \in Owning \ {"work"} /\ "asked" \in Owning \ {"work"}
      /\ "asked" \in BusyAt
  BY DEF SendSettle, At, Works, Owning, BusyAt
<1>3. /\ Apart(a) /\ Grows /\ a \in sent'
      /\ UNCHANGED <<claim, passed, lines, chain, delivered, declined, faults, crashes>>
  BY <1>1 DEF SendSettle, Apart, Grows, store, meters, TypeInv
<1> DEFINE r == [req[p] EXCEPT !.pc = "asked"]
<1>4. Others /\ Moves(p, r) /\ r \in Request /\ Knows(p)
  BY SendSettleMoves DEF Moves, WorkInv
<1>5. r.pc = "asked" /\ r.auth = a /\ req[p].auth = a
  BY <1>1, Values DEF Request, Auth
<1>6. Knows(p)'
  <2>1. a \in Briefs => passed'[a] = req[p].rq
    BY <1>1, <1>2, <1>3, <1>4 DEF Knows, Auth
  <2>2. "asked" \notin BriefAt /\ claim'[a] = claim[a]
    BY <1>3 DEF BriefAt
  <2> QED BY <1>1, <1>2, <1>3, <1>4, <2>1, <2>2, KnowsGoes
<1>7. /\ p \in Working(a) /\ Working(a) = {p} /\ delivered[a] = 0
      /\ claim[a].s = "inflight"
      /\ faults = 0 /\ crashes = 0 => a \notin declined
  BY <1>1, <1>2, Worker
<1> HIDE DEF r
<1>8. p \in Busy(a)'
  BY <1>2, <1>4, <1>5, Workers
<1>9. Sound(a)'
  <2>1. Sound(a) /\ (Redeemable(a)' <=> Redeemable(a))
    BY <1>3 DEF WorkInv, Redeemable
  <2>2. delivered'[a] = 0
    BY <1>3, <1>7
  <2> QED BY <1>3, <1>7, <1>8, <2>1, <2>2 DEF Sound
<1> QED BY <1>3, <1>4, <1>5, <1>6, <1>7, <1>9, WorkStep

----------------------------------------------------------------------------
(* The steps that write the claim. *)

\* moveClaim: an exact-value CAS on the request's own claim.
LEMMA Swaps ==
  ASSUME TypeInv, NEW p \in Procs, NEW a \in Auths, a = Auth(p), NEW c \in Claims,
         Swap(p, c)
  PROVE  /\ \A b \in Auths \ {a} : claim'[b] = claim[b]
         /\ claim'[a] = IF Current(p) THEN c ELSE claim[a]
         /\ Current(p) => req[p].held = claim[a]
  BY DEF Swap, Put, Current, TypeInv

LEMMA TryMoves ==
  ASSUME TypeInv, NEW p \in Procs, NEW a \in Auths, a = Auth(p), NEW c \in Claims,
         TryMove(p, c)
  PROVE  /\ \A b \in Auths \ {a} : claim'[b] = claim[b]
         /\ claim'[a] \in {claim[a], c} /\ faults' >= faults
         /\ Current(p) => /\ req[p].held = claim[a]
                          /\ claim'[a] = c \/ faults' > 0
<1>1. faults' = faults \/ (Fault /\ faults' > 0 /\ faults' >= faults)
  BY DEF TryMove, Fault, TypeInv
<1>2. faults' >= faults
  BY <1>1 DEF TypeInv
<1>3. CASE Swap(p, c)
  BY <1>2, <1>3, Swaps
<1>4. CASE Fault /\ UNCHANGED claim
  BY <1>1, <1>4 DEF Fault, TypeInv, Current
<1> QED BY <1>3, <1>4 DEF TryMove

LEMMA NewLines ==
  ASSUME TypeInv, NEW p \in Procs, NEW a \in Auths, a = Auth(p), NewLine(p)
  PROVE  /\ \A b \in Auths \ {a} : lines'[b] = lines[b]
         /\ lines'[a] = lines[a] + 1 /\ lines'[a] > 0
  BY DEF NewLine, TypeInv

LEMMA MovedIs ==
  ASSUME TypeInv, NEW p \in Procs, NEW s \in Held, NEW n \in Nat, NEW b \in BOOLEAN
  PROVE  /\ Moved(p, s, n, b).s = s /\ Moved(p, s, n, b).rc = n
         /\ Moved(p, s, n, b).landed = b /\ Moved(p, s, n, b).rq = req[p].held.rq
         /\ As(p, s).s = s /\ As(p, s).rc = req[p].held.rc
         /\ As(p, s).landed = req[p].held.landed /\ As(p, s).rq = req[p].held.rq
<1>1. req[p].held \in Claims
  BY Values
<1> QED BY <1>1 DEF Moved, As, Claims

\* A claim that is free or has lapsed has no worker, and nothing is owed on it.
LEMMA Unclaimed ==
  ASSUME TypeInv, WorkInv, NEW a \in Auths, ~Live(a)
  PROVE  /\ Working(a) = {} /\ Busy(a) = {} /\ claim[a].s \in {"none", "inflight"}
         /\ a \in sent => lines[a] > 0 \/ crashes > 0 \/ delivered[a] = 1
         /\ a \in sent /\ faults = 0 /\ crashes = 0 => delivered[a] = 1
         /\ faults = 0 /\ crashes = 0 => a \notin declined
<1>1. ASSUME NEW q \in Working(a) PROVE FALSE
  <2>1. req[q].pc \in Works /\ Auth(q) = a /\ q \in Procs
    BY DEF Working, Works
  <2> QED BY <2>1, Worker
<1>2. Working(a) = {} /\ Busy(a) = {}
  BY <1>1 DEF Working, Busy, Owning
<1>3. claim[a].s \in {"none", "inflight"}
  BY DEF Live
<1>4. Sound(a) /\ ~Redeemable(a)
  BY <1>3 DEF WorkInv, Redeemable
<1> QED BY <1>2, <1>3, <1>4 DEF Sound

\* The first step of a request, or what is left of it when the answer is lost.
LEMMA ClaimWork ==
  ASSUME TypeInv, WorkInv, NEW p \in Procs, Claim(p) \/ ThrowClaim(p)
  PROVE  WorkInv'
<1>1. PICK a \in Auths : a = Auth(p)
  BY Values
<1>2. /\ Apart(a) /\ Grows
      /\ UNCHANGED <<passed, lines, chain, sent, delivered, declined, crashes>>
  BY <1>1 DEF Claim, TakeClaim, ThrowClaim, Fault, Put, Apart, Grows, seen, meters,
              TypeInv
<1>3. /\ req[p].pc = "claim" /\ req[p].pc \notin Works /\ req[p].pc \notin BusyAt
      /\ "nonce" \in Works /\ "nonce" \notin BusyAt
  BY DEF Claim, TakeClaim, ThrowClaim, At, Works, Owning, BusyAt
<1>4. Others
  BY ClaimMoves, ThrowClaimMoves
<1>5. CASE UNCHANGED claim /\ ThrowClaim(p)
  <2>1. Keeps(a)
    BY <1>2, <1>5 DEF Keeps
  <2> QED BY <1>1, <1>2, <1>3, <1>4, <1>5, <2>1, ThrowClaimMoves, EndsWork
<1>6. CASE ~Live(a) /\ claim' = Put(p, Inflight(p))
  <2>1. /\ claim'[a] = Inflight(p) /\ Inflight(p).s = "inflight"
        /\ ~Inflight(p).landed /\ Inflight(p).rq = req[p].rq
        /\ Inflight(p).exp = now + ClaimTTL
    BY <1>1, <1>6 DEF Put, Inflight, NoClaim, TypeInv
  <2>2. PICK r \in Request : /\ Moves(p, r)
                             /\ \/ r = Idle
                                \/ r = [req[p] EXCEPT !.pc = "nonce",
                                                      !.held = Inflight(p)]
    BY ClaimMoves, ThrowClaimMoves DEF Moves
  <2>3. /\ r.pc \in {"idle", "nonce"}
        /\ r.pc = "idle" \/ r.auth = a
        /\ r.pc = "nonce" => r.held = Inflight(p) /\ r.rq = req[p].rq
    BY <1>1, <2>2, Values, IdleNot DEF Request, Auth
  <2>4. Knows(p)'
    <3>1. CASE r.pc = "nonce"
      <4>1. now < now + ClaimTTL /\ now + 1 < now + ClaimTTL
        BY TTLAssumption, SyncAssumption DEF TypeInv
      <4>2. req'[p] = r /\ now' = now
        BY <1>2, <2>2 DEF Moves, Grows
      <4>3. Owns(p)'
        BY <2>1, <2>3, <3>1, <4>1, <4>2 DEF Owns
      <4> QED BY <2>1, <2>3, <3>1, <4>2, <4>3 DEF Knows
    <3>2. CASE r.pc # "nonce"
      BY <2>2, <2>3, <3>2 DEF Knows, Moves, Owning
    <3> QED BY <3>1, <3>2
  <2>5. Working(a) = {} /\ Working(a)' \subseteq {p} /\ Sound(a)
    BY <1>6, <2>2, Unclaimed, Workers DEF Working, WorkInv
  <2>6. \A q \in Working(a)' : req'[q].pc = "nonce"
    BY <2>2, <2>3, <2>5, Workers, IdleNot DEF Moves
  <2>7. Sound(a)'
    <3>1. ~Redeemable(a)'
      BY <2>1 DEF Redeemable
    <3>2. faults' = 0 /\ crashes' = 0 => faults = 0 /\ crashes = 0
      BY <1>2, <1>4 DEF Grows, TypeInv, Others
    <3>3. chain' = chain
      BY <1>2
    <3> QED BY <1>2, <1>6, <2>1, <2>5, <2>6, <3>1, <3>2, Unclaimed DEF Sound
  <2>8. req[p].auth = a
    BY <1>1 DEF Auth
  <2> QED BY <1>2, <1>4, <2>2, <2>3, <2>4, <2>5, <2>7, <2>8, WorkStep
<1> QED BY <1>1, <1>5, <1>6 DEF Claim, TakeClaim, ThrowClaim

\* A worker that ends: what is left of its authorization when nobody works on it.
LEMMA LastStep ==
  ASSUME TypeInv, WorkInv, Others, NEW p \in Procs, req[p].pc \in Works,
         Moves(p, Idle), NEW a \in Auths, a = Auth(p), Apart(a), Grows,
         (Working(a)' = {} /\ Busy(a)' = {}) => Sound(a)'
  PROVE  WorkInv'
<1>1. Working(a) = {p} /\ req[p].auth = a
  BY Worker DEF Auth
<1>2. Working(a)' = {} /\ Busy(a)' = {}
  BY <1>1, Workers, IdleNot DEF Working, Busy
<1>3. Idle.pc \notin Works /\ Idle.pc = "idle" /\ Idle \in Request
  BY IdleNot
<1> QED BY <1>1, <1>2, <1>3, KnowsEnded, WorkStep

LEMMA ReleaseWork ==
  ASSUME TypeInv, WorkInv, NEW p \in Procs, Release(p)
  PROVE  WorkInv'
<1>1. PICK a \in Auths : a = Auth(p)
  BY Values
<1>2. /\ Apart(a) /\ Grows /\ claim'[a] \in {claim[a], NoClaim}
      /\ UNCHANGED <<passed, lines, chain, sent, delivered, declined, crashes>>
  BY <1>1 DEF Release, TryMove, Swap, Fault, Put, Apart, Grows, seen, TypeInv
<1>3. req[p].pc = "release" /\ req[p].pc \in Works /\ req[p].pc \notin BusyAt
  BY DEF Release, At, Works, Owning, BusyAt
<1>4. /\ claim[a].s = "inflight" /\ Sound(a)
      /\ a \in sent => lines[a] > 0 \/ crashes > 0 \/ delivered[a] = 1
      /\ a \in sent /\ faults = 0 /\ crashes = 0 => delivered[a] = 1
      /\ faults = 0 /\ crashes = 0 => a \notin declined
  BY <1>1, <1>3, Worker DEF WorkInv
<1>5. claim'[a].s # "unconfirmed" /\ (claim'[a].landed => claim[a].landed)
  BY <1>2, <1>4 DEF NoClaim
<1>6. Others
  BY ReleaseMoves
<1>7. (Working(a)' = {} /\ Busy(a)' = {}) => Sound(a)'
  <2>1. ~Redeemable(a)'
    BY <1>5 DEF Redeemable
  <2>2. faults' = 0 /\ crashes' = 0 => faults = 0 /\ crashes = 0
    BY <1>2, <1>6 DEF Grows, TypeInv, Others
  <2> QED BY <1>2, <1>4, <1>5, <2>1, <2>2 DEF Sound
<1> QED BY <1>1, <1>2, <1>3, <1>6, <1>7, ReleaseMoves, LastStep

LEMMA CheckNonceWork ==
  ASSUME TypeInv, WorkInv, NEW p \in Procs, CheckNonce(p)
  PROVE  WorkInv'
<1> DEFINE c == Moved(p, "conflict", NextLine(p), FALSE)
<1>1. PICK a \in Auths : a = Auth(p)
  BY Values
<1>2. c \in Claims /\ c.s = "conflict" /\ ~c.landed
  <2>1. NextLine(p) \in Nat /\ "conflict" \in Held /\ FALSE \in BOOLEAN
    BY Values DEF Held
  <2>2. c \in Claims
    BY <2>1, Moving
  <2>3. c.s = "conflict" /\ ~c.landed
    BY Values DEF Moved, Claims
  <2> QED BY <2>2, <2>3
<1> HIDE DEF c
<1>3. \/ chain[Auth(p)] = "unused" /\ UNCHANGED <<claim, lines, faults>>
      \/ chain[Auth(p)] # "unused" /\ NewLine(p) /\ TryMove(p, c)
  BY DEF CheckNonce, c
<1>4. /\ Apart(a) /\ Grows
      /\ UNCHANGED <<passed, chain, sent, delivered, declined, crashes>>
  <2>1. /\ UNCHANGED <<passed, chain, sent, delivered, declined, crashes, now>>
        /\ faults \in Nat /\ crashes \in Nat
    BY DEF CheckNonce, TypeInv
  <2>2. /\ \A b \in Auths \ {a} : claim'[b] = claim[b] /\ lines'[b] = lines[b]
        /\ faults' >= faults
    BY <1>1, <1>2, <1>3, <2>1, TryMoves, NewLines
  <2> QED BY <2>1, <2>2 DEF Apart, Grows
<1>5. /\ req[p].pc = "nonce" /\ req[p].pc \in Works /\ req[p].pc \notin BusyAt
      /\ req[p].pc \in Owning \ {"work"} /\ "check" \in Owning \ {"work"}
      /\ "check" \notin BriefAt
  BY DEF CheckNonce, At, Works, Owning, BusyAt, BriefAt
<1>6. Others
  BY CheckNonceMoves
<1>7. CASE chain[Auth(p)] = "unused"
  <2>1. Keeps(a) /\ Moves(p, [req[p] EXCEPT !.pc = "check"])
    BY <1>3, <1>4, <1>7, CheckNonceMoves DEF Keeps
  <2> QED BY <1>1, <1>4, <1>5, <1>6, <1>7, <2>1, GoesWork
<1>8. CASE chain[Auth(p)] # "unused"
  <2>1. /\ claim'[a] \in {claim[a], c} /\ lines'[a] > 0
    BY <1>1, <1>2, <1>3, <1>8, TryMoves, NewLines
  <2>2. /\ claim[a].s = "inflight" /\ Sound(a)
        /\ a \in sent /\ faults = 0 /\ crashes = 0 => delivered[a] = 1
        /\ faults = 0 /\ crashes = 0 => a \notin declined
    BY <1>1, <1>5, Worker DEF WorkInv
  <2>3. (Working(a)' = {} /\ Busy(a)' = {}) => Sound(a)'
    <3>1. ~Redeemable(a)' /\ claim'[a].s # "unconfirmed"
      BY <1>2, <2>1, <2>2 DEF Redeemable
    <3>2. faults' = 0 /\ crashes' = 0 => faults = 0 /\ crashes = 0
      BY <1>4, <1>6 DEF Grows, TypeInv, Others
    <3>3. claim'[a].landed => claim[a].landed
      BY <1>2, <2>1
    <3> QED BY <1>4, <2>1, <2>2, <3>1, <3>2, <3>3 DEF Sound
  <2> QED BY <1>1, <1>4, <1>5, <1>6, <1>8, <2>3, CheckNonceMoves, LastStep
<1> QED BY <1>7, <1>8

LEMMA DeclineWork ==
  ASSUME TypeInv, WorkInv, NEW p \in Procs, Decline(p)
  PROVE  WorkInv'
<1>1. PICK a \in Auths : a = Auth(p)
  BY Values
<1>2. /\ Apart(a) /\ Grows
      /\ UNCHANGED <<passed, lines, chain, sent, delivered, crashes>>
  BY <1>1 DEF Decline, TryMove, Swap, Fault, Put, Apart, Grows, TypeInv
<1>3. req[p].pc = "research" /\ req[p].pc \in Works /\ req[p].pc \notin BusyAt
  BY DEF Decline, At, Works, Owning, BusyAt
<1>4. /\ claim[a].s = "inflight" /\ Sound(a) /\ Current(p) /\ delivered[a] = 0
      /\ a \in sent => lines[a] > 0 \/ crashes > 0 \/ delivered[a] = 1
      /\ a \in sent /\ faults = 0 /\ crashes = 0 => delivered[a] = 1
  BY <1>1, <1>3, Worker DEF WorkInv
<1>5. \/ claim'[a] = claim[a] /\ faults' > 0
      \/ claim'[a].s = "declined" /\ claim'[a].landed = claim[a].landed
  <2>1. CASE Swap(p, As(p, "declined"))
    <3>1. claim'[a] = As(p, "declined") /\ req[p].held = claim[a]
      BY <1>1, <1>4, <2>1 DEF Swap, Put, TypeInv, Current
    <3> QED BY <3>1, Values DEF As, Moved, Claims
  <2>2. CASE Fault /\ UNCHANGED claim
    BY <2>2 DEF Fault, TypeInv
  <2> QED BY <2>1, <2>2 DEF Decline, TryMove
<1>6. Others
  BY DeclineMoves
<1>7. (Working(a)' = {} /\ Busy(a)' = {}) => Sound(a)'
  <2>1. ~Redeemable(a)'
    BY <1>4, <1>5 DEF Redeemable
  <2>2. /\ faults' = 0 /\ crashes' = 0 => faults = 0 /\ crashes = 0
        /\ faults' = 0 => ~(faults' > 0)
    BY <1>2, <1>6 DEF Grows, TypeInv, Others
  <2> QED BY <1>2, <1>4, <1>5, <2>1, <2>2 DEF Sound
<1> QED BY <1>1, <1>2, <1>3, <1>6, <1>7, DeclineMoves, LastStep

\* A request that ends without its answer leaves its claim redeemable, at least
\* while the store answers.
LEMMA UnconfirmedLast ==
  ASSUME TypeInv, WorkInv, Others, NEW p \in Procs, Moves(p, Idle),
         req[p].pc \in {"asked", "work", "rework"}, NEW a \in Auths, a = Auth(p),
         Apart(a), Grows,
         UNCHANGED <<passed, sent, delivered, declined>>, NewLine(p),
         NEW b \in BOOLEAN, b => req[p].pc # "asked",
         \/ claim'[a] = Moved(p, "unconfirmed", NextLine(p), b) /\ Current(p)
         \/ claim'[a] = claim[a] /\ faults' > 0
  PROVE  WorkInv'
<1> DEFINE c == Moved(p, "unconfirmed", NextLine(p), b)
<1>1. c.s = "unconfirmed" /\ c.rc # 0 /\ c.landed = b /\ c.rq = req[p].held.rq
  <2>1. NextLine(p) \in Nat \ {0} /\ "unconfirmed" \in Held
    BY Values DEF Held
  <2> QED BY <2>1, MovedIs
<1>2. claim'[a] \in {claim[a], c} /\ (faults' = 0 => claim'[a] = c)
  BY DEF Others
<1> HIDE DEF c
<1>3. req[p].pc \in Works /\ req[p].pc \in BusyAt /\ Knows(p) /\ Sound(a)
  BY DEF Works, Owning, BusyAt, WorkInv
<1>4. /\ delivered[a] = 0 /\ claim[a].s \in {"inflight", "settled", "redeemed"}
      /\ faults = 0 /\ crashes = 0 => a \notin declined
  BY <1>3, Worker
<1>5. req[p].pc # "asked" => chain[a] = "paid"
  BY <1>3 DEF Knows, Auth
<1>6. a \in Briefs => passed[a] = req[p].rq
  BY <1>3 DEF Knows, Auth
<1>7. claim'[a] = c => req[p].held.rq = req[p].rq
  BY <1>2, <1>3, <1>4, <1>1 DEF Knows, Owning, Auth
<1>8. (Working(a)' = {} /\ Busy(a)' = {}) => Sound(a)'
  <2>1. faults' = 0 /\ crashes' = 0 => faults = 0 /\ crashes = 0
    BY DEF Grows, TypeInv, Others
  <2>2. faults' = 0 => Redeemable(a)'
    BY <1>1, <1>2 DEF Redeemable
  <2>3. lines'[a] > 0
    BY NewLines
  <2>4. chain' = chain
    BY DEF Grows
  <2>5. claim'[a].landed => chain[a] = "paid"
    BY <1>1, <1>2, <1>3, <1>5 DEF Sound
  <2>6. a \in Briefs /\ claim'[a].s = "unconfirmed" => passed[a] = claim'[a].rq
    BY <1>1, <1>2, <1>4, <1>6, <1>7
  <2> QED BY <1>3, <1>4, <2>1, <2>2, <2>3, <2>4, <2>5, <2>6 DEF Sound
<1> QED BY <1>3, <1>8, LastStep

LEMMA UnconfirmedWork ==
  ASSUME TypeInv, WorkInv, NEW p \in Procs, NEW b \in BOOLEAN, Unconfirmed(p, b),
         req[p].pc \in {"asked", "work", "rework"}, b => req[p].pc # "asked"
  PROVE  WorkInv'
<1> DEFINE c == Moved(p, "unconfirmed", NextLine(p), b)
<1>1. PICK a \in Auths : a = Auth(p)
  BY Values
<1>2. c \in Claims
  BY Values, Moving DEF Held
<1>3. NewLine(p) /\ TryMove(p, c)
  BY DEF Unconfirmed
<1>4. UNCHANGED <<passed, chain, sent, delivered, declined, crashes, now>>
  BY DEF Unconfirmed
<1> HIDE DEF c
<1>5. /\ \A d \in Auths \ {a} : claim'[d] = claim[d] /\ lines'[d] = lines[d]
      /\ faults' >= faults /\ claim'[a] \in {claim[a], c}
      /\ Current(p) => claim'[a] = c \/ faults' > 0
  BY <1>1, <1>2, <1>3, TryMoves, NewLines
<1>6. Apart(a) /\ Grows
  BY <1>4, <1>5 DEF Apart, Grows, TypeInv
<1>7. \/ claim'[a] = c /\ Current(p)
      \/ claim'[a] = claim[a] /\ faults' > 0
  <2>1. CASE Current(p)
    BY <1>5, <2>1
  <2>2. CASE ~Current(p)
    <3>1. faults # 0 /\ faults \in Nat
      BY <2>2, Worker DEF Works, Owning, TypeInv
    <3>2. claim'[a] = claim[a]
      BY <1>1, <1>3, <2>2 DEF TryMove, Swap
    <3> QED BY <1>5, <3>1, <3>2 DEF Others, Unconfirmed, TypeInv, TryMove, Fault
  <2> QED BY <2>1, <2>2
<1>8. Others /\ Moves(p, Idle)
  BY UnconfirmedMoves
<1> QED BY <1>1, <1>3, <1>4, <1>6, <1>7, <1>8, UnconfirmedLast DEF c

LEMMA ReworkUnreadWork ==
  ASSUME TypeInv, WorkInv, NEW p \in Procs, ReworkUnread(p)
  PROVE  WorkInv'
<1> DEFINE c == Moved(p, "unconfirmed", NextLine(p), TRUE)
<1>1. PICK a \in Auths : a = Auth(p)
  BY Values
<1>2. c \in Claims
  BY Values, Moving DEF Held
<1>3. NewLine(p) /\ Swap(p, c) /\ req[p].pc = "rework" /\ Fault
  BY DEF ReworkUnread, At
<1>4. UNCHANGED <<passed, chain, sent, delivered, declined, crashes, now>>
  BY DEF ReworkUnread
<1> HIDE DEF c
<1>5. Current(p)
  BY <1>3, Worker DEF Works
<1>6. /\ \A d \in Auths \ {a} : claim'[d] = claim[d] /\ lines'[d] = lines[d]
      /\ claim'[a] = c
  BY <1>1, <1>2, <1>3, <1>5, Swaps, NewLines
<1>7. Apart(a) /\ Grows
  BY <1>3, <1>4, <1>6 DEF Apart, Grows, TypeInv, Fault
<1>8. Others /\ Moves(p, Idle)
  BY ReworkUnreadMoves
<1> QED BY <1>1, <1>3, <1>4, <1>5, <1>6, <1>7, <1>8, UnconfirmedLast DEF c

LEMMA AnswerWork ==
  ASSUME TypeInv, WorkInv, NEW p \in Procs, Answer(p),
         req[p].pc \in {"work", "rework"}
  PROVE  WorkInv'
<1>1. PICK a \in Auths : a = Auth(p)
  BY Values
<1>2. /\ UNCHANGED <<claim, passed, lines, chain, sent, declined, now, faults,
                     crashes>>
      /\ delivered' = [delivered EXCEPT ![a] = @ + 1]
  BY <1>1 DEF Answer, Delivers, store, meters
<1>3. Apart(a) /\ Grows
  BY <1>2 DEF Apart, Grows, TypeInv
<1>4. req[p].pc \in Works /\ Knows(p) /\ Sound(a)
  BY DEF Works, Owning, WorkInv
<1>5. /\ delivered[a] = 0 /\ claim[a].s \in {"inflight", "settled", "redeemed"}
      /\ faults = 0 /\ crashes = 0 => a \notin declined
  BY <1>1, <1>4, Worker
<1>6. chain[a] = "paid" /\ delivered'[a] = 1
  BY <1>1, <1>2, <1>4, <1>5 DEF Knows, Auth, TypeInv
<1>7. (Working(a)' = {} /\ Busy(a)' = {}) => Sound(a)'
  BY <1>2, <1>4, <1>5, <1>6 DEF Sound, Redeemable
<1> QED BY <1>1, <1>3, <1>4, <1>7, AnswerMoves, LastStep

LEMMA MarkWork ==
  ASSUME TypeInv, WorkInv, NEW p \in Procs, Mark(p)
  PROVE  WorkInv'
<1> DEFINE c == As(p, "settled")
<1>1. PICK a \in Auths : a = Auth(p)
  BY Values
<1>2. c \in Claims /\ c.s = "settled" /\ c.landed = req[p].held.landed
      /\ c.rq = req[p].held.rq
  BY Moving, MovedIs DEF Held
<1>3. /\ UNCHANGED <<passed, lines, chain, sent, declined, crashes, now>>
      /\ faults' = faults \/ (faults' = faults + 1)
      /\ (UNCHANGED claim /\ faults' # faults) \/ Swap(p, c)
  BY DEF Mark, Fault, TypeInv
<1>4. /\ req[p].pc = "mark" /\ req[p].pc \in Works /\ Knows(p) /\ Sound(a)
      /\ "work" \in Works /\ "work" \in BusyAt
  BY DEF Mark, At, Works, Owning, BusyAt, WorkInv
<1> HIDE DEF c
<1>5. /\ delivered[a] = 0 /\ Working(a) = {p} /\ Current(p)
      /\ faults = 0 /\ crashes = 0 => a \notin declined
  BY <1>1, <1>4, Worker
<1>6. /\ \A b \in Auths \ {a} : claim'[b] = claim[b] /\ delivered'[b] = delivered[b]
      /\ claim'[a] \in {claim[a], c} /\ req[p].held = claim[a]
      /\ faults' = faults => claim'[a] = c
  <2>1. \A b \in Auths \ {a} : delivered'[b] = delivered[b]
    BY <1>1 DEF Mark, Delivers, TypeInv
  <2>2. /\ \A b \in Auths \ {a} : claim'[b] = claim[b]
        /\ claim'[a] \in {claim[a], c} /\ req[p].held = claim[a]
        /\ faults' = faults => claim'[a] = c
    <3>1. CASE Swap(p, c)
      BY <1>1, <1>2, <1>5, <3>1, Swaps
    <3>2. CASE UNCHANGED claim /\ faults' # faults
      BY <1>1, <1>5, <3>2 DEF Current
    <3> QED BY <1>3, <3>1, <3>2
  <2> QED BY <2>1, <2>2
<1>7. Apart(a) /\ Grows
  BY <1>3, <1>6 DEF Apart, Grows, TypeInv
<1>8. /\ chain[a] = "paid" /\ claim[a].s = "inflight"
      /\ now < claim[a].exp /\ (req[p].aged \/ now + 1 < claim[a].exp)
      /\ claim[a].rq = req[p].rq
  BY <1>1, <1>4 DEF Knows, Owns, Owning, Auth
<1>9. /\ claim'[a].s \in {"inflight", "settled"} /\ claim'[a].rq = req[p].rq
      /\ claim'[a].landed => chain[a] = "paid"
  BY <1>2, <1>6, <1>8
<1>10. faults' = 0 /\ crashes' = 0 => faults = 0 /\ crashes = 0
  BY <1>3 DEF TypeInv
<1>11. Others
  BY MarkMoves
<1>12. CASE Brief(p)
  <2>1. delivered'[a] = 1
    BY <1>1, <1>5, <1>12 DEF Mark, Delivers, TypeInv
  <2>2. (Working(a)' = {} /\ Busy(a)' = {}) => Sound(a)'
    BY <1>3, <1>4, <1>5, <1>8, <1>9, <1>10, <2>1 DEF Sound, Redeemable
  <2> QED BY <1>1, <1>4, <1>7, <1>11, <1>12, <2>2, MarkMoves, LastStep
<1>13. CASE ~Brief(p)
  <2>1. PICK h \in {req[p].held, c} :
          /\ Moves(p, [req[p] EXCEPT !.pc = "work", !.held = h])
          /\ faults' = faults => h = c
    BY <1>5, <1>13, MarkMoves DEF c
  <2> DEFINE r == [req[p] EXCEPT !.pc = "work", !.held = h]
  <2>2. /\ Moves(p, r) /\ r \in Request /\ req'[p] = r /\ r.pc = "work"
        /\ r.auth = a /\ r.rq = req[p].rq /\ r.held = h /\ r.aged = req[p].aged
    BY <1>1, <2>1, Values DEF Moves, Request, Auth
  <2> HIDE DEF r
  <2>3. delivered' = delivered /\ a \notin Briefs
    BY <1>1, <1>13 DEF Mark, Brief
  <2>4. now' = now /\ chain' = chain /\ (faults' # faults => faults' > 0)
    BY <1>3 DEF TypeInv
  <2>5. h.rq = req[p].rq
    BY <1>2, <1>6, <1>8
  <2>6. h = claim'[a] \/ faults' > 0
    BY <1>6, <2>1, <2>4
  <2>7. Owns(p)'
    BY <1>6, <1>8, <1>2, <2>2, <2>4, <2>6 DEF Owns
  <2>8. Knows(p)'
    BY <1>8, <1>9, <2>2, <2>3, <2>4, <2>5, <2>7 DEF Knows
  <2>9. p \in Busy(a)' /\ p \in Working(a)
    BY <1>4, <1>5, <2>2, Workers
  <2>10. Sound(a)'
    <3>1. delivered'[a] = 0 /\ claim'[a].s # "unconfirmed"
      BY <1>5, <1>9, <2>3
    <3> QED BY <1>3, <1>4, <1>5, <1>8, <1>9, <1>10, <2>9, <3>1 DEF Sound
  <2>11. req[p].auth = a
    BY <1>1 DEF Auth
  <2> QED BY <1>7, <1>11, <2>2, <2>8, <2>9, <2>10, <2>11, WorkStep
<1> QED BY <1>12, <1>13

\* A redeem that wins its CAS is the only worker: the claim was nobody's.
LEMMA RedeemWork ==
  ASSUME TypeInv, WorkInv, NEW p \in Procs, Redeem(p) \/ ThrowRedeem(p)
  PROVE  WorkInv'
<1> DEFINE c == As(p, "redeemed")
<1>1. PICK a \in Auths : a = Auth(p)
  BY Values
<1>2. /\ c \in Claims /\ c.s = "redeemed" /\ c.rq = req[p].held.rq
      /\ c.landed = req[p].held.landed
  BY Moving, MovedIs DEF Held
<1>3. /\ UNCHANGED <<passed, lines, chain, sent, delivered, declined, crashes, now>>
      /\ faults' = faults \/ faults' = faults + 1
      /\ claim' = claim \/ Swap(p, c)
      /\ Redeem(p) => Swap(p, c)
      /\ ThrowRedeem(p) => faults' = faults + 1
  BY DEF Redeem, ThrowRedeem, Fault, seen, meters
<1>4. /\ req[p].pc = "redeem" /\ req[p].pc \notin Works /\ req[p].pc \notin BusyAt
      /\ Knows(p) /\ Sound(a) /\ "rework" \in Works /\ "rework" \in BusyAt
  BY DEF Redeem, ThrowRedeem, At, Works, Owning, BusyAt, WorkInv
<1> HIDE DEF c
<1>5. /\ \A b \in Auths \ {a} : claim'[b] = claim[b]
      /\ claim'[a] = claim[a] \/ (Current(p) /\ claim'[a] = c)
      /\ Current(p) => req[p].held = claim[a]
      /\ Redeem(p) /\ Current(p) => claim'[a] = c
  <2>1. Current(p) => req[p].held = claim[a]
    BY <1>1 DEF Current
  <2> QED BY <1>1, <1>2, <1>3, <2>1, Swaps
<1>6. Apart(a) /\ Grows
  BY <1>3, <1>5 DEF Apart, Grows, TypeInv
<1>7. Others
  BY RedeemMoves, ThrowRedeemMoves
<1>8. CASE claim'[a] = claim[a] /\ Moves(p, Idle)
  <2>1. Keeps(a) /\ passed'[a] = passed[a]
    BY <1>3, <1>8 DEF Keeps
  <2> QED BY <1>1, <1>4, <1>6, <1>7, <1>8, <2>1, EndsWork
<1>9. CASE Current(p) /\ claim'[a] = c
  <2>1. /\ claim[a].s = "unconfirmed" /\ req[p].held = claim[a]
        /\ claim[a].rq = req[p].rq /\ chain[a] = "paid"
    BY <1>1, <1>4, <1>5, <1>9 DEF Knows, Auth
  <2>2. Working(a) = {} /\ Busy(a) = {}
    <3>1. ASSUME NEW q \in Working(a) PROVE FALSE
      <4>1. req[q].pc \in Works /\ Auth(q) = a /\ q \in Procs
        BY DEF Working, Works
      <4>2. claim[a].s \in {"inflight", "settled", "redeemed"}
        BY <4>1, Worker
      <4> QED BY <2>1, <4>2
    <3> QED BY <3>1 DEF Working, Busy, Owning
  <2>3. /\ delivered[a] = 0
        /\ a \in Briefs => passed[a] = req[p].rq
    BY <1>4, <2>1 DEF Sound, TypeInv
  <2>4. \/ Moves(p, Idle) /\ faults' > 0
        \/ Moves(p, [req[p] EXCEPT !.pc = "rework", !.held = c])
    <3>1. CASE Redeem(p)
      BY <1>9, <3>1, RedeemMoves DEF c
    <3>2. CASE ThrowRedeem(p)
      BY <1>3, <3>2, ThrowRedeemMoves DEF TypeInv
    <3> QED BY <3>1, <3>2
  <2>5. PICK r \in Request :
          /\ Moves(p, r)
          /\ \/ r = Idle /\ faults' > 0
             \/ r = [req[p] EXCEPT !.pc = "rework", !.held = c]
    BY <2>4 DEF Moves
  <2>6. /\ \/ r.pc = "idle" /\ faults' > 0
           \/ r.pc = "rework" /\ r.auth = a /\ r.held = c /\ r.rq = req[p].rq
        /\ r.pc \in {"idle", "rework"} /\ req'[p] = r
    BY <1>1, <2>5, Values, IdleNot DEF Request, Auth, Moves
  <2>7. claim'[a].s = "redeemed" /\ claim'[a].rq = req[p].rq
    BY <1>2, <1>9, <2>1
  <2>8. Knows(p)'
    <3>1. CASE r.pc = "rework"
      <4>1. chain'[a] = "paid" /\ (a \in Briefs => passed'[a] = req[p].rq)
        BY <1>3, <2>1, <2>3
      <4> QED BY <1>9, <2>6, <2>7, <3>1, <4>1 DEF Knows, Owning
    <3>2. CASE r.pc = "idle"
      BY <2>6, <3>2 DEF Knows, Owning
    <3> QED BY <2>6, <3>1, <3>2
  <2>9. \/ p \in Busy(a)'
        \/ Busy(a)' = {} /\ faults' > 0
    <3>1. CASE r.pc = "rework"
      BY <1>4, <2>5, <2>6, <3>1, Workers
    <3>2. CASE r.pc = "idle"
      <4>1. p \notin Busy(a)'
        BY <2>5, <3>2, Workers DEF BusyAt
      <4>2. Busy(a)' = {}
        BY <2>2, <2>5, <4>1, Workers DEF Busy
      <4> QED BY <2>6, <3>2, <4>2
    <3> QED BY <2>6, <3>1, <3>2
  <2>10. Sound(a)'
    <3>1. delivered'[a] = 0 /\ claim'[a].s # "unconfirmed"
      BY <1>3, <2>3, <2>7
    <3>2. faults' = 0 => ~(faults' > 0) /\ faults = 0
      BY <1>3 DEF TypeInv
    <3>3. claim'[a].landed => chain[a] = "paid"
      BY <2>1
    <3> QED BY <1>3, <1>4, <2>1, <2>2, <2>3, <2>9, <3>1, <3>2, <3>3
            DEF Sound, Redeemable
  <2>11. req[p].auth = a /\ (r.pc = "idle" \/ r.auth = a)
    BY <1>1, <2>6 DEF Auth
  <2> QED BY <1>6, <1>7, <2>2, <2>5, <2>8, <2>10, <2>11, WorkStep
<1>10. claim'[a] = claim[a] => Moves(p, Idle) \/ (Current(p) /\ claim'[a] = c)
  BY <1>5, RedeemMoves, ThrowRedeemMoves
<1> QED BY <1>5, <1>8, <1>9, <1>10

----------------------------------------------------------------------------
(* The clock and the chain. *)

\* Time moves a request's age on: who holds a claim since before the tick is not
\* there for another one.
LEMMA TickWork ==
  ASSUME TypeInv, WorkInv, Tick
  PROVE  WorkInv'
<1>1. /\ UNCHANGED <<claim, passed, lines, chain, sent, delivered, declined,
                     faults, crashes>>
      /\ now' = now + 1 /\ now \in Nat
  BY DEF Tick, store, seen, TypeInv
<1>2. ASSUME NEW p \in Procs
      PROVE  /\ ~req[p].aged /\ req'[p].pc = req[p].pc
             /\ req'[p].auth = req[p].auth /\ req'[p].rq = req[p].rq
             /\ req'[p].held = req[p].held
             /\ req'[p].aged \/ req[p].pc = "idle"
  BY Values DEF Tick, Request, At
<1>3. ASSUME NEW p \in Procs PROVE Knows(p)'
  <2>1. Knows(p) /\ req[p].auth \in Auths
    BY Values DEF WorkInv, Auth
  <2>2. req[p].pc \in Owning => Owns(p)'
    <3> SUFFICES ASSUME req[p].pc \in Owning PROVE Owns(p)'
      OBVIOUS
    <3>1. Owns(p) /\ req'[p].aged
      BY <1>2, <2>1 DEF Knows, Owning
    <3>2. claim[req[p].auth].exp \in Nat
      BY <2>1 DEF TypeInv, Claims
    <3> QED BY <1>1, <1>2, <3>1, <3>2 DEF Owns
  <2> QED BY <1>1, <1>2, <2>1, <2>2 DEF Knows
<1>4. ASSUME NEW a \in Auths PROVE Sound(a)' /\ Alone(a)'
  <2>1. Working(a)' = Working(a) /\ Busy(a)' = Busy(a)
    BY <1>2 DEF Working, Busy, Auth
  <2>2. \A q \in Working(a) : req'[q].pc = req[q].pc
    BY <1>2 DEF Working
  <2>3. Redeemable(a)' <=> Redeemable(a)
    BY <1>1 DEF Redeemable
  <2>4. Sound(a) /\ Alone(a)
    BY DEF WorkInv
  <2>5. Alone(a)'
    BY <2>1, <2>4 DEF Alone
  <2> QED BY <1>1, <2>1, <2>2, <2>3, <2>4, <2>5 DEF Sound
<1> QED BY <1>3, <1>4 DEF WorkInv

LEMMA LedgerWork ==
  ASSUME TypeInv, WorkInv, NEW a \in Auths, Land(a) \/ Cancel(a)
  PROVE  WorkInv'
<1>1. /\ UNCHANGED <<claim, passed, lines, sent, delivered, declined, req, now,
                     faults, crashes>>
      /\ \A b \in Auths : chain[b] = "paid" => chain'[b] = "paid"
      /\ \A b \in Auths : chain'[b] = "paid" => b \in sent \/ chain[b] = "paid"
  BY DEF Land, Cancel, store, meters, TypeInv
<1>2. ASSUME NEW p \in Procs PROVE Knows(p)'
  <2>1. Knows(p) /\ req[p].auth \in Auths
    BY Values DEF WorkInv, Auth
  <2> QED BY <1>1, <2>1 DEF Knows, Owns
<1>3. ASSUME NEW b \in Auths PROVE Sound(b)' /\ Alone(b)'
  <2>1. Working(b)' = Working(b) /\ Busy(b)' = Busy(b)
    BY <1>1 DEF Working, Busy, Auth
  <2>2. Redeemable(b)' <=> Redeemable(b)
    BY <1>1 DEF Redeemable
  <2>3. Sound(b) /\ Alone(b)
    BY DEF WorkInv
  <2> QED BY <1>1, <2>1, <2>2, <2>3 DEF Sound, Alone
<1> QED BY <1>2, <1>3 DEF WorkInv

LEMMA NextWork == TypeInv /\ WorkInv /\ [Next]_vars => WorkInv'
<1> SUFFICES ASSUME TypeInv, WorkInv, [Next]_vars PROVE WorkInv'
  OBVIOUS
<1>1. ASSUME NEW p \in Procs, Acts(p) PROVE WorkInv'
  <2>1. ASSUME Opens(p) PROVE WorkInv'
    BY <2>1, OpenWork DEF Opens
  <2>2. ASSUME Early(p) PROVE WorkInv'
    BY <2>2, TakenWork, CheckWork, ProbeWork DEF Early
  <2>3. ASSUME Stores(p) PROVE WorkInv'
    BY <2>3, ClaimWork, ReleaseWork, CheckNonceWork DEF Stores
  <2>4. ASSUME Brieves(p) PROVE WorkInv'
    BY <2>4, ReserveWork, DeclineWork, CacheBriefWork DEF Brieves
  <2>5. ASSUME Settles(p) PROVE WorkInv'
    <3>1. ASSUME SettleFails(p) PROVE WorkInv'
      BY <3>1, UnconfirmedWork DEF SettleFails, At
    <3>2. ASSUME WorkFails(p) PROVE WorkInv'
      BY <3>2, UnconfirmedWork DEF WorkFails, At
    <3>3. ASSUME WorkOk(p) PROVE WorkInv'
      BY <3>3, AnswerWork DEF WorkOk, At
    <3> QED BY <2>5, <3>1, <3>2, <3>3, SendSettleWork, SettleOkWork, MarkWork
            DEF Settles
  <2>6. ASSUME Redeems(p) PROVE WorkInv'
    <3>1. ASSUME ReworkFails(p) PROVE WorkInv'
      BY <3>1, UnconfirmedWork DEF ReworkFails, At
    <3>2. ASSUME ReworkOk(p) PROVE WorkInv'
      BY <3>2, AnswerWork DEF ReworkOk, At
    <3> QED BY <2>6, <3>1, <3>2, RedeemWork, ReworkUnreadWork DEF Redeems
  <2>7. ASSUME Crash(p) PROVE WorkInv'
    BY <2>7, CrashWork
  <2> QED BY <1>1, <2>1, <2>2, <2>3, <2>4, <2>5, <2>6, <2>7 DEF Acts
<1>2. ASSUME UNCHANGED vars PROVE WorkInv'
  BY <1>2 DEF WorkInv, Knows, Owns, Sound, Alone, Working, Busy, Auth, Redeemable,
              vars, store, seen, meters
<1> QED BY <1>1, <1>2, TickWork, LedgerWork, NextIs

----------------------------------------------------------------------------
(* The counters, for every step. *)

LEMMA SettlesCount ==
  ASSUME TypeInv, CountInv, NEW p \in Procs, Knows(p), Brieves(p) \/ Settles(p)
  PROVE  CountInv'
<1>1. ASSUME Pass(p) \/ Outage(p) PROVE CountInv'
  <2>1. PICK l \in {"cache", "unslot"} : Moves(p, [req[p] EXCEPT !.pc = l])
    BY <1>1, ResearchMoves
  <2>2. Light(req[p], [req[p] EXCEPT !.pc = l])
    BY <1>1, Values DEF Light, Running, Request, Pass, Outage, At
  <2> QED BY <1>1, <2>1, <2>2, ResearchMoves, LightCount
          DEF Pass, Outage, store, seen
<1>2. ASSUME CacheBrief(p) PROVE CountInv'
  <2>1. PICK l \in {"settle", "unslot"} : Moves(p, [req[p] EXCEPT !.pc = l])
    BY <1>2, CacheBriefMoves
  <2>2. Light(req[p], [req[p] EXCEPT !.pc = l])
    BY <1>2, Values DEF Light, Running, Request, CacheBrief, At
  <2> QED BY <1>2, <2>1, <2>2, CacheBriefMoves, LightCount DEF CacheBrief, seen
<1>3. ASSUME SendSettle(p) PROVE CountInv'
  <2>1. Light(req[p], [req[p] EXCEPT !.pc = "asked"])
    BY <1>3, Values DEF Light, Running, Request, SendSettle, At
  <2> QED BY <1>3, <2>1, SendSettleMoves, LightCount DEF SendSettle, store
<1>4. ASSUME SettleOk(p) PROVE CountInv'
  <2>1. CASE Brief(p)
    BY <1>4, <2>1, SettleOkCount
  <2>2. CASE ~Brief(p)
    <3>1. Light(req[p], [req[p] EXCEPT !.pc = "mark"])
      BY Values DEF Light, Counting, Running, Request
    <3>2. Others /\ Moves(p, [req[p] EXCEPT !.pc = "mark"])
      BY <1>4, <2>2, SettleOkMoves
    <3> QED BY <1>4, <2>2, <3>1, <3>2, LightCount DEF SettleOk, store
  <2> QED BY <2>1, <2>2
<1>5. ASSUME \/ Decline(p) \/ SettleFails(p) \/ WorkOk(p) \/ WorkFails(p)
             \/ Mark(p) /\ Brief(p)
      PROVE  CountInv'
  <2>1. Light(req[p], Idle)
    BY DEF Light, Idle, Counting, Running
  <2>2. Others /\ Moves(p, Idle)
    BY <1>5, DeclineMoves, UnconfirmedMoves, AnswerMoves, MarkMoves
       DEF SettleFails, WorkOk, WorkFails
  <2>3. UNCHANGED <<spend, slots, unpaid>>
    BY <1>5 DEF Decline, SettleFails, WorkOk, WorkFails, Mark, Unconfirmed,
                Answer, store
  <2> QED BY <2>1, <2>2, <2>3, LightCount
<1>6. ASSUME Mark(p), ~Brief(p) PROVE CountInv'
  <2>1. Others /\ \E c : Moves(p, [req[p] EXCEPT !.pc = "work", !.held = c])
    BY <1>6, MarkMoves
  <2>2. \A c : Light(req[p], [req[p] EXCEPT !.pc = "work", !.held = c])
    BY Values DEF Light, Counting, Running, Request
  <2> QED BY <1>6, <2>1, <2>2, LightCount DEF Mark
<1>7. ASSUME \/ ReserveSpend(p) \/ ReserveSlot(p) \/ Unspend(p) \/ Unslot(p)
             \/ Refund(p)
      PROVE  CountInv'
  <2>1. Brief(p)
    BY <1>7 DEF Knows, Brief, Auth, At, ReserveSpend, ReserveSlot, Unspend,
                Unslot, Refund
  <2> QED BY <1>7, <2>1, ReserveSpendCount, ReserveSlotCount, UnspendCount,
             UnslotCount, RefundCount
<1> QED BY <1>1, <1>2, <1>3, <1>4, <1>5, <1>6, <1>7 DEF Brieves, Settles

LEMMA OthersCount ==
  ASSUME TypeInv, CountInv, NEW p \in Procs,
         Opens(p) \/ Early(p) \/ Stores(p) \/ Redeems(p) \/ Crash(p)
  PROVE  CountInv'
<1>1. UNCHANGED <<spend, slots, unpaid>>
  BY DEF Opens, Open, Early, Taken, Refuse, Verify, Probe, Stores, Claim,
         TakeClaim, ThrowClaim, Release, CheckNonce, Redeems, Redeem,
         ThrowRedeem, ReworkOk, ReworkFails, ReworkUnread, Answer, Unconfirmed,
         Crash, store, seen
<1>2. Others /\ \E r \in Request : Moves(p, r) /\ Light(req[p], r)
  <2>1. Light(req[p], Idle)
    BY DEF Light, Idle, Counting, Running
  <2>2. ASSUME Opens(p) PROVE Others /\ \E r : Moves(p, r) /\ Light(req[p], r)
    <3>1. PICK a \in Auths, rq \in Rqs : \E proof \in 0..lines[a] :
                 Open(p, a, rq, proof)
      BY <2>2 DEF Opens
    <3>2. PICK proof \in 0..lines[a] : Open(p, a, rq, proof)
      BY <3>1
    <3> DEFINE r == [Idle EXCEPT !.pc = "claim", !.auth = a, !.rq = rq,
                                 !.proof = proof]
    <3>3. Others /\ Moves(p, r)
      BY <3>2, OpenMoves
    <3>4. Light(req[p], r)
      BY DEF Light, Idle, Counting, Running
    <3> QED BY <3>3, <3>4
  <2>3. \A l : l \notin Counting => Light(req[p], [req[p] EXCEPT !.pc = l])
    BY Values DEF Light, Request
  <2>4. \A l, c : l \notin Counting =>
          Light(req[p], [req[p] EXCEPT !.pc = l, !.held = c])
    BY Values DEF Light, Request
  <2>5. ~Brief(p) => \A l : Light(req[p], [req[p] EXCEPT !.pc = l])
    BY Values DEF Light, Request, Brief, Auth
  <2>6. {"idle", "nonce", "check", "spend", "release", "probe", "redeem",
         "rework"} \cap Counting = {}
    BY DEF Counting, Running
  <2>7. ASSUME Early(p) PROVE Others /\ \E r : Moves(p, r) /\ Light(req[p], r)
    <3>1. ASSUME Verify(p) PROVE Others /\ \E r : Moves(p, r) /\ Light(req[p], r)
      <4>1. CASE Brief(p)
        BY <2>3, <2>6, <3>1, <4>1, VerifyMoves
      <4>2. CASE ~Brief(p)
        BY <2>5, <3>1, <4>2, VerifyMoves
      <4> QED BY <4>1, <4>2
    <3>2. ASSUME Taken(p) PROVE Others /\ \E r : Moves(p, r) /\ Light(req[p], r)
      BY <2>1, <2>4, <2>6, <3>2, TakenMoves
    <3>3. ASSUME Refuse(p) \/ Probe(p)
          PROVE  Others /\ \E r : Moves(p, r) /\ Light(req[p], r)
      BY <2>1, <2>3, <2>6, <3>3, RefuseMoves, ProbeMoves
    <3> QED BY <2>7, <3>1, <3>2, <3>3 DEF Early
  <2>8. ASSUME Stores(p) PROVE Others /\ \E r : Moves(p, r) /\ Light(req[p], r)
    BY <2>1, <2>3, <2>4, <2>6, <2>8, ClaimMoves, ThrowClaimMoves, ReleaseMoves,
       CheckNonceMoves DEF Stores
  <2>9. ASSUME Redeems(p) \/ Crash(p)
        PROVE  Others /\ \E r : Moves(p, r) /\ Light(req[p], r)
    BY <2>1, <2>4, <2>6, <2>9, RedeemMoves, ThrowRedeemMoves, AnswerMoves,
       UnconfirmedMoves, ReworkUnreadMoves, CrashMoves
       DEF Redeems, ReworkOk, ReworkFails
  <2> QED BY <2>2, <2>7, <2>8, <2>9 DEF Moves
<1> QED BY <1>1, <1>2, LightCount

LEMMA NextCount == TypeInv /\ CountInv /\ (\A p \in Procs : Knows(p)) /\ [Next]_vars
                   => CountInv'
<1> SUFFICES ASSUME TypeInv, CountInv, \A p \in Procs : Knows(p), [Next]_vars
             PROVE  CountInv'
  OBVIOUS
<1>1. ASSUME NEW p \in Procs, Acts(p) PROVE CountInv'
  BY <1>1, SettlesCount, OthersCount DEF Acts
<1>2. ASSUME Tick \/ UNCHANGED vars \/ \E a \in Auths : Land(a) \/ Cancel(a)
      PROVE  CountInv'
  <2>1. UNCHANGED <<spend, slots, unpaid>>
    BY <1>2 DEF Tick, vars, Land, Cancel, store, seen
  <2>2. \A p \in Procs : req'[p].auth = req[p].auth /\ req'[p].pc = req[p].pc
    BY <1>2, Values DEF Tick, vars, Land, Cancel, Request
  <2>3. \A u \in Payers : /\ Runs(u)' = Runs(u) /\ Slotted(u)' = Slotted(u)
                          /\ Reserved(u)' = Reserved(u)
    BY <2>2 DEF Runs, Slotted, Reserved, InRuns, InSlotted, InReserved
  <2> QED BY <2>1, <2>3 DEF CountInv
<1> QED BY <1>1, <1>2, NextIs

----------------------------------------------------------------------------
(* The invariant and what follows from it. *)

SyncInv == TypeInv /\ CountInv /\ WorkInv

LEMMA InitSync == Init => SyncInv
<1> SUFFICES ASSUME Init PROVE SyncInv
  OBVIOUS
<1>1. \A p \in Procs : req[p].pc = "idle"
  BY DEF Init, Idle
<1>2. \A p \in Procs : Knows(p)
  BY <1>1 DEF Knows, Owning
<1>3. \A a \in Auths : Sound(a) /\ Alone(a)
  <2>1. \A a \in Auths : Working(a) = {}
    BY <1>1 DEF Working, Owning
  <2> QED BY <2>1 DEF Init, Sound, Alone, NoClaim
<1>4. CountInv
  <2>1. \A u \in Payers : Runs(u) = {} /\ Slotted(u) = {} /\ Reserved(u) = {}
    BY <1>1 DEF Runs, Slotted, Reserved, InRuns, InSlotted, InReserved, Running
  <2>2. IsFiniteSet({}) /\ Cardinality({}) = 0
    BY FS_EmptySet
  <2>3. /\ spend = 0 /\ 0 <= SpendCap /\ 0 <= SlotCap
        /\ \A u \in Payers : slots[u] = 0 /\ unpaid[u] = 0
    BY SyncAssumption DEF Init
  <2> QED BY <2>1, <2>2, <2>3 DEF CountInv
<1> QED BY <1>2, <1>3, <1>4, InitTypes DEF SyncInv, WorkInv

LEMMA SyncAlways == Spec => []SyncInv
<1>1. SyncInv /\ [Next]_vars => SyncInv'
  BY NextTypes, NextCount, NextWork DEF SyncInv, WorkInv
<1> QED BY InitSync, <1>1, PTL DEF Spec

\* No variable leaves its type, and the day's spend, a payer's slots and its
\* unpaid runs never go below zero: premiumHandler and chargeOnPass give back
\* only what they have reserved, whatever fails and whoever dies.
THEOREM SyncTypes == Spec => []TypeOK
<1>1. SyncInv => TypeOK
  <2> SUFFICES ASSUME SyncInv PROVE TypeOK
    OBVIOUS
  <2>1. ASSUME NEW u \in Payers
        PROVE  unpaid[u] \in Nat /\ slots[u] \in Nat
    <3>1. Cardinality(Runs(u)) \in Nat /\ Cardinality(Slotted(u)) \in Nat
      BY FS_CardinalityType DEF SyncInv, CountInv
    <3> QED BY <3>1 DEF SyncInv, CountInv, TypeInv
  <2>2. spend \in Nat
    <3>1. \E a \in Auths : PayerOf[a] \in Payers
      BY SyncAssumption
    <3>2. PICK u \in Payers : TRUE
      BY <3>1
    <3>3. Cardinality(Reserved(u)) \in Nat /\ unpaid[u] \in Nat
      BY <2>1, FS_CardinalityType DEF SyncInv, CountInv
    <3> QED BY <3>3 DEF SyncInv, CountInv, TypeInv
  <2> QED BY <2>1, <2>2 DEF SyncInv, TypeInv, TypeOK
<1> QED BY <1>1, SyncAlways, PTL

\* One request at a time works on an authorization, and all of them together
\* deliver it once and only for money: the claim of claim.ts is held through every
\* lapse, redeem and late settle of premiumHandler and redeem.
THEOREM WorkIsOnce == Spec => []WorkOnce
<1>1. SyncInv => WorkOnce
  <2> SUFFICES ASSUME SyncInv, NEW a \in Auths
               PROVE  /\ Cardinality(Working(a)) <= 1
                      /\ delivered[a] <= 1
                      /\ delivered[a] = 1 => chain[a] = "paid"
    BY DEF WorkOnce, OneWorker, OnePaidDelivery
  <2>1. Sound(a) /\ Alone(a)
    BY DEF SyncInv, WorkInv
  <2>2. CASE Working(a) = {}
    BY <2>1, <2>2, FS_EmptySet DEF Sound
  <2>3. CASE Working(a) # {}
    <3>1. PICK p \in Working(a) : TRUE
      BY <2>3
    <3>2. Working(a) = {p}
      BY <2>1, <3>1 DEF Alone
    <3>3. Cardinality({p}) = 1
      BY FS_Singleton
    <3> QED BY <2>1, <3>2, <3>3 DEF Sound
  <2> QED BY <2>2, <2>3
<1> QED BY <1>1, SyncAlways, PTL

\* A charge that was not answered has its reconcile line unless an invocation
\* died, and can be redeemed as long as neither the store nor an invocation
\* failed: no path of premiumHandler or redeem ends between the settle and the
\* line.
THEOREM ChargedIsRecoverable == Spec => []ChargedRecoverable
<1>1. SyncInv => ChargedRecoverable
  <2> SUFFICES ASSUME SyncInv, NEW a \in Auths, chain[a] = "paid",
                      delivered[a] = 0, Quiet(a)
               PROVE  /\ lines[a] > 0 \/ crashes > 0
                      /\ Redeemable(a) \/ faults + crashes > 0
    BY DEF ChargedRecoverable
  <2>1. Busy(a) = {}
    BY DEF Quiet, Busy, At
  <2>2. Sound(a)
    BY DEF SyncInv, WorkInv
  <2>3. faults \in Nat /\ crashes \in Nat
    BY DEF SyncInv, TypeInv
  <2>4. faults + crashes > 0 \/ (faults = 0 /\ crashes = 0)
    BY <2>3
  <2> QED BY <2>1, <2>2, <2>4 DEF Sound
<1> QED BY <1>1, SyncAlways, PTL

\* A brief that can be redeemed has the result it was settled for in the cache,
\* with the fingerprint of its request: chargeOnPass writes it before the settle,
\* and nothing writes another one over it.
THEOREM RedeemableIsCached == Spec => []RedeemableBriefCached
<1>1. SyncInv => RedeemableBriefCached
  BY SyncAssumption
     DEF SyncInv, WorkInv, Sound, RedeemableBriefCached, Redeemable
<1> QED BY <1>1, SyncAlways, PTL

\* An authorization answered brief_not_verified is never submitted, before or
\* after, while the store and the invocations do not fail: its claim stays
\* declined.
THEOREM DeclinedIsNotSent == Spec => []DeclinedNotSent
<1>1. SyncInv => DeclinedNotSent
  <2> SUFFICES ASSUME SyncInv, faults + crashes = 0, NEW a \in declined
               PROVE  a \notin sent
    BY DEF DeclinedNotSent
  <2>1. faults = 0 /\ crashes = 0 /\ a \in Auths
    BY DEF SyncInv, TypeInv
  <2> QED BY <2>1 DEF SyncInv, WorkInv, Sound
<1> QED BY <1>1, SyncAlways, PTL

\* Whatever fails, every brief run whose payment is open is inside the day's spend
\* cap, and neither counter passes its cap: chargeOnPass gives back a reservation
\* only for a run that did not start or that was paid.
THEOREM UnpaidIsCovered == Spec => []UnpaidRunsCovered
<1>1. SyncInv => UnpaidRunsCovered
  <2> SUFFICES ASSUME SyncInv, NEW u \in Payers
               PROVE  unpaid[u] <= spend /\ slots[u] <= SlotCap
    BY DEF UnpaidRunsCovered, SyncInv, CountInv
  <2>1. Cardinality(Reserved(u)) \in Nat
    BY FS_CardinalityType DEF SyncInv, CountInv
  <2> QED BY <2>1 DEF SyncInv, CountInv, TypeInv
<1> QED BY <1>1, SyncAlways, PTL

=============================================================================
