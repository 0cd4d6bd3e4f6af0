------------------------ MODULE SettleStrikesProofs ------------------------
(***************************************************************************)
(* Theorems about SettleStrikes, for any jobs, payers, limits and window.     *)
(* That a clear runs alone is a hypothesis of the theorem that needs it.      *)
(***************************************************************************)
EXTENDS SettleStrikes, FiniteSetTheorems, TLAPS

\* A note that has written the strike and not yet acted on the count, and a
\* clear that has taken it out.
Noted   == {"note_global", "note_count", "note_block"}
Cleared == {"clear_global", "clear_count", "clear_block"}

\* What a job in the middle of a note or a clear knows of its own strike.
ScoresInv ==
  \A j \in Jobs : /\ strike[j] <= now + Window /\ at[j] <= now
                  /\ pc[j] \in Noted => strike[j] = at[j] + Window
                  /\ pc[j] \in Cleared => strike[j] = 0

\* A clear is the only thing under way about its payer, and from its count to
\* its end the payer stays under the limit.
AloneInv ==
  \A j, k \in Jobs : /\ pc[j] \in Clear /\ pc[k] \in Note \cup Clear
                     /\ Payer(j) = Payer(k)
                     => j = k
UnderInv ==
  \A j \in Jobs : pc[j] = "clear_block" =>
                    Cardinality(Strikes(Payer(j), now)) < PayerLimit

\* The strikes whose note is over, or was cut short: enough of them at any time
\* to come, less one for each store error, and the block lasts beyond it.
Counted(u, t) == {j \in Strikes(u, t) : pc[j] \notin Noted}
StruckInv ==
  \A u \in Payers, t \in Nat :
    t >= now /\ Cardinality(Counted(u, t)) >= PayerLimit + faults => block[u] > t

\* A block has a strike behind it, or a clear on its way to lift it.
BehindInv ==
  faults = 0 => \A u \in Payers : block[u] > now =>
                  \E j \in Jobs : /\ Payer(j) = u
                                  /\ strike[j] # 0 \/ pc[j] \in Cleared

\* The jobs on which the two sets differ for good.
Torn == {j \in Jobs : strike[j] # global[j] /\ pc[j] \notin {"note_global", "clear_global"}}
TornInv == Cardinality(Torn) <= faults

----------------------------------------------------------------------------
(* Types, and what one step of a job changes. *)

Works(j) == \/ Accept(j) \/ Settle(j) \/ Resolve(j)
            \/ NoteStrike(j) \/ NoteGlobal(j) \/ NoteCount(j) \/ NoteBlock(j)
            \/ ClearStrike(j) \/ ClearGlobal(j) \/ ClearCount(j) \/ ClearBlock(j)
            \/ Fails(j)

LEMMA NextIs == [Next]_vars => Tick \/ UNCHANGED vars \/ \E j \in Jobs : Works(j)
  BY DEF Next, Works

\* A job's step touches its own entries, its own payer's block and no clock.
Touches(j) ==
  /\ \A k \in Jobs : k # j => /\ pc'[k] = pc[k] /\ at'[k] = at[k]
                              /\ strike'[k] = strike[k] /\ global'[k] = global[k]
  /\ \A u \in Payers : u # Payer(j) => block'[u] = block[u]
  /\ now' = now

LEMMA JobStep ==
  ASSUME TypeOK, NEW j \in Jobs, Works(j)
  PROVE  TypeOK' /\ Touches(j)
<1> USE StrikesAssumption DEF TypeOK, Touches, Goto, sets, Payer, PC, Note, Clear
<1>1. CASE Accept(j)
  BY <1>1 DEF Accept
<1>2. CASE Settle(j)
  BY <1>2 DEF Settle, Begin
<1>3. CASE Resolve(j)
  BY <1>3 DEF Resolve, Begin
<1>4. CASE NoteStrike(j)
  BY <1>4 DEF NoteStrike
<1>5. CASE NoteGlobal(j)
  BY <1>5 DEF NoteGlobal
<1>6. CASE NoteCount(j)
  BY <1>6 DEF NoteCount, After
<1>7. CASE NoteBlock(j)
  BY <1>7 DEF NoteBlock, After
<1>8. CASE ClearStrike(j)
  BY <1>8 DEF ClearStrike
<1>9. CASE ClearGlobal(j)
  BY <1>9 DEF ClearGlobal
<1>10. CASE ClearCount(j)
  BY <1>10 DEF ClearCount, After
<1>11. CASE ClearBlock(j)
  BY <1>11 DEF ClearBlock, After
<1>12. CASE Fails(j)
  BY <1>12 DEF Fails, After
<1> QED BY <1>1, <1>2, <1>3, <1>4, <1>5, <1>6, <1>7, <1>8, <1>9, <1>10, <1>11, <1>12
        DEF Works

LEMMA NextTypes == TypeOK /\ [Next]_vars => TypeOK'
<1> SUFFICES ASSUME TypeOK, [Next]_vars PROVE TypeOK'
  OBVIOUS
<1>1. CASE Tick \/ UNCHANGED vars
  BY <1>1 DEF Tick, TypeOK, vars, sets
<1> QED BY <1>1, JobStep, NextIs

\* Every variable keeps its type, whatever the limits and the window.
THEOREM StrikesTypes == Spec => []TypeOK
<1>1. Init => TypeOK
  BY DEF Init, TypeOK, PC
<1> QED BY <1>1, NextTypes, PTL DEF Spec

\* The sets whose members are counted are finite.
LEMMA Finite ==
  /\ \A S \in SUBSET Jobs : IsFiniteSet(S) /\ Cardinality(S) \in Nat
  /\ \A S, T \in SUBSET Jobs : S \subseteq T => Cardinality(S) <= Cardinality(T)
  /\ \A S, T \in SUBSET Jobs, j \in Jobs :
       S \subseteq T \cup {j} => Cardinality(S) <= Cardinality(T) + 1
  /\ \A j \in Jobs : Cardinality({j}) = 1
<1>1. \A S \in SUBSET Jobs : IsFiniteSet(S) /\ Cardinality(S) \in Nat
  BY StrikesAssumption, FS_Subset, FS_CardinalityType
<1>2. \A S, T \in SUBSET Jobs : S \subseteq T => Cardinality(S) <= Cardinality(T)
  BY <1>1, FS_Subset
<1>3. ASSUME NEW S \in SUBSET Jobs, NEW T \in SUBSET Jobs, NEW j \in Jobs,
             S \subseteq T \cup {j}
      PROVE  Cardinality(S) <= Cardinality(T) + 1
  <2>1. IsFiniteSet(T) /\ Cardinality(T) \in Nat /\ T \cup {j} \in SUBSET Jobs
        /\ Cardinality(S) \in Nat
    BY <1>1
  <2>2. Cardinality(T \cup {j}) <= Cardinality(T) + 1
    BY <2>1, FS_AddElement
  <2>3. Cardinality(S) <= Cardinality(T \cup {j}) /\ Cardinality(T \cup {j}) \in Nat
    BY <1>1, <1>2, <1>3, <2>1
  <2> QED BY <2>1, <2>2, <2>3
<1>4. \A j \in Jobs : Cardinality({j}) = 1
  BY FS_Singleton
<1> QED BY <1>1, <1>2, <1>3, <1>4

----------------------------------------------------------------------------
(* The two sets. *)

LEMMA ScoresStep == TypeOK /\ ScoresInv /\ [Next]_vars => ScoresInv'
<1> SUFFICES ASSUME TypeOK, ScoresInv, [Next]_vars PROVE ScoresInv'
  OBVIOUS
<1>1. CASE Tick \/ UNCHANGED vars
  BY <1>1, StrikesAssumption DEF Tick, vars, sets, ScoresInv, TypeOK
<1>2. ASSUME NEW j \in Jobs, Works(j) PROVE ScoresInv'
  <2>1. Touches(j) /\ TypeOK'
    BY <1>2, JobStep
  <2>2. /\ strike'[j] <= now + Window /\ at'[j] <= now
        /\ pc'[j] \in Noted => strike'[j] = at'[j] + Window
        /\ pc'[j] \in Cleared => strike'[j] = 0
    BY <1>2, StrikesAssumption
    DEF ScoresInv, TypeOK, Works, Accept, Settle, Resolve, NoteStrike, NoteGlobal,
        NoteCount, NoteBlock, ClearStrike, ClearGlobal, ClearCount, ClearBlock, Fails,
        After, Goto, Begin, Note, Clear, Noted, Cleared, sets
  <2> QED BY <2>1, <2>2 DEF ScoresInv, Touches
<1> QED BY <1>1, <1>2, NextIs

LEMMA TornStep == TypeOK /\ ScoresInv /\ TornInv /\ [Next]_vars => TornInv'
<1> SUFFICES ASSUME TypeOK, ScoresInv, TornInv, [Next]_vars PROVE TornInv'
  OBVIOUS
<1>1. CASE Tick \/ UNCHANGED vars
  BY <1>1 DEF Tick, vars, sets, TornInv, Torn
<1>2. ASSUME NEW j \in Jobs, Works(j) PROVE TornInv'
  <2>1. Touches(j) /\ TypeOK' /\ faults' \in Nat /\ faults \in Nat
        /\ Torn \in SUBSET Jobs /\ Torn' \in SUBSET Jobs
    BY <1>2, JobStep DEF TypeOK, Torn
  <2>2. CASE Fails(j)
    <3>1. Torn' \subseteq Torn \cup {j} /\ faults' = faults + 1
      BY <2>1, <2>2 DEF Touches, Torn, Fails
    <3> QED BY <2>1, <3>1, Finite DEF TornInv
  <2>3. CASE ~Fails(j)
    <3>1. faults' = faults
      BY <1>2, <2>3
      DEF Works, Accept, Settle, Resolve, NoteStrike, NoteGlobal, NoteCount, NoteBlock,
          ClearStrike, ClearGlobal, ClearCount, ClearBlock
    <3>2. j \in Torn' => j \in Torn
      BY <1>2, <2>1, <2>3
      DEF Works, Accept, Settle, Resolve, NoteStrike, NoteGlobal, NoteCount, NoteBlock,
          ClearStrike, ClearGlobal, ClearCount, ClearBlock, Goto, Begin, After, sets,
          Torn, TypeOK, ScoresInv, Noted, Cleared
    <3>3. Torn' \subseteq Torn
      BY <2>1, <3>2 DEF Touches, Torn
    <3> QED BY <2>1, <3>1, <3>3, Finite DEF TornInv
  <2> QED BY <2>2, <2>3
<1> QED BY <1>1, <1>2, NextIs

\* Each store error leaves the payer's set and the global set different on at
\* most one job, however notes and clears of the other jobs interleave.
THEOREM SetsAgree == Spec => []StrikesAgree
<1>1. Init => TypeOK /\ ScoresInv /\ TornInv
  <2> SUFFICES ASSUME Init PROVE TypeOK /\ ScoresInv /\ TornInv
    OBVIOUS
  <2>1. TypeOK /\ ScoresInv
    BY StrikesAssumption DEF Init, TypeOK, PC, ScoresInv, Noted, Cleared
  <2>2. Torn = {}
    BY DEF Init, Torn
  <2> QED BY <2>1, <2>2, FS_EmptySet DEF Init, TornInv
<1>2. TypeOK /\ TornInv => StrikesAgree
  <2> SUFFICES ASSUME TypeOK, TornInv PROVE StrikesAgree
    OBVIOUS
  <2> DEFINE D == {j \in Jobs : Touching(Payer(j)) = {} /\ strike[j] # global[j]}
  <2>1. D \subseteq Torn
    BY DEF Touching, Torn, Note, Clear
  <2>2. Cardinality(D) <= Cardinality(Torn)
    BY <2>1, Finite DEF Torn
  <2>3. Cardinality(Torn) \in Nat /\ Cardinality(D) \in Nat /\ faults \in Nat
    BY Finite DEF Torn, TypeOK
  <2> QED BY <2>2, <2>3 DEF TornInv, StrikesAgree
<1>3. TypeOK /\ ScoresInv /\ TornInv /\ [Next]_vars => (TypeOK /\ ScoresInv /\ TornInv)'
  BY NextTypes, ScoresStep, TornStep
<1> QED BY <1>1, <1>2, <1>3, PTL DEF Spec

----------------------------------------------------------------------------
(* The block. *)

LEMMA BehindStep == TypeOK /\ ScoresInv /\ BehindInv /\ [Next]_vars => BehindInv'
<1> SUFFICES ASSUME TypeOK, ScoresInv, BehindInv, [Next]_vars, faults' = 0,
                    NEW u \in Payers, block'[u] > now'
             PROVE  \E k \in Jobs : Payer(k) = u /\ (strike'[k] # 0 \/ pc'[k] \in Cleared)
  BY DEF BehindInv, Payer
<1>1. CASE Tick \/ UNCHANGED vars
  BY <1>1 DEF Tick, vars, sets, BehindInv, TypeOK
<1>2. ASSUME NEW j \in Jobs, Works(j)
      PROVE  \E k \in Jobs : Payer(k) = u /\ (strike'[k] # 0 \/ pc'[k] \in Cleared)
  <2>1. Touches(j) /\ TypeOK' /\ TypeOK
    BY <1>2, JobStep
  <2>2. faults = 0 /\ ~Fails(j)
    BY <1>2 DEF Fails, Works, Accept, Settle, Resolve, NoteStrike, NoteGlobal, NoteCount,
                NoteBlock, ClearStrike, ClearGlobal, ClearCount, ClearBlock, TypeOK
  <2>3. ASSUME NEW k \in Jobs, Payer(k) = u, k # j, strike[k] # 0 \/ pc[k] \in Cleared
        PROVE  strike'[k] # 0 \/ pc'[k] \in Cleared
    BY <2>1, <2>3 DEF Touches
  <2>4. CASE Payer(j) # u
    BY <2>1, <2>2, <2>3, <2>4 DEF Touches, BehindInv
  <2>5. CASE Payer(j) = u /\ NoteBlock(j)
    <3>1. strike'[j] = strike[j] /\ strike[j] = at[j] + Window
      BY <2>5 DEF NoteBlock, ScoresInv, Noted
    <3> QED BY <2>5, <3>1, StrikesAssumption DEF TypeOK
  <2>6. CASE Payer(j) = u /\ ClearCount(j) /\ pc'[j] # "clear_block"
    <3>1. Cardinality(Strikes(u, now)) >= PayerLimit /\ strike' = strike
      <4>1. Cardinality(Strikes(u, now)) \in Nat
        BY Finite DEF Strikes
      <4>2. ~(Cardinality(Strikes(u, now)) < PayerLimit) /\ strike' = strike
        BY <2>1, <2>6 DEF ClearCount, TypeOK, Goto, sets
      <4> QED BY <4>1, <4>2, StrikesAssumption
    <3>2. PICK k \in Jobs : k \in Strikes(u, now)
      <4>1. Strikes(u, now) # {}
        BY <3>1, FS_EmptySet, StrikesAssumption
      <4> QED BY <4>1 DEF Strikes
    <3> QED BY <2>1, <3>1, <3>2 DEF Strikes, TypeOK
  <2>7. CASE Payer(j) = u /\ ClearBlock(j)
    BY <2>1, <2>7 DEF ClearBlock, TypeOK
  <2>8. CASE /\ Payer(j) = u /\ ~NoteBlock(j) /\ ~ClearBlock(j)
             /\ ~(ClearCount(j) /\ pc'[j] # "clear_block")
    <3>1. block' = block
      BY <1>2, <2>2, <2>8
      DEF Works, Accept, Settle, Resolve, NoteStrike, NoteGlobal, NoteCount,
          ClearStrike, ClearGlobal, ClearCount, sets
    <3>2. PICK k \in Jobs : Payer(k) = u /\ (strike[k] # 0 \/ pc[k] \in Cleared)
      BY <2>1, <2>2, <3>1 DEF BehindInv, Touches
    <3>3. CASE k # j
      BY <2>3, <3>2, <3>3
    <3>4. strike[j] # 0 \/ pc[j] \in Cleared => strike'[j] # 0 \/ pc'[j] \in Cleared
      BY <1>2, <2>1, <2>2, <2>8, StrikesAssumption
      DEF Works, Accept, Settle, Resolve, NoteStrike, NoteGlobal, NoteCount,
          ClearStrike, ClearGlobal, ClearCount, sets, Goto, Begin, After, Cleared, TypeOK
    <3> QED BY <2>8, <3>2, <3>3, <3>4
  <2> QED BY <2>4, <2>5, <2>6, <2>7, <2>8
<1> QED BY <1>1, <1>2, NextIs

\* Without a store error, a payer is blocked only with a failed settle on record,
\* never by payments that all landed.
THEOREM BlocksHaveFailure == Spec => []BlockNeedsFailure
<1>1. Init => TypeOK /\ ScoresInv /\ BehindInv
  BY StrikesAssumption DEF Init, TypeOK, PC, ScoresInv, Noted, Cleared, BehindInv
<1>2. TypeOK /\ BehindInv => BlockNeedsFailure
  BY DEF TypeOK, BehindInv, BlockNeedsFailure, Touching, Clear, Cleared, Payer
<1>3. TypeOK /\ ScoresInv /\ BehindInv /\ [Next]_vars
        => (TypeOK /\ ScoresInv /\ BehindInv)'
  BY NextTypes, ScoresStep, BehindStep
<1> QED BY <1>1, <1>2, <1>3, PTL DEF Spec

\* A clear is alone only if nothing lets it start beside another job's.
LEMMA AloneStep ==
  ASSUME ClearAlone
  PROVE  TypeOK /\ AloneInv /\ [Next]_vars => AloneInv'
<1> SUFFICES ASSUME TypeOK, AloneInv, [Next]_vars PROVE AloneInv'
  OBVIOUS
<1>1. CASE Tick \/ UNCHANGED vars
  BY <1>1 DEF Tick, vars, AloneInv
<1>2. ASSUME NEW j \in Jobs, Works(j) PROVE AloneInv'
  <2>1. Touches(j) /\ TypeOK'
    BY <1>2, JobStep
  <2>2. CASE Resolve(j) /\ pc'[j] = "clear"
    <3>1. Touching(Payer(j)) = {}
      BY <2>1, <2>2 DEF Resolve, MayClear, Begin, Goto, TypeOK
    <3> QED BY <2>1, <2>2, <3>1 DEF AloneInv, Touches, Touching, Payer
  <2>3. CASE (Settle(j) \/ Resolve(j)) /\ pc'[j] = "note"
    <3>1. \A k \in Touching(Payer(j)) : pc[k] \in Note
      BY <2>1, <2>3 DEF Settle, Resolve, MayNote, Begin, Goto, TypeOK
    <3>2. \A k \in Jobs : Payer(k) = Payer(j) => pc[k] \notin Clear
      BY <3>1 DEF Touching, Note, Clear
    <3> QED BY <2>1, <2>3, <3>2 DEF AloneInv, Touches, Payer, Clear
  <2>4. \/ Resolve(j) /\ pc'[j] = "clear"
        \/ (Settle(j) \/ Resolve(j)) /\ pc'[j] = "note"
        \/ /\ pc'[j] \in Clear => pc[j] \in Clear
           /\ pc'[j] \in Note \cup Clear => pc[j] \in Note \cup Clear
    BY <1>2 DEF Works, Accept, Settle, Resolve, NoteStrike, NoteGlobal, NoteCount,
                NoteBlock, ClearStrike, ClearGlobal, ClearCount, ClearBlock, Fails,
                Goto, Begin, After, Note, Clear, TypeOK
  <2>5. CASE /\ pc'[j] \in Clear => pc[j] \in Clear
             /\ pc'[j] \in Note \cup Clear => pc[j] \in Note \cup Clear
    BY <2>1, <2>5 DEF AloneInv, Touches, Payer
  <2> QED BY <2>2, <2>3, <2>4, <2>5
<1> QED BY <1>1, <1>2, NextIs

\* Only a note writes a strike, so that a clear that is alone stays under the limit.
LEMMA UnderStep ==
  ASSUME ClearAlone
  PROVE  TypeOK /\ AloneInv /\ UnderInv /\ [Next]_vars => UnderInv'
<1> SUFFICES ASSUME TypeOK, AloneInv, UnderInv, [Next]_vars,
                    NEW k \in Jobs, pc'[k] = "clear_block"
             PROVE  Cardinality(Strikes(Payer(k), now))' < PayerLimit
  BY DEF UnderInv, Payer
<1> DEFINE S == Strikes(Payer(k), now)
<1>0. S \in SUBSET Jobs /\ S' \in SUBSET Jobs
  BY DEF Strikes
<1>1. CASE pc[k] = "clear_block" /\ S' \subseteq S
  <2>1. Cardinality(S) < PayerLimit
    BY <1>1 DEF UnderInv
  <2>2. Cardinality(S') <= Cardinality(S) /\ Cardinality(S) \in Nat
        /\ Cardinality(S') \in Nat
    BY <1>0, <1>1, Finite
  <2> QED BY <2>1, <2>2, StrikesAssumption
<1>2. CASE Tick \/ UNCHANGED vars
  <2>1. /\ pc[k] = "clear_block" /\ strike' = strike
        /\ now \in Nat /\ now' \in {now, now + 1} /\ strike \in [Jobs -> Nat]
    BY <1>2 DEF Tick, vars, sets, TypeOK
  <2>2. S' \subseteq S
    BY <2>1 DEF Strikes, Payer
  <2> QED BY <1>1, <2>1, <2>2
<1>3. ASSUME NEW j \in Jobs, Works(j)
      PROVE  Cardinality(S') < PayerLimit
  <2>1. Touches(j) /\ TypeOK'
    BY <1>3, JobStep
  <2>2. CASE j # k
    <3>1. pc[k] = "clear_block"
      BY <2>1, <2>2 DEF Touches
    <3>2. Payer(j) = Payer(k) => pc[j] \notin Note \cup Clear
      BY <2>2, <3>1 DEF AloneInv, Clear
    <3>3. Payer(j) = Payer(k) => strike'[j] = strike[j]
      BY <1>3, <2>1, <3>2
      DEF Works, Accept, Settle, Resolve, NoteStrike, NoteGlobal, NoteCount, NoteBlock,
          ClearStrike, ClearGlobal, ClearCount, ClearBlock, Fails, Note, Clear, sets
    <3>4. S' \subseteq S
      BY <2>1, <3>3 DEF Touches, Strikes, Payer
    <3> QED BY <1>1, <3>1, <3>4
  <2>3. CASE j = k
    <3>1. ClearCount(j) /\ pc[j] = "clear_count"
      BY <1>3, <2>3
      DEF Works, Accept, Settle, Resolve, NoteStrike, NoteGlobal, NoteCount, NoteBlock,
          ClearStrike, ClearGlobal, ClearCount, ClearBlock, Fails, Goto, Begin, After,
          TypeOK
    <3>2. Cardinality(S) < PayerLimit /\ strike' = strike
      BY <2>3, <3>1 DEF ClearCount, Goto, After, TypeOK, sets
    <3>3. S' = S
      BY <2>1, <3>2 DEF Strikes, Touches, Payer
    <3> QED BY <3>2, <3>3
  <2> QED BY <2>2, <2>3
<1> QED BY <1>2, <1>3, NextIs

\* The last note to count sees every strike written before it.
LEMMA StruckStep ==
  TypeOK /\ ScoresInv /\ UnderInv /\ StruckInv /\ [Next]_vars => StruckInv'
<1> SUFFICES ASSUME TypeOK, ScoresInv, UnderInv, StruckInv, [Next]_vars,
                    NEW u \in Payers, NEW t \in Nat, t >= now',
                    Cardinality(Counted(u, t)') >= PayerLimit + faults'
             PROVE  block'[u] > t
  BY DEF StruckInv, Counted, Strikes, Payer
<1> DEFINE S == Counted(u, t)
<1>0. /\ S \in SUBSET Jobs /\ S' \in SUBSET Jobs /\ TypeOK'
      /\ Cardinality(S) \in Nat /\ Cardinality(S') \in Nat
  BY Finite, NextTypes DEF Counted, Strikes
<1>1. ASSUME t >= now, block'[u] = block[u], faults' = faults, S' \subseteq S
      PROVE  block'[u] > t
  <2>1. Cardinality(S) >= PayerLimit + faults
    BY <1>0, <1>1, Finite, StrikesAssumption DEF TypeOK
  <2> QED BY <1>1, <2>1 DEF StruckInv
<1>2. CASE Tick \/ UNCHANGED vars
  <2>1. S' = S /\ t >= now /\ block' = block /\ faults' = faults
    BY <1>2 DEF Tick, vars, sets, Counted, Strikes, TypeOK
  <2> QED BY <1>1, <2>1
<1>3. ASSUME NEW j \in Jobs, Works(j)
      PROVE  block'[u] > t
  <2>1. Touches(j) /\ t >= now /\ now \in Nat
    BY <1>3, JobStep DEF Touches, TypeOK
  <2>2. S' \subseteq S \cup {j}
    BY <2>1 DEF Touches, Counted, Strikes, Payer
  <2>3. CASE Payer(j) # u
    <3>1. S' \subseteq S
      BY <2>2, <2>3 DEF Counted, Strikes, Payer
    <3>2. block'[u] = block[u]
      BY <2>1, <2>3 DEF Touches
    <3>3. faults' \in {faults, faults + 1}
      BY <1>3
      DEF Works, Accept, Settle, Resolve, NoteStrike, NoteGlobal, NoteCount, NoteBlock,
          ClearStrike, ClearGlobal, ClearCount, ClearBlock, Fails
    <3>4. Cardinality(S) >= PayerLimit + faults
      BY <1>0, <3>1, <3>3, Finite, StrikesAssumption DEF TypeOK
    <3> QED BY <2>1, <3>2, <3>4 DEF StruckInv
  <2>4. CASE Payer(j) = u /\ Fails(j)
    <3>1. faults' = faults + 1 /\ block' = block
      BY <2>4 DEF Fails, sets
    <3>2. Cardinality(S') <= Cardinality(S) + 1
      BY <1>0, <2>2, Finite
    <3>3. Cardinality(S) >= PayerLimit + faults
      BY <1>0, <3>1, <3>2, StrikesAssumption DEF TypeOK
    <3> QED BY <2>1, <3>1, <3>3 DEF StruckInv
  <2>5. CASE Payer(j) = u /\ NoteCount(j) /\ pc'[j] # "note_block"
    <3>1. /\ ~(Cardinality(Strikes(u, at[j])) >= PayerLimit)
          /\ strike' = strike /\ faults' = faults
      BY <1>0, <2>5 DEF NoteCount, Goto, TypeOK, sets
    <3>2. S' \subseteq Strikes(u, at[j]) /\ Strikes(u, at[j]) \in SUBSET Jobs
      BY <1>0, <2>1, <3>1 DEF Counted, Strikes, ScoresInv, TypeOK, Payer
    <3>3. Cardinality(S') <= Cardinality(Strikes(u, at[j]))
          /\ Cardinality(Strikes(u, at[j])) \in Nat
      BY <1>0, <3>2, Finite
    <3> QED BY <1>0, <3>1, <3>3, StrikesAssumption DEF TypeOK
  <2>6. CASE Payer(j) = u /\ NoteBlock(j)
    <3>1. block'[u] = now + Window /\ strike' = strike
      BY <2>6 DEF NoteBlock, TypeOK
    <3>2. S' # {}
      <4>1. Cardinality(S') >= PayerLimit + faults' /\ faults' \in Nat
        BY <1>0 DEF TypeOK
      <4>2. Cardinality(S') > 0
        BY <1>0, <4>1, StrikesAssumption
      <4> QED BY <4>2, FS_EmptySet
    <3>3. PICK k \in Jobs : strike[k] > t
      BY <3>1, <3>2 DEF Counted, Strikes
    <3> QED BY <3>1, <3>3, StrikesAssumption DEF ScoresInv, TypeOK
  <2>7. CASE Payer(j) = u /\ ClearBlock(j)
    <3>1. pc[j] = "clear_block" /\ strike' = strike /\ faults' = faults
      BY <2>7 DEF ClearBlock
    <3>2. Cardinality(Strikes(u, now)) < PayerLimit
      BY <2>7, <3>1 DEF UnderInv
    <3>3. S' \subseteq Strikes(u, now) /\ Strikes(u, now) \in SUBSET Jobs
      BY <1>0, <2>1, <3>1 DEF Counted, Strikes, TypeOK, Payer
    <3>4. Cardinality(S') <= Cardinality(Strikes(u, now))
          /\ Cardinality(Strikes(u, now)) \in Nat
      BY <1>0, <3>3, Finite
    <3> QED BY <1>0, <3>1, <3>2, <3>4, StrikesAssumption DEF TypeOK
  <2>8. CASE /\ Payer(j) = u /\ ~Fails(j) /\ ~NoteBlock(j) /\ ~ClearBlock(j)
             /\ ~(NoteCount(j) /\ pc'[j] # "note_block")
    <3>1. block' = block /\ faults' = faults
      BY <1>3, <2>8
      DEF Works, Accept, Settle, Resolve, NoteStrike, NoteGlobal, NoteCount,
          ClearStrike, ClearGlobal, ClearCount, sets
    <3>2. j \in S' => j \in S
      BY <1>0, <1>3, <2>8, StrikesAssumption
      DEF Works, Accept, Settle, Resolve, NoteStrike, NoteGlobal, NoteCount,
          ClearStrike, ClearGlobal, ClearCount, sets, Goto, Begin, After, Counted,
          Strikes, Noted, TypeOK, Payer
    <3>3. S' \subseteq S
      BY <2>2, <3>2
    <3> QED BY <1>1, <2>1, <3>1, <3>3
  <2> QED BY <2>3, <2>4, <2>5, <2>6, <2>7, <2>8
<1> QED BY <1>2, <1>3, NextIs

\* If a clear never overlaps another job's note or clear of the same payer, a
\* payer with enough failed settles in the window is blocked once they are done,
\* for each window and limit and for any number of notes at once.
THEOREM StruckIsBlocked ==
  ASSUME ClearAlone
  PROVE  Spec => []BlockedWhenStruck
<1> DEFINE I == TypeOK /\ ScoresInv /\ AloneInv /\ UnderInv /\ StruckInv
<1>1. Init => I
  <2> SUFFICES ASSUME Init PROVE I
    OBVIOUS
  <2>1. TypeOK /\ ScoresInv /\ AloneInv /\ UnderInv
    BY StrikesAssumption DEF Init, TypeOK, PC, ScoresInv, Noted, Cleared, AloneInv,
                             UnderInv, Clear
  <2>2. \A u \in Payers, t \in Nat : Counted(u, t) = {}
    BY DEF Init, Counted, Strikes
  <2>3. StruckInv
    BY <2>2, FS_EmptySet, StrikesAssumption DEF StruckInv, Init
  <2> QED BY <2>1, <2>3
<1>2. I => BlockedWhenStruck
  <2> SUFFICES ASSUME I, NEW u \in Payers, Touching(u) = {},
                      Cardinality(Strikes(u, now)) >= PayerLimit + faults
               PROVE  block[u] > now
    BY DEF BlockedWhenStruck
  <2>1. Counted(u, now) = Strikes(u, now)
    BY DEF Counted, Strikes, Touching, Noted, Note
  <2> QED BY <2>1 DEF StruckInv, TypeOK
<1>3. I /\ [Next]_vars => I'
  BY NextTypes, ScoresStep, AloneStep, UnderStep, StruckStep
<1> HIDE DEF I
<1> QED BY <1>1, <1>2, <1>3, PTL DEF Spec

\* The block follows the strikes, in both directions.
THEOREM BlocksFollowStrikes ==
  ASSUME ClearAlone
  PROVE  Spec => []BlockFollowsStrikes
<1>1. BlockedWhenStruck /\ BlockNeedsFailure => BlockFollowsStrikes
  BY DEF BlockFollowsStrikes
<1> QED BY <1>1, StruckIsBlocked, BlocksHaveFailure, PTL
=============================================================================
