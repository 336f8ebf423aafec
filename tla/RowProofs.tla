----------------------------- MODULE RowProofs ------------------------------
(***************************************************************************)
(* FrameProgress loses no wake-up and implements RowGate, for any number   *)
(* of waiters and rows.  MotionRows: a later frame loads only rows that    *)
(* every tile has saved, for any grid of tiles and any superblock sizes.   *)
(***************************************************************************)
EXTENDS FrameProgress, MotionRows, FiniteSetTheorems, WellFoundedInduction, TLAPS

\* The mutex is held exactly by the goroutine in its critical section and the
\* waiter count is the number of registered goroutines; a publisher carries a
\* value it may store.
MutexInv ==
  /\ \A w \in Waiters : pc[w] = "check" <=> mu = w
  /\ ppc \in {"store", "wake"} <=> mu = Pub
  /\ waiters = Cardinality(Registered)
  /\ ppc \in {"lock", "store"} => val = Error \/ (rows # Error /\ val >= rows)

\* The inductive invariant.
ProgressIInv == TypeOK /\ MutexInv /\ NoLostWakeup /\ RowsStay

LEMMA RegisteredFinite == IsFiniteSet(Registered)
  BY Zenon, ProgressAssumption, FS_Subset DEF Registered

LEMMA RegisteredNone ==
  ASSUME waiters = Cardinality(Registered), waiters = 0
  PROVE  Registered = {}
  BY Zenon, RegisteredFinite, FS_EmptySet

LEMMA InitIInv == Init => ProgressIInv
<1> SUFFICES ASSUME Init PROVE ProgressIInv
  BY Zenon
<1>1. TypeOK
  BY ProgressAssumption DEF Init, TypeOK, Error, InWait
<1>2. Registered = {}
  BY Zenon DEF Init, Registered
<1>3. MutexInv
  BY Zenon, <1>2, FS_EmptySet, ProgressAssumption DEF Init, MutexInv
<1> QED
  BY Zenon, <1>1, <1>3 DEF Init, ProgressIInv, NoLostWakeup, RowsStay

LEMMA NextIInv == ProgressIInv /\ [Next]_vars => ProgressIInv'
<1> SUFFICES ASSUME ProgressIInv, [Next]_vars PROVE ProgressIInv'
  BY Zenon
<1> USE ProgressAssumption
<1> USE DEF ProgressIInv
<1>0. IsFiniteSet(Registered)
  BY Zenon, RegisteredFinite
<1>1. CASE \E w \in Waiters, n \in 0 .. Done : Wait(w, n)
  <2> PICK w \in Waiters, n \in 0 .. Done : Wait(w, n)
    BY Zenon, <1>1
  <2>1. TypeOK'
    BY Zenon DEF Wait, TypeOK, InWait
  <2>2. Registered' = Registered
    BY Zenon DEF Wait, Registered, TypeOK
  <2> QED
    BY Zenon, <2>1, <2>2 DEF Wait, TypeOK, MutexInv, NoLostWakeup, RowsStay, Satisfied
<1>2. CASE \E w \in Waiters : FastLoad(w)
  <2> PICK w \in Waiters : FastLoad(w)
    BY Zenon, <1>2
  <2>1. TypeOK'
    BY Zenon DEF FastLoad, TypeOK, InWait, Result
  <2>2. Registered' = Registered
    BY Zenon DEF FastLoad, Registered, TypeOK, Result
  <2> QED
    BY Zenon, <2>1, <2>2 DEF FastLoad, TypeOK, MutexInv, NoLostWakeup, RowsStay, Satisfied, Result
<1>3. CASE \E w \in Waiters : Register(w)
  <2> PICK w \in Waiters : Register(w)
    BY Zenon, <1>3
  <2>1. TypeOK'
    BY DEF Register, TypeOK, InWait
  <2>2. Registered' = Registered \cup {w} /\ w \notin Registered
    BY Zenon DEF Register, Registered, TypeOK
  <2>3. Cardinality(Registered') = waiters'
    BY Zenon, <1>0, <2>2, FS_AddElement DEF Register, MutexInv
  <2>4. MutexInv'
    BY Zenon, <2>1, <2>3 DEF Register, TypeOK, MutexInv
  <2> QED
    BY Zenon, <2>1, <2>4 DEF Register, TypeOK, MutexInv, NoLostWakeup, RowsStay, Satisfied
<1>4. CASE \E w \in Waiters : Check(w)
  <2> PICK w \in Waiters : Check(w)
    BY Zenon, <1>4
  <2>1. CASE Satisfied(need[w])
    <3>0. /\ mu' = Free /\ waiters' = waiters - 1
          /\ pc' = [pc EXCEPT ![w] = Result]
          /\ UNCHANGED <<rows, need, ppc, val>>
      BY Zenon, <2>1 DEF Check
    <3>1. w \in Registered /\ Registered' = Registered \ {w}
      BY Zenon, <3>0 DEF Check, Registered, TypeOK, Result
    <3>2. waiters' = Cardinality(Registered') /\ Cardinality(Registered') \in Nat
      BY Zenon, <1>0, <3>0, <3>1, FS_RemoveElement, FS_CardinalityType, FS_Subset DEF MutexInv
    <3>3. TypeOK'
      BY Zenon, <3>0, <3>2 DEF TypeOK, InWait, Result
    <3>4. mu = w
      BY Zenon DEF Check, MutexInv
    <3>5. MutexInv'
      BY Zenon, <3>0, <3>2, <3>4 DEF TypeOK, MutexInv, Result
    <3>6. NoLostWakeup'
      <4> SUFFICES ASSUME NEW v \in Waiters, pc'[v] = "asleep", Satisfied(need[v])'
                   PROVE  FALSE
        BY Zenon DEF NoLostWakeup
      <4>1. pc[v] = "asleep" /\ Satisfied(need[v])
        BY Zenon, <3>0 DEF TypeOK, Result, Satisfied
      <4> QED
        BY Zenon, <4>1, <3>4 DEF NoLostWakeup, MutexInv
    <3> QED
      BY Zenon, <3>0, <3>3, <3>5, <3>6, <2>1 DEF TypeOK, RowsStay, Satisfied, Result
  <2>2. CASE ~Satisfied(need[w])
    <3>0. /\ mu' = Free /\ pc' = [pc EXCEPT ![w] = "asleep"]
          /\ UNCHANGED <<rows, waiters, need, ppc, val>>
      BY Zenon, <2>2 DEF Check
    <3>1. Registered' = Registered
      BY Zenon, <3>0 DEF Check, Registered, TypeOK
    <3>2. TypeOK'
      BY Zenon, <3>0 DEF TypeOK, InWait
    <3>3. mu = w
      BY Zenon DEF Check, MutexInv
    <3> QED
      BY Zenon, <3>0, <3>1, <3>2, <3>3, <2>2 DEF TypeOK, MutexInv, NoLostWakeup, RowsStay, Satisfied
  <2> QED
    BY Zenon, <2>1, <2>2
<1>5. CASE \E w \in Waiters : Relock(w)
  <2> PICK w \in Waiters : Relock(w)
    BY Zenon, <1>5
  <2>1. TypeOK'
    BY Zenon DEF Relock, TypeOK, InWait
  <2>2. Registered' = Registered
    BY Zenon DEF Relock, Registered, TypeOK
  <2> QED
    BY Zenon, <2>1, <2>2 DEF Relock, TypeOK, MutexInv, NoLostWakeup, RowsStay, Satisfied
<1>6. CASE \E w \in Waiters : UseRows(w)
  <2> PICK w \in Waiters : UseRows(w)
    BY Zenon, <1>6
  <2>1. TypeOK'
    BY Zenon DEF UseRows, TypeOK, InWait
  <2>2. Registered' = Registered
    BY Zenon DEF UseRows, Registered, TypeOK
  <2> QED
    BY Zenon, <2>1, <2>2 DEF UseRows, TypeOK, MutexInv, NoLostWakeup, RowsStay, Satisfied
<1>7. CASE \E v \in Error .. Done : Publish(v)
  BY Zenon, <1>7 DEF Publish, TypeOK, MutexInv, NoLostWakeup, RowsStay, Satisfied, Registered
<1>8. CASE PublishLock
  BY Zenon, <1>8 DEF PublishLock, TypeOK, MutexInv, NoLostWakeup, RowsStay, Satisfied, Registered
<1>9. CASE PublishStore
  <2>1. TypeOK' /\ MutexInv'
    BY Zenon, <1>9 DEF PublishStore, TypeOK, MutexInv, Registered
  <2>2. \A w \in Waiters : pc[w] = "asleep" => waiters # 0
    <3> SUFFICES ASSUME NEW w \in Waiters, pc[w] = "asleep", waiters = 0 PROVE FALSE
      BY Zenon
    <3>1. Registered = {}
      BY Zenon, RegisteredNone DEF MutexInv
    <3> QED
      BY Zenon, <3>1 DEF Registered
  <2>3. RowsStay'
    BY <1>9 DEF PublishStore, TypeOK, MutexInv, RowsStay, Satisfied
  <2> QED
    BY Zenon, <1>9, <2>1, <2>2, <2>3 DEF PublishStore, NoLostWakeup
<1>10. CASE PublishWake
  <2>1. \A w \in Waiters : pc'[w] = IF pc[w] = "asleep" THEN "woken" ELSE pc[w]
    <3>1. CASE waiters = 0
      <4>1. Registered = {}
        BY Zenon, <3>1, RegisteredNone DEF MutexInv
      <4> QED
        BY Zenon, <1>10, <3>1, <4>1 DEF PublishWake, Registered
    <3>2. CASE waiters # 0
      BY Zenon, <1>10, <3>2 DEF PublishWake, Woken
    <3> QED
      BY Zenon, <3>1, <3>2
  <2>2. TypeOK'
    BY Zenon, <1>10 DEF PublishWake, TypeOK, Woken, InWait
  <2>3. Registered' = Registered
    BY Zenon, <2>1 DEF Registered
  <2> QED
    BY ZenonT(60), <1>10, <2>1, <2>2, <2>3 DEF PublishWake, TypeOK, MutexInv, NoLostWakeup, RowsStay, Satisfied
<1>11. CASE Reset
  BY <1>11 DEF Reset, TypeOK, MutexInv, NoLostWakeup, RowsStay, Satisfied, Registered, Error
<1>12. CASE UNCHANGED vars
  BY Zenon, <1>12 DEF vars, TypeOK, MutexInv, NoLostWakeup, RowsStay, Satisfied, Registered
<1> QED
  BY Zenon, <1>1, <1>2, <1>3, <1>4, <1>5, <1>6, <1>7, <1>8, <1>9, <1>10, <1>11, <1>12
     DEF Next, WaiterStep, PublisherStep

LEMMA ProgressInvariant == Safety => []ProgressIInv
  BY InitIInv, NextIInv, PTL DEF Safety

\* Wait and Publish lose no wake-up, whatever the number of waiters: a
\* goroutine asleep with its rows published has a broadcast coming.
THEOREM WakeupSafe == Safety => []NoLostWakeup
  BY ProgressInvariant, PTL DEF ProgressIInv

\* What Wait let through stays published while its caller reads.
THEOREM RowsSafe == Safety => []RowsStay
  BY ProgressInvariant, PTL DEF ProgressIInv

\* The waiter's place in RowGate.
calls == [w \in Waiters |-> IF pc[w] \in InWait THEN "waiting" ELSE pc[w]]

LEMMA GateStep ==
  ASSUME ProgressIInv, [Next]_vars
  PROVE  [Gate!GateNext]_(Gate!gateVars)
<1> USE ProgressAssumption
<1> USE DEF ProgressIInv
<1>0. UNCHANGED <<rows, calls, need>> => UNCHANGED Gate!gateVars
  BY Zenon DEF Gate!gateVars, calls
<1>1. ASSUME NEW w \in Waiters, NEW n \in 0 .. Done, Wait(w, n)
      PROVE  Gate!CallWait(w, n)
  BY Zenon, <1>1 DEF Wait, Gate!CallWait, TypeOK, InWait
<1>2. ASSUME NEW w \in Waiters, FastLoad(w) \/ Check(w)
      PROVE  Gate!ReturnWait(w) \/ UNCHANGED <<rows, calls, need>>
  <2>1. CASE Satisfied(need[w])
    <3>1. /\ pc[w] \in InWait /\ pc' = [pc EXCEPT ![w] = Result]
          /\ UNCHANGED <<rows, need>>
      BY Zenon, <1>2, <2>1 DEF FastLoad, Check, InWait
    <3> QED
      BY Zenon, <2>1, <3>1 DEF Gate!ReturnWait, Gate!Satisfied, Gate!Error, Satisfied, Error, Result, TypeOK, InWait
  <2>2. CASE ~Satisfied(need[w])
    <3>1. PICK k \in {"lock", "asleep"} : pc' = [pc EXCEPT ![w] = k]
      BY Zenon, <1>2, <2>2 DEF FastLoad, Check
    <3>2. pc[w] \in InWait /\ UNCHANGED <<rows, need>>
      BY Zenon, <1>2, <2>2 DEF FastLoad, Check, InWait
    <3> QED
      BY Zenon, <3>1, <3>2 DEF calls, TypeOK, InWait
  <2> QED
    BY Zenon, <2>1, <2>2
<1>3. ASSUME NEW w \in Waiters, Register(w) \/ Relock(w)
      PROVE  UNCHANGED <<rows, calls, need>>
  BY Zenon, <1>3 DEF Register, Relock, calls, TypeOK, InWait
<1>4. ASSUME NEW w \in Waiters, UseRows(w)
      PROVE  Gate!UseRows(w)
  BY Zenon, <1>4 DEF UseRows, Gate!UseRows, TypeOK, InWait
<1>5. CASE \E v \in Error .. Done : Publish(v)
  BY Zenon, <1>5, <1>0 DEF Publish, calls
<1>6. CASE PublishLock
  BY Zenon, <1>6, <1>0 DEF PublishLock, calls
<1>7. CASE PublishStore
  <2>1. Gate!PublishRows(val)
    BY Zenon, <1>7 DEF PublishStore, Gate!PublishRows, Gate!Error, Error, MutexInv
  <2>2. val \in Gate!Error .. Done
    BY Zenon DEF TypeOK, Error, Gate!Error
  <2> QED
    BY Zenon, <2>1, <2>2 DEF Gate!GateNext
<1>8. CASE PublishWake
  <2>1. pc' = pc \/ pc' = Woken
    BY Zenon, <1>8 DEF PublishWake
  <2>2. calls' = calls
    BY Zenon, <2>1 DEF calls, Woken, TypeOK, InWait
  <2> QED
    BY Zenon, <1>0, <1>8, <2>2 DEF PublishWake
<1>9. CASE Reset
  <2>1. Gate!ResetRows
    BY Zenon, <1>9 DEF Reset, Gate!ResetRows, InWait
  <2> QED
    BY Zenon, <2>1 DEF Gate!GateNext
<1>10. CASE UNCHANGED vars
  BY Zenon, <1>0, <1>10 DEF vars, calls
<1> QED
  BY Zenon, <1>0, <1>1, <1>2, <1>3, <1>4, <1>5, <1>6, <1>7, <1>8, <1>9, <1>10
     DEF Next, WaiterStep, PublisherStep, Gate!GateNext

\* The monitor of Wait and Publish implements the atomic wait of RowGate: the
\* safety part of ImplementsGate.
THEOREM RefinesGate == Safety => Gate!GateSafety
<1>1. Init => Gate!GateInit
  BY Zenon DEF Init, Gate!GateInit, InWait
<1>2. ProgressIInv /\ [Next]_vars => [Gate!GateNext]_(Gate!gateVars)
  BY Zenon, GateStep
<1> QED
  BY <1>1, <1>2, ProgressInvariant, PTL DEF Safety, Gate!GateSafety

-----------------------------------------------------------------------------
Ends == {"save", "publish", "end", "failed"}

MotionTypeOK ==
  /\ grid \in Grids
  /\ tile \in [GridTiles -> Ends]
  /\ saved \in [GridTiles -> Nat] /\ tileRows \in [GridTiles -> Nat]
  /\ progress \in Int /\ motion \in Int
  /\ reader \in {"wait", "load", "end", "failed"}
  /\ at \in Nat

\* A tile has saved the rows it reported, and those it is about to report;
\* whatever the frame published is saved in every tile.
SavedInv ==
  \A t \in GridTiles :
    /\ saved[t] >= Smaller(IF tile[t] = "publish" THEN tileRows[t] + Sb ELSE tileRows[t], grid.end[t])
    /\ tile[t] = "end" => saved[t] >= grid.end[t]
    /\ saved[t] >= Smaller(progress, grid.end[t])

MotionInv == MotionTypeOK /\ SavedInv /\ LoadsSaved

LEMMA GridFacts ==
  ASSUME NEW g \in Grids
  PROVE  /\ IsFiniteSet(DOMAIN g.start) /\ DOMAIN g.start # {}
         /\ g.start \in [DOMAIN g.start -> Nat] /\ g.end \in [DOMAIN g.start -> Nat]
         /\ \A t \in DOMAIN g.start : g.start[t] < g.end[t] /\ g.end[t] + Sb + ReadSb < RowsDone
         /\ Sb \in Nat \ {0} /\ ReadSb \in Nat \ {0} /\ RowsDone \in Nat
BY Zenon, MotionAssumption

\* frameThreadMotionRows is no more than the rows of any open tile.
LEMMA FrameRowsLow ==
  ASSUME grid \in Grids, NEW r \in [GridTiles -> Nat], NEW t \in GridTiles, r[t] < grid.end[t]
  PROVE  FrameRows(r) \in Nat /\ FrameRows(r) <= r[t]
<1> DEFINE open == {x \in GridTiles : r[x] < grid.end[x]}
           S == {r[x] : x \in open}
<1>1. S \subseteq Nat /\ S # {} /\ open # {} /\ r[t] \in S
  BY Zenon
<1>2. FrameRows(r) = Min(S)
  BY Zenon, <1>1 DEF FrameRows
<1> HIDE DEF S
<1>3. PICK x \in S : \A y \in S : ~(<<y, x>> \in OpToRel(<, Nat))
  BY <1>1, NatLessThanWellFounded, WFMin, Zenon
<1>4. \A y \in S : ~(y < x)
  BY <1>1, <1>3, Zenon DEF OpToRel
<1>5. \A y \in S : x <= y
  BY <1>1, <1>4
<1>6. Min(S) \in S /\ \A y \in S : Min(S) <= y
  BY Zenon, <1>5 DEF Min
<1> QED
  BY Zenon, <1>1, <1>2, <1>6

LEMMA OneTile ==
  ASSUME grid \in Grids, ~multi, NEW t \in GridTiles
  PROVE  GridTiles = {t}
<1>1. IsFiniteSet(GridTiles) /\ Cardinality(GridTiles) \in Nat
  BY Zenon, GridFacts, FS_CardinalityType DEF GridTiles
<1>2. Cardinality(GridTiles) # 0
  BY Zenon, <1>1, FS_EmptySet
<1>3. Cardinality(GridTiles) = 1
  BY <1>1, <1>2 DEF multi
<1> QED
  BY <1>1, <1>3, FS_Singleton

LEMMA MotionInitInv == MotionInit => MotionInv
<1> SUFFICES ASSUME MotionInit PROVE MotionInv
  BY Zenon
<1>1. grid \in Grids /\ saved = grid.start /\ tileRows = grid.start /\ progress = 0 /\ motion = 0 /\ reader = "wait" /\ at = 0
      /\ tile = [t \in GridTiles |-> "save"]
  BY Zenon DEF MotionInit
<1>2. grid.start \in [GridTiles -> Nat] /\ grid.end \in [GridTiles -> Nat]
  BY Zenon, <1>1, GridFacts DEF GridTiles
<1>3. MotionTypeOK
  BY <1>1, <1>2 DEF MotionTypeOK, Ends
<1>4. SavedInv
  BY <1>1, <1>2 DEF SavedInv, Smaller
<1> QED
  BY Zenon, <1>1, <1>3, <1>4 DEF MotionInv, LoadsSaved

LEMMA MotionStep == MotionInv /\ [MotionNext]_motionVars => MotionInv'
<1> SUFFICES ASSUME MotionInv, [MotionNext]_motionVars PROVE MotionInv'
  BY Zenon
<1>0. /\ grid \in Grids /\ grid.start \in [GridTiles -> Nat] /\ grid.end \in [GridTiles -> Nat]
      /\ Sb \in Nat \ {0} /\ ReadSb \in Nat \ {0} /\ RowsDone \in Nat
      /\ tile \in [GridTiles -> Ends] /\ saved \in [GridTiles -> Nat] /\ tileRows \in [GridTiles -> Nat]
      /\ progress \in Int /\ motion \in Int /\ at \in Nat
      /\ \A t \in GridTiles : grid.end[t] + Sb + ReadSb < RowsDone
  BY Zenon, GridFacts DEF MotionInv, MotionTypeOK, GridTiles
<1>1. ASSUME NEW t \in GridTiles, SaveRows(t) PROVE MotionInv'
  <2>1. /\ tile[t] = "save" /\ saved' = [saved EXCEPT ![t] = Smaller(saved[t] + Sb, grid.end[t])]
        /\ tile' = [tile EXCEPT ![t] = "publish"]
        /\ UNCHANGED <<grid, tileRows, motion, progress, tail, reader, at>> /\ GridTiles' = GridTiles /\ NeedRows' = NeedRows
    BY Zenon, <1>1 DEF SaveRows, GridTiles, NeedRows
  <2>2. Smaller(saved[t] + Sb, grid.end[t]) \in Nat
    BY <1>0 DEF Smaller
  <2>3. MotionTypeOK'
    BY Zenon, <2>1, <2>2 DEF MotionInv, MotionTypeOK, Ends
  <2>4. SavedInv'
    <3> SUFFICES ASSUME NEW x \in GridTiles
                 PROVE  /\ saved'[x] >= Smaller(IF tile'[x] = "publish" THEN tileRows[x] + Sb ELSE tileRows[x], grid.end[x])
                        /\ tile'[x] = "end" => saved'[x] >= grid.end[x]
                        /\ saved'[x] >= Smaller(progress, grid.end[x])
      BY Zenon, <2>1 DEF SavedInv
    <3>1. CASE x = t
      <4>1. saved'[x] = Smaller(saved[x] + Sb, grid.end[x]) /\ tile'[x] = "publish" /\ tile[x] = "save"
        BY Zenon, <1>0, <2>1, <3>1
      <4>2. saved[x] >= Smaller(tileRows[x], grid.end[x]) /\ saved[x] >= Smaller(progress, grid.end[x])
        BY Zenon, <4>1 DEF MotionInv, SavedInv
      <4> QED
        BY <1>0, <4>1, <4>2 DEF Smaller
    <3>2. CASE x # t
      BY Zenon, <1>0, <2>1, <3>2 DEF MotionInv, SavedInv
    <3> QED
      BY Zenon, <3>1, <3>2
  <2>5. LoadsSaved'
    <3>1. \A x \in GridTiles : saved'[x] >= Smaller(saved[x], grid.end[x])
      BY <1>0, <2>1 DEF Smaller
    <3> QED
      BY <1>0, <2>1, <2>3, <3>1 DEF MotionInv, LoadsSaved, Smaller, NeedRows, MotionTypeOK
  <2> QED
    BY Zenon, <2>3, <2>4, <2>5 DEF MotionInv
<1>2. ASSUME NEW t \in GridTiles, PublishRows(t) PROVE MotionInv'
  <2>1. /\ tile[t] = "publish" /\ tileRows' = [tileRows EXCEPT ![t] = tileRows[t] + Sb]
        /\ tile' = [tile EXCEPT ![t] = IF saved[t] = grid.end[t] THEN "end" ELSE "save"]
        /\ UNCHANGED <<grid, saved, tail, reader, at>> /\ GridTiles' = GridTiles /\ NeedRows' = NeedRows
    BY Zenon, <1>2 DEF PublishRows, GridTiles, NeedRows
  <2>2. \/ multi /\ progress' = progress /\ motion' = motion
        \/ multi /\ progress' = FrameRows(tileRows') /\ motion' = progress' /\ progress' # RowsDone
        \/ ~multi /\ progress' = tileRows'[t] /\ motion' = motion
    BY Zenon, <1>2 DEF PublishRows
  <2>3. tileRows' \in [GridTiles -> Nat] /\ tileRows'[t] = tileRows[t] + Sb /\ \A x \in GridTiles \ {t} : tileRows'[x] = tileRows[x]
    BY <1>0, <2>1
  <2>4. \A x \in GridTiles : saved[x] >= Smaller(tileRows'[x], grid.end[x])
    <3>1. \A x \in GridTiles : saved[x] >= Smaller(IF tile[x] = "publish" THEN tileRows[x] + Sb ELSE tileRows[x], grid.end[x])
      BY Zenon DEF MotionInv, SavedInv
    <3>2. saved[t] >= Smaller(tileRows'[t], grid.end[t])
      BY Zenon, <2>1, <2>3, <3>1
    <3>3. ASSUME NEW x \in GridTiles \ {t} PROVE saved[x] >= Smaller(tileRows'[x], grid.end[x])
      BY <1>0, <2>3, <3>1 DEF Smaller
    <3> QED
      BY Zenon, <3>2, <3>3
  <2>5. progress' = FrameRows(tileRows') /\ progress' # RowsDone =>
          progress' \in Nat /\ \A x \in GridTiles : saved[x] >= Smaller(progress', grid.end[x])
    <3> SUFFICES ASSUME progress' = FrameRows(tileRows'), progress' # RowsDone
                 PROVE  progress' \in Nat /\ \A x \in GridTiles : saved[x] >= Smaller(progress', grid.end[x])
      BY Zenon
    <3>1. PICK y \in GridTiles : tileRows'[y] < grid.end[y]
      BY Zenon DEF FrameRows
    <3>2. progress' \in Nat
      BY Zenon, <1>0, <2>3, <3>1, FrameRowsLow
    <3>3. ASSUME NEW x \in GridTiles PROVE saved[x] >= Smaller(progress', grid.end[x])
      <4>1. CASE tileRows'[x] < grid.end[x]
        <5>1. progress' <= tileRows'[x]
          BY Zenon, <1>0, <2>3, <4>1, FrameRowsLow
        <5> QED
          BY <1>0, <2>3, <2>4, <3>2, <4>1, <5>1 DEF Smaller
      <4>2. CASE ~(tileRows'[x] < grid.end[x])
        BY <1>0, <2>3, <2>4, <3>2, <4>2 DEF Smaller
      <4> QED
        BY Zenon, <4>1, <4>2
    <3> QED
      BY Zenon, <3>2, <3>3
  <2>6. ~multi /\ progress' = tileRows'[t] =>
          progress' \in Nat /\ \A x \in GridTiles : saved[x] >= Smaller(progress', grid.end[x])
    BY <1>0, <2>3, <2>4, OneTile
  <2>7. progress' \in Int /\ motion' \in Int /\ \A x \in GridTiles : saved[x] >= Smaller(progress', grid.end[x])
    BY <1>0, <2>2, <2>5, <2>6 DEF MotionInv, SavedInv
  <2>8. MotionTypeOK'
    BY Zenon, <2>1, <2>3, <2>7 DEF MotionInv, MotionTypeOK, Ends
  <2>9. SavedInv'
    <3> SUFFICES ASSUME NEW x \in GridTiles
                 PROVE  /\ saved[x] >= Smaller(IF tile'[x] = "publish" THEN tileRows'[x] + Sb ELSE tileRows'[x], grid.end[x])
                        /\ tile'[x] = "end" => saved[x] >= grid.end[x]
      BY Zenon, <2>1, <2>7 DEF SavedInv
    <3>1. CASE x = t
      BY <1>0, <2>1, <2>4, <3>1
    <3>2. CASE x # t
      BY Zenon, <1>0, <2>1, <2>3, <3>2 DEF MotionInv, SavedInv
    <3> QED
      BY Zenon, <3>1, <3>2
  <2>10. LoadsSaved'
    BY Zenon, <2>1 DEF MotionInv, LoadsSaved
  <2> QED
    BY Zenon, <2>8, <2>9, <2>10 DEF MotionInv
<1>3. ASSUME NEW t \in GridTiles, ParseFail(t) PROVE MotionInv'
  <2>1. /\ tile[t] = "save" /\ tile' = [tile EXCEPT ![t] = "failed"]
        /\ UNCHANGED <<grid, saved, tileRows, motion, progress, tail, reader, at>> /\ GridTiles' = GridTiles /\ NeedRows' = NeedRows
    BY Zenon, <1>3 DEF ParseFail, GridTiles, NeedRows
  <2>2. MotionTypeOK'
    BY Zenon, <2>1 DEF MotionInv, MotionTypeOK, Ends
  <2>3. \A x \in GridTiles : tile'[x] # "publish" \/ tile[x] = "publish"
    BY Zenon, <1>0, <2>1
  <2>4. \A x \in GridTiles : tile'[x] = "publish" <=> tile[x] = "publish"
    BY Zenon, <1>0, <2>1
  <2>5. \A x \in GridTiles : tile'[x] = "end" => tile[x] = "end"
    BY Zenon, <1>0, <2>1
  <2>6. SavedInv'
    BY Zenon, <2>1, <2>4, <2>5 DEF MotionInv, SavedInv
  <2>7. LoadsSaved'
    BY Zenon, <2>1 DEF MotionInv, LoadsSaved
  <2> QED
    BY Zenon, <2>2, <2>6, <2>7 DEF MotionInv
<1>4. CASE TailEnds
  <2>1. /\ \A t \in GridTiles : tile[t] \in {"end", "failed"}
        /\ progress' = IF \E t \in GridTiles : tile[t] = "failed" THEN RowsFailed ELSE RowsDone
        /\ UNCHANGED <<grid, tile, saved, tileRows, motion, reader, at>> /\ GridTiles' = GridTiles /\ NeedRows' = NeedRows
    BY Zenon, <1>4 DEF TailEnds, GridTiles, NeedRows
  <2>2. MotionTypeOK'
    BY <1>0, <2>1 DEF MotionInv, MotionTypeOK, RowsFailed
  <2>3. \A t \in GridTiles : saved[t] >= Smaller(progress', grid.end[t])
    <3>1. CASE progress' = RowsFailed
      BY <1>0, <3>1 DEF RowsFailed, Smaller
    <3>2. CASE progress' # RowsFailed
      <4>1. progress' = RowsDone /\ \A t \in GridTiles : tile[t] = "end"
        BY Zenon, <2>1, <3>2
      <4>2. \A t \in GridTiles : saved[t] >= grid.end[t]
        BY Zenon, <4>1 DEF MotionInv, SavedInv
      <4> QED
        BY <1>0, <4>1, <4>2 DEF Smaller
    <3> QED
      BY Zenon, <3>1, <3>2
  <2>4. SavedInv'
    BY Zenon, <2>1, <2>3 DEF MotionInv, SavedInv
  <2>5. LoadsSaved'
    BY Zenon, <2>1 DEF MotionInv, LoadsSaved
  <2> QED
    BY Zenon, <2>2, <2>4, <2>5 DEF MotionInv
<1>5. CASE WaitReferenceRows
  <2>1. /\ progress >= NeedRows \/ progress = RowsFailed
        /\ reader' = IF progress = RowsFailed THEN "failed" ELSE "load"
        /\ UNCHANGED <<grid, tile, saved, tileRows, motion, progress, tail, at>> /\ GridTiles' = GridTiles /\ NeedRows' = NeedRows
    BY Zenon, <1>5 DEF WaitReferenceRows, GridTiles, NeedRows
  <2>2. MotionTypeOK'
    BY Zenon, <2>1 DEF MotionInv, MotionTypeOK
  <2>3. SavedInv'
    BY Zenon, <2>1 DEF MotionInv, SavedInv
  <2>4. LoadsSaved'
    <3> SUFFICES ASSUME progress >= NeedRows, NEW t \in GridTiles PROVE saved[t] >= Smaller(NeedRows, grid.end[t])
      BY Zenon, <2>1 DEF LoadsSaved
    <3>1. saved[t] >= Smaller(progress, grid.end[t]) /\ NeedRows \in Nat
      BY <1>0 DEF MotionInv, SavedInv, NeedRows
    <3> QED
      BY <1>0, <3>1 DEF Smaller
  <2> QED
    BY Zenon, <2>2, <2>3, <2>4 DEF MotionInv
<1>6. CASE LoadRows
  <2>1. /\ at' = at + ReadSb /\ reader' = (IF at' < GridHeight THEN "wait" ELSE "end")
        /\ UNCHANGED <<grid, tile, saved, tileRows, motion, progress, tail>> /\ GridTiles' = GridTiles
    BY Zenon, <1>6 DEF LoadRows, GridTiles
  <2>2. MotionTypeOK'
    BY <1>0, <2>1 DEF MotionInv, MotionTypeOK
  <2>3. SavedInv'
    BY Zenon, <2>1 DEF MotionInv, SavedInv
  <2>4. LoadsSaved'
    BY Zenon, <2>1 DEF LoadsSaved
  <2> QED
    BY Zenon, <2>2, <2>3, <2>4 DEF MotionInv
<1>7. CASE UNCHANGED motionVars
  BY Zenon, <1>7 DEF motionVars, MotionInv, MotionTypeOK, SavedInv, LoadsSaved, GridTiles, NeedRows
<1> QED
  BY Zenon, <1>1, <1>2, <1>3, <1>4, <1>5, <1>6, <1>7 DEF MotionNext, TileRuns

\* Whatever the grid of tiles and the superblock sizes of the two frames, and
\* whichever tiles fail, a later frame loads a band of motion vectors only when
\* every tile has saved its rows of the band (publishTile, WaitReferenceRows).
THEOREM LoadedRowsSaved == MotionSpec => []LoadsSaved
<1>1. MotionInv => LoadsSaved
  BY Zenon DEF MotionInv
<1> QED
  BY <1>1, MotionInitInv, MotionStep, PTL DEF MotionSpec
=============================================================================
