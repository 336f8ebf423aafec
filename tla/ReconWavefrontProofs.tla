------------------------ MODULE ReconWavefrontProofs ------------------------
(***************************************************************************)
(* The wavefront keeps its gates, its row order and its wake-ups for any   *)
(* number of rows, superblocks and lanes.                                  *)
(***************************************************************************)
EXTENDS ReconWavefront, FiniteSetTheorems, TLAPS

\* Lane l's rows: l, l + LaneCount, l + 2 * LaneCount, ...
Owns(l, r) == \E n \in Nat : r = l + n * LaneCount

\* The lanes that progress.waiters counts.
Registered == {l \in Lanes : pc[l] \in {"check", "asleep", "woken"}}

\* At these points the lane's next superblock is not reconstructed yet.
Before == {"gate", "register", "check", "asleep", "woken", "recon"}

\* The mutex is held by the lane in its critical section, the waiter count is
\* the number of registered lanes, and the scratch of an idle tile has no lane.
MutexInv ==
  /\ \A l \in Lanes : pc[l] = "check" <=> mu = l
  /\ waiters = Cardinality(Registered)
  /\ parse = "idle" => \A l \in Lanes : pc[l] = "ended"
  /\ parse = "parsing" => published < RowCount

\* Where a lane stands in its own row.
Place(l) ==
  /\ Owns(l, row[l])
  /\ pc[l] \in {"rows", "unparsed"} => rec[row[l]] = 0 /\ done[row[l]] = 0
  /\ pc[l] \in Before => rec[row[l]] = col[l] /\ done[row[l]] = col[l]
  /\ pc[l] = "store" => rec[row[l]] = col[l] + 1 /\ done[row[l]] = col[l]
  /\ pc[l] \in {"test", "wake"} => rec[row[l]] = col[l] + 1 /\ done[row[l]] = col[l] + 1
  /\ pc[l] = "after" => aborted \/ rec[row[l]] = ColCount
  /\ pc[l] = "claim" => rec[row[l]] = ColCount
  /\ pc[l] \in Before \cup {"store", "test", "wake"} => row[l] < published
  /\ pc[l] = "recon" /\ row[l] > 0 => rec[row[l] - 1] >= Need(l)
  /\ \A r \in Rows : Owns(l, r) /\ r > row[l] => rec[r] = 0 /\ done[r] = 0

PlaceInv == \A l \in Lanes : Place(l)

\* Rows are completed from the top.
OrderInv ==
  /\ \A r \in Rows : done[r] <= rec[r]
  /\ \A r, q \in Rows : q < r /\ rec[r] = ColCount => rec[q] = ColCount

\* A lane asleep has its broadcast coming.
Sleep(l) ==
  /\ pc[l] = "asleep" =>
       /\ ~aborted
       /\ AboveReady(l) => \E k \in Lanes : pc[k] \in {"test", "wake"}
  /\ pc[l] = "unparsed" => ~aborted /\ published <= row[l]

SleepInv == \A l \in Lanes : Sleep(l)

\* The inductive invariant.
WaveInv == TypeOK /\ MutexInv /\ PlaceInv /\ OrderInv /\ SleepInv /\ RowsFinal

-----------------------------------------------------------------------------
LEMMA LaneFacts ==
  /\ LaneCount \in Nat \ {0} /\ LaneCount <= RowCount
  /\ \A l \in Lanes : l \in Rows /\ l \in Nat /\ l < LaneCount /\ l # Free
  /\ IsFiniteSet(Lanes) /\ Cardinality(Lanes) = LaneCount
<1>1. LaneCount \in Nat \ {0} /\ LaneCount <= RowCount
  BY WavefrontAssumption DEF LaneCount
<1>2. IsFiniteSet(Lanes) /\ Cardinality(Lanes) = LaneCount
  BY <1>1, FS_Interval DEF Lanes
<1> QED
  BY <1>1, <1>2, WavefrontAssumption DEF Lanes, Rows

LEMMA Counts ==
  /\ LaneCount \in Nat \ {0} /\ RowCount \in Nat \ {0} /\ ColCount \in Nat \ {0}
  /\ Free \notin Lanes
  BY Zenon, LaneFacts, WavefrontAssumption

\* Two lanes never share a row.
LEMMA OwnsOne ==
  ASSUME NEW l \in Lanes, NEW k \in Lanes, NEW r \in Rows, Owns(l, r), Owns(k, r)
  PROVE  l = k
<1> USE LaneFacts
<1>1. ASSUME NEW a \in Lanes, NEW b \in Lanes, NEW n \in Nat, NEW m \in Nat,
             a + n * LaneCount = b + m * LaneCount, n < m
      PROVE  FALSE
  <2> DEFINE L == LaneCount
             d == m - n - 1
  <2>1. d \in Nat /\ m = n + 1 + d /\ L \in Nat
    BY <1>1
  <2> HIDE DEF d, L
  <2>2. m * L = n * L + L + d * L
    BY <2>1
  <2>3. d * L >= 0 /\ n * L \in Nat /\ d * L \in Nat
    BY <2>1
  <2>4. a + n * L = b + m * L /\ a \in Nat /\ b \in Nat /\ a < L
    BY Zenon, <1>1 DEF L
  <2> QED
    BY <2>1, <2>2, <2>3, <2>4
<1>2. PICK n \in Nat : r = l + n * LaneCount
  BY Zenon DEF Owns
<1>3. PICK m \in Nat : r = k + m * LaneCount
  BY Zenon DEF Owns
<1>4. CASE n = m
  BY <1>2, <1>3, <1>4
<1>5. CASE n < m
  BY Zenon, <1>1, <1>2, <1>3, <1>5
<1>6. CASE m < n
  BY Zenon, <1>1, <1>2, <1>3, <1>6
<1> QED
  BY <1>4, <1>5, <1>6

LEMMA OwnsNext ==
  ASSUME NEW l \in Lanes, NEW r \in Nat, Owns(l, r)
  PROVE  Owns(l, r + LaneCount)
<1> USE LaneFacts
<1>1. PICK n \in Nat : r = l + n * LaneCount
  BY Zenon DEF Owns
<1>2. n + 1 \in Nat /\ r + LaneCount = l + (n + 1) * LaneCount
  <2> DEFINE L == LaneCount
  <2>1. L \in Nat
    BY Zenon
  <2> HIDE DEF L
  <2>2. (n + 1) * L = n * L + L /\ n * L \in Nat
    BY <2>1
  <2> QED
    BY <1>1, <2>1, <2>2 DEF L
<1> QED
  BY Zenon, <1>2 DEF Owns

LEMMA OwnsFirst ==
  ASSUME NEW l \in Lanes
  PROVE  Owns(l, l)
<1>1. l = l + 0 * LaneCount
  BY LaneFacts
<1> QED
  BY Zenon, <1>1 DEF Owns

LEMMA RegisteredFacts ==
  /\ IsFiniteSet(Registered) /\ Cardinality(Registered) \in 0 .. LaneCount
  /\ Cardinality(Registered) = 0 => Registered = {}
<1>1. Registered \subseteq Lanes
  BY Zenon DEF Registered
<1>2. IsFiniteSet(Registered) /\ Cardinality(Registered) <= LaneCount
  BY Zenon, <1>1, LaneFacts, FS_Subset
<1> QED
  BY <1>2, LaneFacts, FS_CardinalityType, FS_EmptySet

LEMMA InitWave == Init => WaveInv
<1> SUFFICES ASSUME Init PROVE WaveInv
  BY Zenon
<1> USE LaneFacts, WavefrontAssumption
<1>1. TypeOK
  <2>1. 0 \in 0 .. ColCount /\ 0 \in 0 .. ColCount - 1 /\ 0 \in 0 .. RowCount /\ 0 \in 0 .. LaneCount
        /\ 0 \in Error .. Done
    BY DEF Error, Done
  <2> QED
    BY Zenon, <2>1 DEF Init, TypeOK, LanePoints
<1>2. MutexInv
  <2>1. Registered = {}
    BY Zenon DEF Init, Registered
  <2> QED
    BY Zenon, <2>1, FS_EmptySet DEF Init, MutexInv
<1>3. PlaceInv
  BY Zenon, OwnsFirst DEF Init, PlaceInv, Place, Before
<1>4. OrderInv /\ SleepInv /\ RowsFinal
  BY DEF Init, OrderInv, SleepInv, Sleep, RowsFinal, Rows
<1> QED
  BY Zenon, <1>1, <1>2, <1>3, <1>4 DEF WaveInv

\* A step that only moves one lane to a point where it is registered as before
\* keeps the waiter count; likewise a broadcast.
LEMMA WokenFacts ==
  ASSUME TypeOK
  PROVE  /\ Woken(pc) \in [Lanes -> LanePoints]
         /\ \A l \in Lanes : Woken(pc)[l] = IF pc[l] = "unparsed" THEN "rows"
                                            ELSE IF pc[l] = "asleep" THEN "woken" ELSE pc[l]
<1>1. \A l \in Lanes : Woken(pc)[l] = IF pc[l] = "unparsed" THEN "rows"
                                      ELSE IF pc[l] = "asleep" THEN "woken" ELSE pc[l]
  BY Zenon DEF Woken
<1> QED
  BY Zenon, <1>1 DEF Woken, TypeOK, LanePoints

LEMMA StartWave == WaveInv /\ StartTile => WaveInv'
<1> SUFFICES ASSUME WaveInv, StartTile PROVE WaveInv'
  BY Zenon
<1> USE LaneFacts, WavefrontAssumption
<1>1. TypeOK'
  <2>1. 0 \in 0 .. ColCount /\ 0 \in 0 .. ColCount - 1 /\ 0 \in 0 .. RowCount /\ 0 \in Error .. Done
    BY DEF Error, Done
  <2> QED
    BY Zenon, <2>1 DEF WaveInv, StartTile, TypeOK, LanePoints
<1>2. MutexInv'
  <2>1. Registered = {} /\ Registered' = {}
    BY Zenon DEF WaveInv, StartTile, MutexInv, Registered
  <2> QED
    BY <2>1 DEF WaveInv, StartTile, MutexInv, TypeOK
<1>3. PlaceInv'
  BY Zenon, OwnsFirst DEF StartTile, PlaceInv, Place, Before
<1>4. OrderInv' /\ SleepInv' /\ RowsFinal'
  BY DEF StartTile, OrderInv, SleepInv, Sleep, RowsFinal, Rows
<1> QED
  BY Zenon, <1>1, <1>2, <1>3, <1>4 DEF WaveInv

LEMMA ParseWave == WaveInv /\ ParseStep => WaveInv'
<1> SUFFICES ASSUME WaveInv, ParseStep PROVE WaveInv'
  BY Zenon
<1> USE LaneFacts, WavefrontAssumption
<1> USE DEF WaveInv
<1>1. CASE PublishRows
  <2>1. TypeOK'
    BY <1>1, WokenFacts DEF PublishRows, TypeOK, MutexInv, frameVars
  <2>2. MutexInv'
    <3>1. Registered' = Registered
      BY Zenon, <1>1, WokenFacts DEF PublishRows, Registered
    <3> QED
      BY <1>1, <3>1, WokenFacts DEF PublishRows, MutexInv, TypeOK
  <2>3. PlaceInv'
    <3> SUFFICES ASSUME NEW l \in Lanes PROVE Place(l)'
      BY Zenon DEF PlaceInv
    <3>1. Place(l) /\ published \in Nat /\ row[l] \in Nat
      BY DEF PlaceInv, TypeOK, Rows
    <3>2. pc'[l] = IF pc[l] = "unparsed" THEN "rows" ELSE IF pc[l] = "asleep" THEN "woken" ELSE pc[l]
      BY Zenon, <1>1, WokenFacts DEF PublishRows
    <3>3. /\ published' = published + 1 /\ Need(l)' = Need(l)
          /\ UNCHANGED <<rec, done, row, col, aborted>>
      BY Zenon, <1>1 DEF PublishRows, Need
    <3> QED
      <4>1. row[l] < published => row[l] < published'
        BY <3>1, <3>3
      <4>2. CASE pc'[l] = pc[l]
        BY Zenon, <3>1, <3>3, <4>1, <4>2 DEF Place
      <4>3. CASE pc[l] \in {"unparsed", "asleep"}
        BY Zenon, <3>1, <3>2, <3>3, <4>1, <4>3 DEF Place, Before
      <4> QED
        BY Zenon, <3>2, <4>2, <4>3
  <2>4. OrderInv' /\ RowsFinal'
    BY Zenon, <1>1 DEF PublishRows, OrderInv, RowsFinal, frameVars
  <2>5. SleepInv'
    BY Zenon, <1>1, WokenFacts DEF PublishRows, SleepInv, Sleep
  <2> QED
    BY Zenon, <2>1, <2>2, <2>3, <2>4, <2>5
<1>2. CASE ParseFail
  <2>1. Registered' = Registered
    BY Zenon, <1>2 DEF ParseFail, Registered
  <2> QED
    BY <1>2, <2>1 DEF ParseFail, TypeOK, MutexInv, PlaceInv, Place, OrderInv, SleepInv, Sleep, RowsFinal,
                      Need, AboveReady, sharedVars, frameVars
<1>3. CASE CancelLanes
  <2>1. TypeOK'
    BY Zenon, <1>3, WokenFacts DEF CancelLanes, TypeOK, frameVars
  <2>2. MutexInv'
    <3>1. Registered' = Registered
      BY Zenon, <1>3, WokenFacts DEF CancelLanes, Registered
    <3> QED
      BY Zenon, <1>3, <3>1, WokenFacts DEF CancelLanes, MutexInv, TypeOK
  <2>3. PlaceInv'
    BY <1>3, WokenFacts DEF CancelLanes, PlaceInv, Place, TypeOK, Before, Need
  <2>4. OrderInv' /\ RowsFinal'
    BY Zenon, <1>3 DEF CancelLanes, OrderInv, RowsFinal, frameVars
  <2>5. SleepInv'
    BY Zenon, <1>3, WokenFacts DEF CancelLanes, SleepInv, Sleep
  <2> QED
    BY Zenon, <2>1, <2>2, <2>3, <2>4, <2>5
<1>4. CASE Join
  <2>1. TypeOK'
    BY <1>4 DEF Join, TypeOK, FailedRows, Error, Done, sharedVars
  <2>2. Registered' = Registered
    BY Zenon, <1>4 DEF Join, Registered
  <2>3. MutexInv' /\ PlaceInv' /\ OrderInv' /\ SleepInv'
    BY <1>4, <2>2 DEF Join, MutexInv, PlaceInv, Place, OrderInv, SleepInv, Sleep, Need, AboveReady, sharedVars
  <2>4. RowsFinal'
    BY <1>4 DEF Join, RowsFinal, FailedRows, Error, Rows
  <2> QED
    BY Zenon, <2>1, <2>2, <2>3, <2>4
<1> QED
  BY Zenon, <1>1, <1>2, <1>3, <1>4 DEF ParseStep

\* A step of one lane that changes nothing but its point, its column and what
\* the mutex guards.
LEMMA QuietWave ==
  ASSUME WaveInv, NEW l \in Lanes,
         UNCHANGED <<parse, published, aborted, done, rec, row, tileRows, progress>>,
         TypeOK', MutexInv',
         \A k \in Lanes \ {l} : pc'[k] = pc[k] /\ col'[k] = col[k],
         Place(l)', Sleep(l)',
         pc[l] \notin {"test", "wake"}
  PROVE  WaveInv'
<1> USE DEF WaveInv
<1>1. PlaceInv'
  <2> SUFFICES ASSUME NEW k \in Lanes, k # l PROVE Place(k)'
    BY Zenon DEF PlaceInv
  <2>1. Place(k) /\ pc'[k] = pc[k] /\ col'[k] = col[k] /\ Need(k)' = Need(k)
    BY Zenon DEF PlaceInv, Need
  <2> QED
    BY Zenon, <2>1 DEF Place
<1>2. OrderInv' /\ RowsFinal'
  BY Zenon DEF OrderInv, RowsFinal
<1>3. SleepInv'
  BY Zenon DEF SleepInv, Sleep, AboveReady, Need
<1> QED
  BY Zenon, <1>1, <1>2, <1>3

\* The steps at which a lane enters, waits and leaves its gates.
LEMMA GateWave ==
  ASSUME WaveInv, NEW l \in Lanes,
         WaitRows(l) \/ Gate(l) \/ Register(l) \/ Check(l) \/ Relock(l) \/ ReconstructFail(l)
  PROVE  WaveInv'
<1> USE Counts
<1> USE DEF WaveInv
<1>0. /\ Place(l) /\ Sleep(l) /\ pc \in [Lanes -> LanePoints] /\ col \in [Lanes -> 0 .. ColCount - 1]
      /\ row[l] \in Rows /\ row[l] \in Nat /\ col[l] \in Nat /\ published \in Nat
  <2>1. Place(l) /\ Sleep(l)
    BY Zenon DEF PlaceInv, SleepInv
  <2>2. /\ pc \in [Lanes -> LanePoints] /\ col \in [Lanes -> 0 .. ColCount - 1]
        /\ row[l] \in Rows /\ col[l] \in 0 .. ColCount - 1 /\ published \in 0 .. RowCount
    BY Zenon DEF TypeOK
  <2> QED
    BY <2>1, <2>2 DEF Rows
<1>a. AboveReady(l) /\ row[l] > 0 => rec[row[l] - 1] >= Need(l)
  <2> SUFFICES ASSUME AboveReady(l), row[l] > 0 PROVE rec[row[l] - 1] >= Need(l)
    BY Zenon
  <2>1. row[l] - 1 \in Rows
    BY <1>0 DEF Rows
  <2>2. done[row[l] - 1] \in Nat /\ rec[row[l] - 1] \in Nat /\ Need(l) \in Nat
    BY <2>1, <1>0 DEF TypeOK, Need
  <2> QED
    BY <2>1, <2>2 DEF AboveReady, OrderInv
<1>1. CASE WaitRows(l)
  <2>1. /\ UNCHANGED <<parse, published, aborted, done, rec, row, tileRows, progress>>
        /\ UNCHANGED <<split, result, firstErr, mu, waiters>>
        /\ \A k \in Lanes \ {l} : pc'[k] = pc[k] /\ col'[k] = col[k]
        /\ pc[l] = "rows" /\ mu = Free
    BY Zenon, <1>1, <1>0 DEF WaitRows, Goto, parseVars, sharedVars, frameVars
  <2>2. \/ aborted /\ pc' = [pc EXCEPT ![l] = "ended"] /\ col' = col
        \/ ~aborted /\ published > row[l] /\ pc' = [pc EXCEPT ![l] = "gate"] /\ col' = [col EXCEPT ![l] = 0]
        \/ ~aborted /\ published <= row[l] /\ pc' = [pc EXCEPT ![l] = "unparsed"] /\ col' = col
    BY Zenon, <1>1 DEF WaitRows, Goto
  <2>3. TypeOK'
    BY <2>1, <2>2 DEF TypeOK, LanePoints
  <2>4. MutexInv'
    <3>1. Registered' = Registered
      BY Zenon, <2>1, <2>2, <1>0 DEF Registered
    <3> QED
      BY Zenon, <3>1, <2>1, <2>2, <1>0 DEF MutexInv
  <2>5. Place(l)' /\ Sleep(l)'
    BY Zenon, <1>0, <2>1, <2>2 DEF Place, Sleep, Before
  <2> QED
    BY Zenon, <2>1, <2>3, <2>4, <2>5, QuietWave
<1>2. CASE Gate(l)
  <2>1. /\ UNCHANGED <<parse, published, aborted, done, rec, row, tileRows, progress>>
        /\ UNCHANGED <<split, result, firstErr, mu, waiters, col>>
        /\ \A k \in Lanes \ {l} : pc'[k] = pc[k]
        /\ pc[l] = "gate"
    BY Zenon, <1>2, <1>0 DEF Gate, Goto, parseVars, sharedVars, frameVars
  <2>2. \/ pc' = [pc EXCEPT ![l] = "register"]
        \/ aborted /\ pc' = [pc EXCEPT ![l] = "after"]
        \/ AboveReady(l) /\ pc' = [pc EXCEPT ![l] = "recon"]
    BY Zenon, <1>2 DEF Gate, Goto
  <2>3. TypeOK'
    BY Zenon, <2>1, <2>2 DEF TypeOK, LanePoints
  <2>4. MutexInv'
    <3>1. Registered' = Registered
      BY Zenon, <2>1, <2>2, <1>0 DEF Registered
    <3> QED
      BY Zenon, <3>1, <2>1, <2>2, <1>0 DEF MutexInv
  <2>5. Place(l)' /\ Sleep(l)'
    BY Zenon, <1>0, <1>a, <2>1, <2>2 DEF Place, Sleep, Before, Need
  <2> QED
    BY Zenon, <2>1, <2>3, <2>4, <2>5, QuietWave
<1>3. CASE Register(l)
  <2>1. /\ UNCHANGED <<parse, published, aborted, done, rec, row, tileRows, progress>>
        /\ UNCHANGED <<split, result, firstErr, col>>
        /\ \A k \in Lanes \ {l} : pc'[k] = pc[k]
        /\ pc[l] = "register" /\ pc' = [pc EXCEPT ![l] = "check"]
        /\ mu = Free /\ mu' = l /\ waiters' = waiters + 1
    BY Zenon, <1>3, <1>0 DEF Register, Goto, parseVars, sharedVars, frameVars
  <2>2. Registered' = Registered \cup {l} /\ l \notin Registered
    BY Zenon, <2>1, <1>0 DEF Registered
  <2>3. waiters' = Cardinality(Registered')
    BY Zenon, <2>1, <2>2, RegisteredFacts, FS_AddElement DEF MutexInv
  <2>4. Cardinality(Registered') \in 0 .. LaneCount
    <3>1. Registered' \subseteq Lanes
      BY Zenon DEF Registered
    <3> QED
      BY <3>1, LaneFacts, FS_Subset, FS_CardinalityType
  <2>5. TypeOK'
    BY Zenon, <2>1, <2>3, <2>4 DEF TypeOK, LanePoints
  <2>6. MutexInv'
    BY Zenon, <2>1, <2>3, <1>0 DEF MutexInv
  <2>7. Place(l)' /\ Sleep(l)'
    BY Zenon, <1>0, <2>1 DEF Place, Sleep, Before
  <2> QED
    BY Zenon, <2>1, <2>5, <2>6, <2>7, QuietWave
<1>4. CASE Check(l)
  <2>1. /\ UNCHANGED <<parse, published, aborted, done, rec, row, tileRows, progress>>
        /\ UNCHANGED <<split, result, firstErr, col>>
        /\ \A k \in Lanes \ {l} : pc'[k] = pc[k]
        /\ pc[l] = "check" /\ mu' = Free /\ mu = l
    BY Zenon, <1>4, <1>0 DEF Check, Goto, parseVars, sharedVars, frameVars, MutexInv
  <2>2. CASE AboveReady(l) \/ aborted
    <3>1. /\ \/ aborted /\ pc' = [pc EXCEPT ![l] = "after"]
             \/ AboveReady(l) /\ pc' = [pc EXCEPT ![l] = "recon"]
          /\ waiters' = waiters - 1
      BY Zenon, <1>4, <2>2 DEF Check, Goto
    <3>2. Registered' = Registered \ {l} /\ l \in Registered
      BY Zenon, <2>1, <3>1, <1>0 DEF Registered
    <3>3. waiters' = Cardinality(Registered')
      BY Zenon, <3>1, <3>2, RegisteredFacts, FS_RemoveElement DEF MutexInv
    <3>4. Cardinality(Registered') \in 0 .. LaneCount
      <4>1. Registered' \subseteq Lanes
        BY Zenon DEF Registered
      <4> QED
        BY <4>1, LaneFacts, FS_Subset, FS_CardinalityType
    <3>5. TypeOK'
      BY Zenon, <2>1, <3>1, <3>3, <3>4 DEF TypeOK, LanePoints
    <3>6. MutexInv'
      BY Zenon, <2>1, <3>1, <3>3, <1>0 DEF MutexInv
    <3>7. Place(l)' /\ Sleep(l)'
      BY Zenon, <1>0, <1>a, <2>1, <3>1 DEF Place, Sleep, Before, Need
    <3> QED
      BY Zenon, <2>1, <3>5, <3>6, <3>7, QuietWave
  <2>3. CASE ~AboveReady(l) /\ ~aborted
    <3>1. pc' = [pc EXCEPT ![l] = "asleep"] /\ waiters' = waiters
      BY Zenon, <1>4, <2>3 DEF Check, Goto
    <3>2. Registered' = Registered
      BY Zenon, <2>1, <3>1, <1>0 DEF Registered
    <3>3. TypeOK'
      BY Zenon, <2>1, <3>1 DEF TypeOK, LanePoints
    <3>4. MutexInv'
      BY Zenon, <2>1, <3>1, <3>2, <1>0 DEF MutexInv
    <3>5. ~AboveReady(l)'
      BY Zenon, <2>1, <2>3 DEF AboveReady, Need
    <3>6. Place(l)' /\ Sleep(l)'
      BY Zenon, <1>0, <2>1, <2>3, <3>1, <3>5 DEF Place, Sleep, Before
    <3> QED
      BY Zenon, <2>1, <3>3, <3>4, <3>6, QuietWave
  <2> QED
    BY Zenon, <2>2, <2>3
<1>5. CASE Relock(l)
  <2>1. /\ UNCHANGED <<parse, published, aborted, done, rec, row, tileRows, progress>>
        /\ UNCHANGED <<split, result, firstErr, col, waiters>>
        /\ \A k \in Lanes \ {l} : pc'[k] = pc[k]
        /\ pc[l] = "woken" /\ pc' = [pc EXCEPT ![l] = "check"]
        /\ mu = Free /\ mu' = l
    BY Zenon, <1>5, <1>0 DEF Relock, Goto, parseVars, sharedVars, frameVars
  <2>2. Registered' = Registered
    BY Zenon, <2>1, <1>0 DEF Registered
  <2>3. TypeOK'
    BY Zenon, <2>1 DEF TypeOK, LanePoints
  <2>4. MutexInv'
    BY Zenon, <2>1, <2>2, <1>0 DEF MutexInv
  <2>5. Place(l)' /\ Sleep(l)'
    BY Zenon, <1>0, <2>1 DEF Place, Sleep, Before
  <2> QED
    BY Zenon, <2>1, <2>3, <2>4, <2>5, QuietWave
<1>6. CASE ReconstructFail(l)
  <2>1. /\ UNCHANGED <<parse, published, aborted, done, rec, row, tileRows, progress>>
        /\ UNCHANGED <<split, result, col, waiters, mu>>
        /\ \A k \in Lanes \ {l} : pc'[k] = pc[k]
        /\ pc[l] = "recon" /\ pc' = [pc EXCEPT ![l] = "abort"] /\ firstErr' = TRUE
    BY Zenon, <1>6, <1>0 DEF ReconstructFail, Goto, parseVars, frameVars
  <2>2. Registered' = Registered
    BY Zenon, <2>1, <1>0 DEF Registered
  <2>3. TypeOK'
    BY Zenon, <2>1 DEF TypeOK, LanePoints
  <2>4. MutexInv'
    BY Zenon, <2>1, <2>2, <1>0 DEF MutexInv
  <2>5. Place(l)' /\ Sleep(l)'
    BY Zenon, <1>0, <2>1 DEF Place, Sleep, Before
  <2> QED
    BY Zenon, <2>1, <2>3, <2>4, <2>5, QuietWave
<1> QED
  BY Zenon, <1>1, <1>2, <1>3, <1>4, <1>5, <1>6

\* The steps at which a lane writes its row.
LEMMA WriteWave ==
  ASSUME WaveInv, NEW l \in Lanes, Reconstruct(l) \/ StoreDone(l)
  PROVE  WaveInv'
<1> USE Counts
<1> USE DEF WaveInv
<1> DEFINE r == row[l]
           c == col[l]
<1>0. /\ Place(l) /\ r \in Rows /\ r \in Nat /\ c \in 0 .. ColCount - 1 /\ c + 1 \in 0 .. ColCount
      /\ pc \in [Lanes -> LanePoints] /\ rec \in [Rows -> 0 .. ColCount] /\ done \in [Rows -> 0 .. ColCount]
  <2>1. Place(l)
    BY Zenon DEF PlaceInv
  <2>2. /\ r \in Rows /\ c \in 0 .. ColCount - 1
        /\ pc \in [Lanes -> LanePoints] /\ rec \in [Rows -> 0 .. ColCount] /\ done \in [Rows -> 0 .. ColCount]
    BY Zenon DEF TypeOK
  <2> HIDE DEF r, c
  <2>3. r \in Nat /\ c + 1 \in 0 .. ColCount
    BY <2>2 DEF Rows
  <2> QED
    BY Zenon, <2>1, <2>2, <2>3
<1>1. \A k \in Lanes \ {l} : row[k] # r /\ \A q \in Rows : Owns(k, q) => q # r
  BY Zenon, <1>0, OwnsOne DEF PlaceInv, Place
<1>2. /\ UNCHANGED <<parse, split, result, published, aborted, firstErr, mu, waiters, row, col, tileRows, progress>>
      /\ \A k \in Lanes \ {l} : pc'[k] = pc[k]
      /\ pc' = [pc EXCEPT ![l] = IF pc[l] = "recon" THEN "store" ELSE "test"]
      /\ pc[l] \in {"recon", "store"}
  BY Zenon, <1>0 DEF Reconstruct, StoreDone, Goto, parseVars, sharedVars, frameVars
<1>3. /\ rec' = IF pc[l] = "recon" THEN [rec EXCEPT ![r] = c + 1] ELSE rec
      /\ done' = IF pc[l] = "recon" THEN done ELSE [done EXCEPT ![r] = c + 1]
  BY Zenon, <1>2 DEF Reconstruct, StoreDone
<1> HIDE DEF r, c
<1>4. TypeOK'
  BY Zenon, <1>0, <1>2, <1>3 DEF TypeOK, LanePoints
<1>5. MutexInv'
  <2>1. Registered' = Registered
    BY Zenon, <1>0, <1>2 DEF Registered
  <2> QED
    BY Zenon, <2>1, <1>0, <1>2 DEF MutexInv
<1>6. \A q \in Rows : rec'[q] >= rec[q] /\ (q # r => rec'[q] = rec[q] /\ done'[q] = done[q])
  <2>1. pc[l] = "recon" => rec[r] = c
    BY Zenon, <1>0 DEF Place, Before, r, c
  <2> QED
    BY <2>1, <1>0, <1>3
<1>7. PlaceInv'
  <2> SUFFICES ASSUME NEW k \in Lanes PROVE Place(k)'
    BY Zenon DEF PlaceInv
  <2>1. CASE k = l
    <3>1. \A q \in Rows : q > r => rec'[q] = rec[q] /\ done'[q] = done[q]
      BY <1>0, <1>6 DEF Rows
    <3> QED
      BY Zenon, <2>1, <3>1, <1>0, <1>2, <1>3 DEF Place, Before, r, c
  <2>2. CASE k # l
    <3>1. Place(k) /\ row[k] # r /\ row[k] \in Rows /\ pc'[k] = pc[k] /\ Need(k)' = Need(k)
      BY Zenon, <2>2, <1>1, <1>2 DEF PlaceInv, TypeOK, Need
    <3>2. rec'[row[k]] = rec[row[k]] /\ done'[row[k]] = done[row[k]]
      BY Zenon, <3>1, <1>6
    <3>3. \A q \in Rows : Owns(k, q) => rec'[q] = rec[q] /\ done'[q] = done[q]
      BY Zenon, <2>2, <1>1, <1>6
    <3>4. row[k] > 0 => /\ row[k] - 1 \in Rows /\ rec'[row[k] - 1] >= rec[row[k] - 1]
                        /\ rec'[row[k] - 1] \in Nat /\ rec[row[k] - 1] \in Nat
      <4> SUFFICES ASSUME row[k] > 0 PROVE <3>4!2
        BY Zenon
      <4>1. row[k] - 1 \in Rows
        BY <3>1 DEF Rows
      <4>2. rec'[row[k] - 1] \in 0 .. ColCount /\ rec[row[k] - 1] \in 0 .. ColCount
        BY Zenon, <4>1, <1>0, <1>4 DEF TypeOK
      <4> QED
        BY <4>1, <4>2, <1>6
    <3>5. Need(k) \in Nat
      BY DEF TypeOK, Need
    <3>6. pc[k] = "recon" /\ row[k] > 0 => rec'[row[k] - 1] >= Need(k)
      <4>1. pc[k] = "recon" /\ row[k] > 0 => rec[row[k] - 1] >= Need(k)
        BY Zenon, <3>1 DEF Place
      <4> QED
        BY <4>1, <3>4, <3>5
    <3> QED
      BY Zenon, <3>1, <3>2, <3>3, <3>6, <1>2 DEF Place
  <2> QED
    BY Zenon, <2>1, <2>2
<1>8. OrderInv'
  <2>1. \A q \in Rows : done'[q] <= rec'[q]
    <3> SUFFICES ASSUME NEW q \in Rows PROVE done'[q] <= rec'[q]
      BY Zenon
    <3>1. done[q] <= rec[q] /\ done[q] \in Nat /\ rec[q] \in Nat /\ c \in Nat
      BY <1>0 DEF OrderInv
    <3>2. /\ pc[l] = "recon" => rec[r] = c
          /\ pc[l] = "store" => rec[r] = c + 1
      BY Zenon, <1>0 DEF Place, Before, r, c
    <3> QED
      BY <3>1, <3>2, <1>0, <1>2, <1>3
  <2>2. ASSUME NEW q \in Rows, NEW p \in Rows, p < q, rec'[q] = ColCount
        PROVE  rec'[p] = ColCount
    <3>1. CASE rec[q] = ColCount
      <4>1. rec[p] = ColCount
        BY Zenon, <2>2, <3>1 DEF OrderInv
      <4> QED
        BY <4>1, <1>4, <1>6 DEF TypeOK
    <3>2. CASE rec[q] # ColCount
      <4>1. q = r /\ pc[l] = "recon" /\ c + 1 = ColCount
        BY Zenon, <2>2, <3>2, <1>0, <1>3
      <4>2. r > 0 /\ r - 1 \in Rows
        BY <2>2, <4>1, <1>0 DEF Rows
      <4>3. rec[r - 1] >= ColCount
        <5>1. rec[r - 1] >= Need(l)
          BY Zenon, <4>1, <4>2, <1>0 DEF Place, r
        <5>2. Need(l) = ColCount
          BY <4>1, <1>0 DEF Need, c
        <5> QED
          BY Zenon, <5>1, <5>2
      <4>4. rec[r - 1] = ColCount
        BY <4>2, <4>3, <1>0
      <4>5. rec[p] = ColCount
        BY <2>2, <4>1, <4>2, <4>4 DEF OrderInv, Rows
      <4> QED
        BY Zenon, <4>5, <2>2, <4>1, <1>6 DEF Rows
    <3> QED
      BY Zenon, <3>1, <3>2
  <2> QED
    BY Zenon, <2>1, <2>2 DEF OrderInv
<1>9. SleepInv'
  <2> SUFFICES ASSUME NEW k \in Lanes PROVE Sleep(k)'
    BY Zenon DEF SleepInv
  <2>1. Sleep(k) /\ (pc'[k] = "asleep" \/ pc'[k] = "unparsed" => k # l)
    BY Zenon, <1>0, <1>2 DEF SleepInv
  <2>2. CASE pc[l] = "recon"
    <3>1. /\ AboveReady(k)' <=> AboveReady(k)
          /\ \A j \in Lanes : pc[j] \in {"test", "wake"} => pc'[j] \in {"test", "wake"}
      BY Zenon, <2>2, <1>2, <1>3 DEF AboveReady, Need
    <3> QED
      BY Zenon, <2>1, <3>1, <1>2 DEF Sleep
  <2>3. CASE pc[l] = "store"
    BY Zenon, <2>1, <2>3, <1>0, <1>2 DEF Sleep
  <2> QED
    BY Zenon, <2>2, <2>3, <1>2
<1>10. RowsFinal'
  <2> SUFFICES ASSUME NEW q \in Rows, q < tileRows \/ q < progress PROVE rec'[q] = ColCount
    BY Zenon, <1>2 DEF RowsFinal
  <2>1. rec[q] = ColCount /\ rec'[q] \in 0 .. ColCount /\ rec'[q] >= rec[q]
    BY Zenon, <1>4, <1>6 DEF RowsFinal, TypeOK
  <2> QED
    BY <2>1
<1> QED
  BY Zenon, <1>4, <1>5, <1>7, <1>8, <1>9, <1>10

\* The steps that wake lanes, and the one that finds none to wake.
LEMMA WakeWave ==
  ASSUME WaveInv, NEW l \in Lanes, TestWaiters(l) \/ WakeWaiters(l) \/ AbortLanes(l)
  PROVE  WaveInv'
<1> USE Counts
<1> USE DEF WaveInv
<1> DEFINE Up(p) == IF p = "unparsed" THEN "rows" ELSE IF p = "asleep" THEN "woken" ELSE p
<1>0. /\ pc \in [Lanes -> LanePoints] /\ col \in [Lanes -> 0 .. ColCount - 1]
      /\ \A k \in Lanes : Place(k) /\ Sleep(k) /\ row[k] \in Rows /\ col[k] \in 0 .. ColCount - 1
  BY Zenon DEF PlaceInv, SleepInv, TypeOK
<1>1. /\ UNCHANGED <<parse, split, result, published, mu, waiters, done, rec, row, tileRows, progress>>
      /\ pc[l] \in {"test", "wake", "abort"}
      /\ \A k \in Lanes \ {l} : col'[k] = col[k]
  BY Zenon, <1>0 DEF TestWaiters, WakeWaiters, AbortLanes, Advance, Goto, parseVars, sharedVars, frameVars
<1>2. \/ \A k \in Lanes \ {l} : pc'[k] = Up(pc[k])
      \/ waiters = 0 /\ aborted' = aborted /\ \A k \in Lanes \ {l} : pc'[k] = pc[k]
      \/ pc'[l] = "wake" /\ aborted' = aborted /\ \A k \in Lanes \ {l} : pc'[k] = pc[k]
  BY Zenon, <1>0, WokenFacts DEF TestWaiters, WakeWaiters, AbortLanes, Advance, Goto, sharedVars
<1>3. /\ aborted' = aborted /\ pc[l] \in {"test", "wake"} /\ firstErr' = firstErr
      /\ \/ pc'[l] = "gate" /\ col[l] + 1 < ColCount /\ col' = [col EXCEPT ![l] = col[l] + 1]
         \/ pc'[l] = "after" /\ col[l] + 1 >= ColCount /\ col' = col
         \/ pc'[l] = "wake" /\ col' = col
     \/ /\ aborted' = TRUE /\ pc[l] = "abort" /\ firstErr' = firstErr
        /\ pc'[l] \in {"fail", "ended"} /\ col' = col
  <2>0. Woken(pc) \in [Lanes -> LanePoints] /\ pc \in [Lanes -> LanePoints] /\ col[l] \in Int
    BY <1>0, WokenFacts
  <2>1. CASE TestWaiters(l)
    BY <2>0, <2>1 DEF TestWaiters, Advance, Goto, sharedVars
  <2>2. CASE WakeWaiters(l)
    BY <2>0, <2>2 DEF WakeWaiters, Advance, sharedVars
  <2>3. CASE AbortLanes(l)
    BY Zenon, <2>0, <2>3 DEF AbortLanes
  <2> QED
    BY Zenon, <2>1, <2>2, <2>3
<1>4. pc' \in [Lanes -> LanePoints]
  BY Zenon, <1>0, WokenFacts DEF TestWaiters, WakeWaiters, AbortLanes, Advance, Goto, LanePoints
<1>5. TypeOK'
  <2>1. col' \in [Lanes -> 0 .. ColCount - 1]
    <3>1. col[l] \in 0 .. ColCount - 1 /\ (col[l] + 1 < ColCount => col[l] + 1 \in 0 .. ColCount - 1)
      BY <1>0
    <3>2. col' = col \/ (col[l] + 1 < ColCount /\ col' = [col EXCEPT ![l] = col[l] + 1])
      BY Zenon, <1>3
    <3> QED
      BY Zenon, <3>1, <3>2, <1>0
  <2>2. aborted' \in BOOLEAN /\ firstErr' \in BOOLEAN
    BY Zenon, <1>3 DEF TypeOK
  <2> QED
    BY Zenon, <2>1, <2>2, <1>1, <1>4 DEF TypeOK
<1>6. MutexInv'
  <2>1. Registered' = Registered
    BY Zenon, <1>1, <1>2, <1>3 DEF Registered
  <2>2. \A k \in Lanes : pc'[k] = "check" <=> pc[k] = "check"
    BY Zenon, <1>1, <1>2, <1>3
  <2>3. parse # "idle"
    BY Zenon, <1>1 DEF MutexInv
  <2> QED
    BY Zenon, <2>1, <2>2, <2>3, <1>1 DEF MutexInv
<1>7. PlaceInv'
  <2> SUFFICES ASSUME NEW k \in Lanes PROVE Place(k)'
    BY Zenon DEF PlaceInv
  <2>1. CASE k # l
    <3>1. pc'[k] \in {pc[k], Up(pc[k])} /\ Need(k)' = Need(k) /\ aborted \in BOOLEAN
      BY Zenon, <2>1, <1>1, <1>2 DEF Need, TypeOK
    <3>2. aborted => aborted'
      BY Zenon, <1>3
    <3>3. Place(k) /\ UNCHANGED <<rec, done, row, published>> /\ col'[k] = col[k]
      BY Zenon, <2>1, <1>0, <1>1
    <3>4. CASE pc'[k] = pc[k]
      BY Zenon, <3>1, <3>2, <3>3, <3>4 DEF Place
    <3>5. CASE pc[k] \in {"unparsed", "asleep"} /\ pc'[k] = Up(pc[k])
      BY Zenon, <3>3, <3>5 DEF Place, Before
    <3> QED
      BY Zenon, <3>1, <3>4, <3>5
  <2>2. CASE k = l
    <3>1. Place(l) /\ col[l] \in Nat /\ rec[row[l]] \in 0 .. ColCount /\ ColCount \in Nat
      <4>1. Place(l) /\ row[l] \in Rows /\ col[l] \in 0 .. ColCount - 1
        BY Zenon, <1>0
      <4> QED
        BY <4>1 DEF TypeOK
    <3>2. CASE pc'[l] = "gate"
      <4>1. /\ pc[l] \in {"test", "wake"} /\ aborted' = aborted
            /\ col[l] + 1 < ColCount /\ col'[l] = col[l] + 1
        BY Zenon, <3>2, <1>0, <1>1, <1>3
      <4>2. /\ rec[row[l]] = col[l] + 1 /\ done[row[l]] = col[l] + 1 /\ row[l] < published
            /\ Owns(l, row[l]) /\ \A q \in Rows : Owns(l, q) /\ q > row[l] => rec[q] = 0 /\ done[q] = 0
        BY Zenon, <3>1, <4>1 DEF Place
      <4> QED
        BY Zenon, <2>2, <3>1, <3>2, <4>1, <4>2, <1>1 DEF Place, Before
    <3>3. CASE pc'[l] = "after"
      <4>1. /\ pc[l] \in {"test", "wake"} /\ aborted' = aborted
            /\ col[l] + 1 >= ColCount
        BY Zenon, <3>3, <1>0, <1>1, <1>3
      <4>2. /\ rec[row[l]] = col[l] + 1 /\ done[row[l]] = col[l] + 1 /\ row[l] < published
            /\ Owns(l, row[l]) /\ \A q \in Rows : Owns(l, q) /\ q > row[l] => rec[q] = 0 /\ done[q] = 0
        BY Zenon, <3>1, <4>1 DEF Place
      <4> QED
        <5>1. rec'[row'[l]] = ColCount /\ UNCHANGED <<rec, done, row>>
          BY <3>1, <4>1, <4>2, <1>1
        <5> QED
          BY Zenon, <2>2, <3>3, <4>2, <5>1 DEF Place, Before
    <3>4. CASE pc'[l] \in {"wake", "fail", "ended"}
      BY Zenon, <2>2, <3>1, <3>4, <1>0, <1>1, <1>3 DEF Place, Before
    <3> QED
      BY Zenon, <3>2, <3>3, <3>4, <1>3
  <2> QED
    BY Zenon, <2>1, <2>2
<1>8. OrderInv' /\ RowsFinal'
  BY Zenon, <1>1 DEF OrderInv, RowsFinal
<1>9. SleepInv'
  <2> SUFFICES ASSUME NEW k \in Lanes PROVE Sleep(k)'
    BY Zenon DEF SleepInv
  <2>1. CASE waiters = 0 /\ aborted' = aborted
    BY Zenon, <2>1, <1>0, <1>1, <1>2, <1>3, RegisteredFacts DEF MutexInv, Registered, Sleep
  <2>2. CASE pc'[l] = "wake" /\ aborted' = aborted
    BY Zenon, <2>2, <1>0, <1>1, <1>2, <1>3 DEF Sleep
  <2>3. CASE \A j \in Lanes \ {l} : pc'[j] = Up(pc[j])
    BY Zenon, <2>3, <1>1, <1>3 DEF Sleep
  <2> QED
    BY Zenon, <2>1, <2>2, <2>3, <1>2
<1> QED
  BY Zenon, <1>5, <1>6, <1>7, <1>8, <1>9

\* The steps after a row: the abort test, the claim and the next row.
LEMMA RowWave ==
  ASSUME WaveInv, NEW l \in Lanes, AfterRow(l) \/ FinishRows(l) \/ FailRows(l)
  PROVE  WaveInv'
<1> USE Counts
<1> USE DEF WaveInv
<1> DEFINE r == row[l]
<1>0. /\ pc \in [Lanes -> LanePoints] /\ row \in [Lanes -> Rows] /\ r \in Rows
      /\ \A k \in Lanes : Place(k) /\ Sleep(k) /\ row[k] \in Rows
  BY Zenon DEF PlaceInv, SleepInv, TypeOK
<1>1. /\ UNCHANGED <<parse, split, result, published, aborted, firstErr, mu, waiters, done, rec, col>>
      /\ \A k \in Lanes \ {l} : pc'[k] = pc[k] /\ row'[k] = row[k]
      /\ pc[l] \in {"after", "claim", "fail"}
  BY Zenon, <1>0 DEF AfterRow, FinishRows, FailRows, NextRow, Goto, parseVars, sharedVars, frameVars
<1>2. \/ pc' = [pc EXCEPT ![l] = "ended"] /\ row' = row
      \/ pc' = [pc EXCEPT ![l] = "claim"] /\ row' = row /\ pc[l] = "after" /\ ~aborted
      \/ /\ pc' = [pc EXCEPT ![l] = "rows"]
         /\ row' = [row EXCEPT ![l] = r + LaneCount] /\ r + LaneCount < RowCount
  BY Zenon DEF AfterRow, FinishRows, FailRows, NextRow, Goto
<1>3. r \in Nat /\ r < RowCount /\ LaneCount \in Nat \ {0}
  BY <1>0 DEF Rows
<1>4. \/ UNCHANGED <<tileRows, progress>>
      \/ tileRows' = tileRows /\ progress' = FailedRows
      \/ /\ pc[l] = "claim"
         /\ tileRows' = IF tileRows < r + 1 THEN r + 1 ELSE tileRows
         /\ progress' \in {progress, IF tileRows' < RowCount THEN tileRows' ELSE Done}
  BY Zenon DEF AfterRow, FinishRows, FailRows, frameVars
<1>5. TypeOK'
  <2>1. row' \in [Lanes -> Rows] /\ pc' \in [Lanes -> LanePoints]
    <3>1. r + LaneCount < RowCount => r + LaneCount \in Rows
      BY <1>3 DEF Rows
    <3> QED
      BY Zenon, <3>1, <1>0, <1>2 DEF LanePoints
  <2>2. tileRows' \in 0 .. RowCount
    BY <1>3, <1>4 DEF TypeOK
  <2>3. progress' \in Error .. Done
    BY <1>4, <2>2 DEF TypeOK, FailedRows, Error, Done
  <2> QED
    BY Zenon, <2>1, <2>2, <2>3, <1>1 DEF TypeOK
<1>6. MutexInv'
  <2>1. Registered' = Registered
    BY Zenon, <1>0, <1>1, <1>2 DEF Registered
  <2>2. parse # "idle"
    BY Zenon, <1>1 DEF MutexInv
  <2> QED
    BY Zenon, <2>1, <2>2, <1>0, <1>1, <1>2 DEF MutexInv
<1>7. PlaceInv'
  <2> SUFFICES ASSUME NEW k \in Lanes PROVE Place(k)'
    BY Zenon DEF PlaceInv
  <2>1. CASE k # l
    <3>1. /\ Place(k) /\ pc'[k] = pc[k] /\ row'[k] = row[k] /\ Need(k)' = Need(k)
          /\ UNCHANGED <<published, aborted, done, rec, col>>
      BY Zenon, <2>1, <1>0, <1>1 DEF Need
    <3> QED
      BY Zenon, <3>1 DEF Place
  <2>2. CASE k = l /\ row' = row
    <3>1. pc'[l] = "ended" \/ (pc'[l] = "claim" /\ pc[l] = "after" /\ ~aborted)
      BY <2>2, <1>0, <1>2, <1>3
    <3>2. Place(l)
      BY Zenon, <1>0
    <3> QED
      BY Zenon, <2>2, <3>1, <3>2, <1>1 DEF Place, Before
  <2>3. CASE k = l /\ row' # row
    <3>1. /\ pc'[l] = "rows" /\ row'[l] = r + LaneCount /\ r + LaneCount \in Rows
      BY <2>3, <1>0, <1>2, <1>3 DEF Rows
    <3>2. Owns(l, r + LaneCount)
      BY Zenon, <1>0, <1>3, OwnsNext DEF Place
    <3>3. rec[r + LaneCount] = 0 /\ done[r + LaneCount] = 0
      <4>1. Place(l) /\ r + LaneCount > r
        BY <1>0, <1>3
      <4>2. \A q \in Rows : Owns(l, q) /\ q > r => rec[q] = 0 /\ done[q] = 0
        BY Zenon, <4>1 DEF Place
      <4> QED
        BY Zenon, <3>1, <3>2, <4>1, <4>2
    <3>4. \A q \in Rows : Owns(l, q) /\ q > r + LaneCount => rec[q] = 0 /\ done[q] = 0
      <4>1. \A q \in Rows : Owns(l, q) /\ q > r => rec[q] = 0 /\ done[q] = 0
        BY Zenon, <1>0 DEF Place
      <4>2. \A q \in Rows : q > r + LaneCount => q > r
        BY <1>3 DEF Rows
      <4> QED
        BY Zenon, <4>1, <4>2
    <3> QED
      BY Zenon, <2>3, <3>1, <3>2, <3>3, <3>4, <1>1 DEF Place, Before
  <2> QED
    BY Zenon, <2>1, <2>2, <2>3
<1>8. OrderInv'
  BY Zenon, <1>1 DEF OrderInv
<1>9. SleepInv'
  <2> SUFFICES ASSUME NEW k \in Lanes PROVE Sleep(k)'
    BY Zenon DEF SleepInv
  <2>1. CASE k = l
    BY Zenon, <2>1, <1>0, <1>2 DEF Sleep
  <2>2. CASE k # l
    <3>1. AboveReady(k)' <=> AboveReady(k)
      BY Zenon, <2>2, <1>1 DEF AboveReady, Need
    <3>2. \A j \in Lanes : pc[j] \in {"test", "wake"} => pc'[j] = pc[j]
      BY Zenon, <1>1
    <3> QED
      BY Zenon, <2>2, <3>1, <3>2, <1>0, <1>1 DEF Sleep
  <2> QED
    BY Zenon, <2>1, <2>2
<1>10. RowsFinal'
  <2> SUFFICES ASSUME NEW q \in Rows, q < tileRows' \/ q < progress'
               PROVE  rec[q] = ColCount
    BY Zenon, <1>1 DEF RowsFinal
  <2>0. q \in Nat /\ q < RowCount /\ tileRows \in Nat /\ progress \in Int
    BY DEF Rows, TypeOK, Error, Done
  <2>1. CASE q < tileRows \/ q < progress
    BY Zenon, <2>1 DEF RowsFinal
  <2>2. CASE ~(q < tileRows \/ q < progress)
    <3>1. pc[l] = "claim" /\ q < r + 1
      BY <2>0, <2>2, <1>3, <1>4 DEF FailedRows, Error
    <3>2. rec[r] = ColCount
      BY Zenon, <3>1, <1>0 DEF Place
    <3> QED
      BY <3>1, <3>2, <2>0, <1>0, <1>3 DEF OrderInv
  <2> QED
    BY Zenon, <2>1, <2>2
<1> QED
  BY Zenon, <1>5, <1>6, <1>7, <1>8, <1>9, <1>10

LEMMA NextWave == WaveInv /\ [Next]_vars => WaveInv'
<1> SUFFICES ASSUME WaveInv, [Next]_vars PROVE WaveInv'
  BY Zenon
<1>1. CASE UNCHANGED vars
  <2>1. Registered' = Registered
    BY Zenon, <1>1 DEF vars, Registered
  <2> QED
    <3>1. /\ UNCHANGED <<parse, split, result, published, aborted, firstErr, mu, waiters, done, rec>>
          /\ UNCHANGED <<pc, row, col, tileRows, progress>>
      BY Zenon, <1>1 DEF vars, parseVars, sharedVars, frameVars
    <3>2. TypeOK' /\ MutexInv'
      BY Zenon, <2>1, <3>1 DEF WaveInv, TypeOK, MutexInv
    <3>3. PlaceInv'
      BY Zenon, <3>1 DEF WaveInv, PlaceInv, Place, Need
    <3>4. OrderInv' /\ RowsFinal'
      BY Zenon, <3>1 DEF WaveInv, OrderInv, RowsFinal
    <3>5. SleepInv'
      BY Zenon, <3>1 DEF WaveInv, SleepInv, Sleep, AboveReady, Need
    <3> QED
      BY Zenon, <3>2, <3>3, <3>4, <3>5 DEF WaveInv
<1> QED
  BY Zenon, <1>1, StartWave, ParseWave, GateWave, WriteWave, WakeWave, RowWave DEF Next, LaneStep

LEMMA WaveInvariant == Safety => []WaveInv
  BY InitWave, NextWave, PTL DEF Safety

\* No lane predicts from a neighbour that is not reconstructed, whatever the
\* numbers of rows, superblocks and lanes (the gate of reconstructRow).
THEOREM NeighboursSafe == Safety => []NeighboursReady
<1>1. WaveInv => NeighboursReady
  <2> SUFFICES ASSUME WaveInv, NEW l \in Lanes, pc[l] = "recon"
               PROVE  /\ row[l] < published
                      /\ rec[row[l]] = col[l]
                      /\ row[l] > 0 => /\ rec[row[l] - 1] > col[l]
                                       /\ col[l] + 1 < ColCount => rec[row[l] - 1] > col[l] + 1
    BY Zenon DEF NeighboursReady
  <2>1. /\ row[l] < published /\ rec[row[l]] = col[l]
        /\ row[l] > 0 => rec[row[l] - 1] >= Need(l)
    BY Zenon DEF WaveInv, PlaceInv, Place, Before
  <2>2. col[l] \in 0 .. ColCount - 1 /\ row[l] \in Rows /\ ColCount \in Nat
    BY Zenon, WavefrontAssumption DEF WaveInv, TypeOK
  <2>3. row[l] > 0 => rec[row[l] - 1] \in 0 .. ColCount
    <3>1. row[l] > 0 => row[l] - 1 \in Rows
      BY <2>2, WavefrontAssumption DEF Rows
    <3> QED
      BY Zenon, <3>1 DEF WaveInv, TypeOK
  <2> QED
    BY <2>1, <2>2, <2>3 DEF Need
<1> QED
  BY <1>1, WaveInvariant, PTL

\* The rows finishRows hands to the post-filter are complete.
THEOREM RowsSafe == Safety => []RowsFinal
  BY WaveInvariant, PTL DEF WaveInv

\* publishRowProgress and waitForRowProgress lose no wake-up.
THEOREM WakeupSafe == Safety => []NoLostWakeup
<1>1. WaveInv => NoLostWakeup
  <2> SUFFICES ASSUME WaveInv, NEW l \in Lanes PROVE NoLostWakeup!(l)
    BY Zenon DEF NoLostWakeup
  <2>1. Sleep(l)
    BY Zenon DEF WaveInv, SleepInv
  <2>2. pc[l] = "asleep" => waiters # 0
    BY Zenon, RegisteredFacts DEF WaveInv, MutexInv, Registered
  <2> QED
    BY Zenon, <2>1, <2>2 DEF Sleep
<1> QED
  BY <1>1, WaveInvariant, PTL
=============================================================================
