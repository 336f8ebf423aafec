----------------------- MODULE EncoderWavefrontProofs -----------------------
(***************************************************************************)
(* The encoder's wavefront decides every superblock from the contexts of   *)
(* the serial walk, loses no wakeup and reports every failure, for any     *)
(* number of lanes, rows, columns, frames and failures.                    *)
(***************************************************************************)
EXTENDS EncoderWavefront, FiniteSetTheorems, TLAPS

RowSet == 0 .. MaxRows - 1
ColSet == 0 .. Cols - 1

\* In waitRowProgress, before and behind the last look at the row; counted by
\* wf.waiters; inside a critical section of wf.mu.
Looking == {"poll", "spun", "register", "lock", "held", "park"}
Seen == {"leave", "last"}
Counted == {"lock", "held", "park", "leave", "fail"}
Inside == {"held", "park", "broadcast"}

LanePoints == Looking \cup Seen \cup
  {"fail", "abort", "broadcast", "idle", "check", "claim", "decide", "publish", "waiters", "wake"}
WriterPoints == Looking \cup Seen \cup {"fail", "abort", "broadcast", "idle", "write", "join"}

\* The lane has a row, its superblock not yet decided, or decided.
Before == Looking \cup Seen \cup {"decide"}
Working == Before \cup {"publish", "waiters", "wake"}

Waker == {"broadcast", "waiters", "wake"}

TypeOK ==
  /\ rows \in 0 .. MaxRows
  /\ done \in [RowSet -> 0 .. Cols]
  /\ nextRow \in Nat
  /\ aborted \in BOOLEAN
  /\ mu \in Goroutines \cup {Free}
  /\ parked \in SUBSET Goroutines
  /\ above \in [ColSet -> -1 .. MaxRows - 1]
  /\ diag \in [0 .. 1 -> [ColSet -> -1 .. MaxRows - 1]]
  /\ rec \in [RowSet -> 0 .. Cols]
  /\ pc \in [Goroutines -> LanePoints \cup WriterPoints]
  /\ at \in [Goroutines -> [row : 0 .. MaxRows, col : ColSet]]
  /\ spin \in [Goroutines -> Nat]
  /\ err \in SUBSET Lanes
  /\ writeErr \in BOOLEAN
  /\ written \in Nat /\ frames \in Nat /\ fails \in Nat
  /\ result \in {"none", "ok", "error"}

\* Where a lane is in its row, which is its own.
Place(l) ==
  LET r == at[l].row
      c == at[l].col
  IN /\ pc[l] \in LanePoints
     /\ pc[l] \in Working =>
          /\ r < nextRow /\ r < rows
          /\ rec[r] = IF pc[l] \in Before THEN c ELSE c + 1
          /\ done[r] = IF pc[l] \in {"waiters", "wake"} THEN c + 1 ELSE c
          /\ \A k \in Lanes \ {l} : pc[k] \in Working => at[k].row # r
     /\ pc[l] \in Looking \cup Seen => r > 0
     /\ pc[l] \in Seen \cup {"decide"} /\ r > 0 => done[r - 1] >= Lower(c + 2, Cols)

PlaceInv == \A l \in Lanes : Place(l)

\* A row stays a superblock behind the row above it.
RowInv ==
  /\ \A r \in RowSet : done[r] <= rec[r] /\ (r >= nextRow => rec[r] = 0)
  /\ \A r \in RowSet \ {0} : rec[r] > 0 => done[r - 1] >= Lower(rec[r] + 1, Cols)
  /\ \A q, r \in RowSet : q < r => rec[r] <= rec[q]

\* The last row that has decided superblock c is the one whose contexts are
\* above column c, and the last such of its parity in the diagonal plane.
CarrierInv ==
  /\ \A c \in ColSet :
       /\ \A r \in RowSet : rec[r] > c => above[c] >= r
       /\ above[c] # Unset => rec[above[c]] > c
  /\ \A p \in 0 .. 1, c \in ColSet \ {0} :
       /\ \A r \in RowSet : rec[r] >= c /\ (r + 1) % 2 = p => diag[p][c] >= r
       /\ diag[p][c] # Unset => rec[diag[p][c]] >= c /\ (diag[p][c] + 1) % 2 = p

\* The entropy pass leaves complete rows behind it.
WriterInv ==
  LET r == at[Writer].row
  IN /\ pc[Writer] \in WriterPoints
     /\ pc[Writer] \in Looking \cup Seen \cup {"write"} => r < rows
     /\ pc[Writer] \in Seen \cup {"write"} => done[r] = Cols
     /\ r <= rows
     /\ \A q \in RowSet : q < r => done[q] = Cols
     /\ written = r * Cols + at[Writer].col
     /\ pc[Writer] = "join" /\ ~writeErr => r = rows /\ at[Writer].col = 0

Registered == {g \in Goroutines : pc[g] \in Counted}

\* Who looked at its row in vain and went, or goes, to sleep, has a waker if
\* the row has come far enough since.
Asleep(g) ==
  /\ g \in parked \/ pc[g] = "park" => (Reached(g) => \E h \in Goroutines \ {g} : pc[h] \in Waker)
  /\ g \in parked /\ aborted => \E h \in Goroutines \ {g} : pc[h] \in Waker

SyncInv ==
  /\ \A g \in Goroutines : pc[g] \in Inside <=> mu = g
  /\ waiters = Cardinality(Registered)
  /\ \A g \in parked : pc[g] = "lock"
  /\ \A g \in Goroutines : Asleep(g)

\* Nothing is aborted, and nobody on the way out, unless something failed; a
\* call that has returned left nothing running.
EndInv ==
  /\ aborted \/ writeErr \/ err # {} => fails > 0
  /\ \A g \in Goroutines : pc[g] \in {"fail", "abort", "broadcast"} => fails > 0
  /\ pc[Writer] = "broadcast" => writeErr
  /\ pc[Writer] = "idle" => \A l \in Lanes : pc[l] = "idle"
  /\ result # "none" => pc[Writer] = "idle"
  /\ result = "ok" => at[Writer].row = rows /\ at[Writer].col = 0
  /\ result = "error" => writeErr \/ err # {}

DataInv == PlaceInv /\ RowInv /\ CarrierInv /\ WriterInv
EncInv == TypeOK /\ DataInv /\ SyncInv /\ EndInv

-----------------------------------------------------------------------------
(* Constants and counting.                                                 *)

LEMMA Basics ==
  /\ MaxRows \in Nat /\ MaxRows >= 2 /\ Cols \in Nat /\ Cols >= 1
  /\ Writer \notin Lanes /\ Writer \in Goroutines /\ Lanes \subseteq Goroutines
  /\ Free \notin Goroutines /\ Lanes = Goroutines \ {Writer}
BY WavefrontAssumption DEF Goroutines

LEMMA Types ==
  ASSUME TypeOK
  PROVE  /\ rows \in 0 .. MaxRows /\ nextRow \in Nat
         /\ \A g \in Goroutines : at[g].row \in 0 .. MaxRows /\ at[g].col \in 0 .. Cols - 1
         /\ \A r \in 0 .. MaxRows - 1 : done[r] \in 0 .. Cols /\ rec[r] \in 0 .. Cols
         /\ \A c \in 0 .. Cols - 1 : above[c] \in -1 .. MaxRows - 1
         /\ \A p \in 0 .. 1, c \in 0 .. Cols - 1 : diag[p][c] \in -1 .. MaxRows - 1
<1>1. \A g \in Goroutines : at[g].row \in 0 .. MaxRows /\ at[g].col \in 0 .. Cols - 1
  BY Zenon DEF TypeOK, ColSet
<1>2. \A r \in 0 .. MaxRows - 1 : done[r] \in 0 .. Cols /\ rec[r] \in 0 .. Cols
  BY Zenon DEF TypeOK, RowSet
<1>3. \A c \in 0 .. Cols - 1 : above[c] \in -1 .. MaxRows - 1
  BY Zenon DEF TypeOK, ColSet
<1>4. ASSUME NEW p \in 0 .. 1, NEW c \in 0 .. Cols - 1 PROVE diag[p][c] \in -1 .. MaxRows - 1
  <2>1. diag[p] \in [0 .. Cols - 1 -> -1 .. MaxRows - 1]
    BY Zenon DEF TypeOK, ColSet
  <2> QED
    BY Zenon, <2>1
<1> QED
  BY Zenon, <1>1, <1>2, <1>3, <1>4 DEF TypeOK

LEMMA FiniteGoroutines == IsFiniteSet(Goroutines)
BY Zenon, WavefrontAssumption, FS_AddElement DEF Goroutines

LEMMA FiniteRegistered == IsFiniteSet(Registered) /\ Cardinality(Registered) \in Nat
<1>1. Registered \in SUBSET Goroutines
  BY Zenon DEF Registered
<1> QED
  BY Zenon, <1>1, FiniteGoroutines, FS_Subset, FS_CardinalityType

\* A goroutine goes from one place to another: what wf.waiters counts.
LEMMA CountMoves ==
  ASSUME NEW g \in Goroutines, NEW b, pc \in [Goroutines -> LanePoints \cup WriterPoints],
         pc' = [pc EXCEPT ![g] = b]
  PROVE  /\ (pc[g] \in Counted <=> b \in Counted) => Cardinality(Registered') = Cardinality(Registered)
         /\ pc[g] \notin Counted /\ b \in Counted => Cardinality(Registered') = Cardinality(Registered) + 1
         /\ pc[g] \in Counted /\ b \notin Counted => Cardinality(Registered') = Cardinality(Registered) - 1
<1>1. CASE pc[g] \in Counted <=> b \in Counted
  <2>1. Registered' = Registered
    BY Zenon, <1>1 DEF Registered
  <2> QED
    BY Zenon, <1>1, <2>1
<1>2. CASE pc[g] \notin Counted /\ b \in Counted
  <2>1. Registered' = Registered \cup {g} /\ g \notin Registered
    BY Zenon, <1>2 DEF Registered
  <2> QED
    BY Zenon, <1>2, <2>1, FiniteRegistered, FS_AddElement
<1>3. CASE pc[g] \in Counted /\ b \notin Counted
  <2>1. Registered' = Registered \ {g} /\ g \in Registered
    BY Zenon, <1>3 DEF Registered
  <2> QED
    BY Zenon, <1>3, <2>1, FiniteRegistered, FS_RemoveElement
<1> QED
  BY Zenon, <1>1, <1>2, <1>3

\* What a step that moves nobody into or out of the count leaves of it.
LEMMA Counting ==
  ASSUME SyncInv
  PROVE  waiters \in Nat /\ (waiters = 0 => \A g \in Goroutines : pc[g] \notin Counted)
<1>1. waiters = Cardinality(Registered)
  BY Zenon DEF SyncInv
<1>2. ASSUME waiters = 0 PROVE \A g \in Goroutines : pc[g] \notin Counted
  <2>1. Registered = {}
    BY Zenon, <1>1, <1>2, FiniteRegistered, FS_EmptySet
  <2> QED
    BY Zenon, <2>1 DEF Registered
<1> QED
  BY Zenon, <1>1, <1>2, FiniteRegistered

-----------------------------------------------------------------------------
(* waitRowProgress.                                                        *)

\* Where its steps lead, and what they leave alone.
LEMMA WaitMoves ==
  ASSUME TypeOK, NEW g \in Goroutines, waitRowProgress(g)
  PROVE  /\ UNCHANGED <<rows, done, nextRow, aborted, above, diag, rec, at>>
         /\ UNCHANGED <<err, writeErr, written, frames, fails, result>>
         /\ pc' = [pc EXCEPT ![g] = pc'[g]]
         /\ spin' \in [Goroutines -> Nat]
         /\ \/ pc[g] \in Looking /\ pc'[g] \in Looking
            \/ pc[g] \in Looking /\ pc'[g] \in Seen /\ Reached(g)
            \/ pc[g] \in Seen /\ pc'[g] \in {"last", Passed(g)}
            \/ pc[g] \in Looking /\ pc'[g] = "fail" /\ aborted
            \/ pc[g] \in Looking \cup Seen /\ pc'[g] = GaveUp(g) /\ aborted
            \/ pc[g] = "fail" /\ pc'[g] = GaveUp(g)
<1> USE DEF TypeOK, Go, sync, data, ends, Looking, Seen
<1>1. CASE Poll(g)
  BY <1>1 DEF Poll
<1>2. CASE Spun(g)
  BY <1>2 DEF Spun
<1>3. CASE Register(g) \/ Lock(g)
  BY Zenon, <1>3 DEF Register, Lock
<1>4. CASE Held(g) \/ Park(g)
  BY Zenon, <1>4 DEF Held, Park
<1>5. CASE Leave(g)
  BY Zenon, <1>5 DEF Leave
<1>6. CASE LastCheck(g)
  BY Zenon, <1>6 DEF LastCheck
<1> QED
  BY Zenon, <1>1, <1>2, <1>3, <1>4, <1>5, <1>6 DEF waitRowProgress

LEMMA WaitShared ==
  ASSUME TypeOK, NEW g \in Goroutines, waitRowProgress(g)
  PROVE  mu' \in Goroutines \cup {Free} /\ parked' \in SUBSET Goroutines
BY Zenon DEF TypeOK, waitRowProgress, Poll, Spun, Register, Lock, Held, Park, Leave, LastCheck, sync

\* Waiting changes nothing a row or a carrier depends on.
LEMMA WaitData ==
  ASSUME TypeOK, DataInv, EndInv, NEW g \in Goroutines, waitRowProgress(g)
  PROVE  TypeOK' /\ DataInv' /\ EndInv'
<1> USE Basics
<1> DEFINE b == pc'[g]
<1>0. /\ UNCHANGED <<rows, done, nextRow, aborted, above, diag, rec, at>>
      /\ UNCHANGED <<err, writeErr, written, frames, fails, result>>
      /\ pc' = [pc EXCEPT ![g] = b]
      /\ pc \in [Goroutines -> LanePoints \cup WriterPoints]
  BY Zenon, WaitMoves DEF TypeOK
<1>1. /\ pc[g] \in Looking \cup Seen \cup {"fail"}
      /\ b \in Looking \cup Seen \cup {"fail", Passed(g), GaveUp(g)}
      /\ b \in {"fail", GaveUp(g)} => aborted \/ pc[g] = "fail"
      /\ b \in Looking \cup Seen \cup {Passed(g)} => pc[g] \in Looking \cup Seen
      /\ b \in Seen \cup {Passed(g)} => pc[g] \in Seen \/ Reached(g)
  BY Zenon, WaitMoves DEF Looking, Seen, Passed, GaveUp
<1> HIDE DEF b
<1>2. b \in LanePoints \cup WriterPoints
  BY Zenon, <1>1 DEF LanePoints, WriterPoints, Passed, GaveUp
<1>3. TypeOK'
  BY Zenon, <1>0, <1>2, WaitMoves, WaitShared DEF TypeOK
<1>4. RowInv' /\ CarrierInv'
  BY Zenon, <1>0 DEF DataInv, RowInv, CarrierInv
<1>5. PlaceInv'
  <2> SUFFICES ASSUME NEW l \in Lanes PROVE Place(l)'
    BY Zenon DEF PlaceInv
  <2>1. Place(l) /\ \A k \in Lanes : Place(k)
    BY Zenon DEF DataInv, PlaceInv
  <2>2. \A k \in Lanes : pc'[k] \in Working => pc[k] \in Working
    BY Zenon, <1>0, <1>1 DEF Working, Before, Looking, Seen, Passed, GaveUp
  <2>3. CASE l # g
    <3>1. pc'[l] = pc[l]
      BY Zenon, <1>0, <2>3
    <3> QED
      BY Zenon, <1>0, <2>1, <2>2, <3>1 DEF Place
  <2>4. CASE l = g
    <3>1. pc'[l] = b
      BY Zenon, <1>0, <2>4
    <3>2. b \in LanePoints
      BY Zenon, <1>1, <2>4 DEF LanePoints, Passed, GaveUp
    <3>3. b \in Working => b \in Before /\ pc[l] \in Before
      BY Zenon, <1>1, <2>4 DEF Working, Before, Looking, Seen, Passed, GaveUp
    <3>4. b \in Looking \cup Seen => pc[l] \in Looking \cup Seen
      BY Zenon, <1>1, <2>4
    <3>5. b \in Seen \cup {"decide"} => pc[l] \in Looking \cup Seen /\ (pc[l] \in Seen \/ Reached(l))
      BY Zenon, <1>1, <2>4 DEF Looking, Seen, Passed, GaveUp
    <3>6. Reached(l) => done[at[l].row - 1] >= Lower(at[l].col + 2, Cols)
      BY Zenon, <2>4 DEF Reached, AwaitedRow, Need
    <3> QED
      BY Zenon, <1>0, <2>1, <2>2, <3>1, <3>2, <3>3, <3>4, <3>5, <3>6
      DEF Place, Working, Before, Looking, Seen
  <2> QED
    BY Zenon, <2>3, <2>4
<1>6. WriterInv'
  <2>1. CASE Writer # g
    <3>1. pc'[Writer] = pc[Writer]
      BY Zenon, <1>0, <2>1
    <3> QED
      BY Zenon, <1>0, <3>1 DEF DataInv, WriterInv
  <2>2. CASE Writer = g
    <3>1. pc'[Writer] = b
      BY Zenon, <1>0, <2>2
    <3>2. b \in WriterPoints /\ b # "join"
      BY Zenon, <1>1, <2>2 DEF WriterPoints, Passed, GaveUp, Looking, Seen
    <3>3. b \in Looking \cup Seen \cup {"write"} => pc[Writer] \in Looking \cup Seen
      BY Zenon, <1>1, <2>2 DEF Looking, Seen, Passed, GaveUp
    <3>4. b \in Seen \cup {"write"} => pc[Writer] \in Seen \/ done[at[Writer].row] >= Cols
      BY Zenon, <1>1, <2>2 DEF Reached, AwaitedRow, Need, Looking, Seen, Passed, GaveUp
    <3>5. /\ at[Writer].row \in Nat /\ rows \in 0 .. MaxRows
          /\ \A q \in 0 .. MaxRows - 1 : done[q] \in 0 .. Cols
      BY Types
    <3>6. /\ pc[Writer] \in Looking \cup Seen \cup {"write"} => at[Writer].row < rows
          /\ pc[Writer] \in Seen => done[at[Writer].row] = Cols
      BY Zenon DEF DataInv, WriterInv
    <3>7. b \in Seen \cup {"write"} => done[at[Writer].row] = Cols
      BY <3>3, <3>4, <3>5, <3>6
    <3> QED
      BY Zenon, <1>0, <3>1, <3>2, <3>3, <3>7 DEF DataInv, WriterInv
  <2> QED
    BY Zenon, <2>1, <2>2
<1>7. EndInv'
  <2>1. pc[g] # "idle" /\ b # "idle"
    BY Zenon, <1>1 DEF Looking, Seen, Passed, GaveUp
  <2>2. pc[g] = "fail" \/ aborted => fails > 0
    BY Zenon DEF EndInv
  <2>3. \A h \in Goroutines : pc'[h] \in {"fail", "abort", "broadcast"} => fails > 0
    BY Zenon, <1>0, <1>1, <2>2 DEF EndInv, Looking, Seen, Passed, GaveUp
  <2>4. pc'[Writer] = "idle" <=> pc[Writer] = "idle"
    BY Zenon, <1>0, <2>1
  <2>5. \A l \in Lanes : pc[l] = "idle" => pc'[l] = "idle"
    BY Zenon, <1>0, <2>1
  <2>6. pc'[Writer] = "broadcast" => pc[Writer] = "broadcast"
    BY Zenon, <1>0, <1>1 DEF Looking, Seen, Passed, GaveUp
  <2> QED
    BY Zenon, <1>0, <2>3, <2>4, <2>5, <2>6 DEF EndInv
<1> QED
  BY Zenon, <1>3, <1>4, <1>5, <1>6, <1>7 DEF DataInv

\* Waiting keeps the mutex, the count and the notify list in step.
LEMMA WaitSync ==
  ASSUME TypeOK, SyncInv, NEW g \in Goroutines, waitRowProgress(g)
  PROVE  SyncInv'
<1> USE Basics
<1> DEFINE b == pc'[g]
<1>0. /\ UNCHANGED <<rows, done, aborted, at>>
      /\ pc' = [pc EXCEPT ![g] = b]
      /\ pc \in [Goroutines -> LanePoints \cup WriterPoints]
      /\ mu \in Goroutines \cup {Free} /\ parked \subseteq Goroutines
      /\ pc[g] \in Looking \cup Seen \cup {"fail"}
  BY Zenon, WaitMoves DEF TypeOK
<1>1. /\ \A k \in Goroutines : pc[k] \in Inside <=> mu = k
      /\ waiters = Cardinality(Registered)
      /\ \A k \in parked : pc[k] = "lock"
      /\ waiters \in Nat
  BY Zenon, Counting DEF SyncInv
<1>2. /\ \/ mu' = mu /\ (pc[g] \in Inside <=> b \in Inside)
         \/ mu = Free /\ mu' = g /\ b \in Inside
         \/ mu = g /\ mu' = Free /\ b \notin Inside
      /\ \/ waiters' = waiters /\ (pc[g] \in Counted <=> b \in Counted)
         \/ waiters' = waiters + 1 /\ pc[g] \notin Counted /\ b \in Counted
         \/ waiters' = waiters - 1 /\ pc[g] \in Counted /\ b \notin Counted
      /\ parked' = parked \/ parked' = parked \cup {g}
      /\ g \in parked' => b = "lock" /\ ~aborted /\ (~Reached(g) \/ pc[g] = "park")
      /\ b = "park" => ~Reached(g)
  <2> USE DEF Go, Inside, Counted, sync, Passed, GaveUp
  <2>1. CASE Poll(g) \/ Spun(g)
    BY ZenonT(60), <1>0, <1>1, <2>1 DEF Poll, Spun
  <2>2. CASE Register(g)
    BY Zenon, <1>0, <1>1, <2>2 DEF Register
  <2>3. CASE Lock(g)
    BY Zenon, <1>0, <1>1, <2>3 DEF Lock
  <2>4. CASE Held(g)
    BY Zenon, <1>0, <1>1, <2>4 DEF Held
  <2>5. CASE Park(g)
    BY Zenon, <1>0, <1>1, <2>5 DEF Park
  <2>6. CASE Leave(g)
    BY Zenon, <1>0, <1>1, <2>6 DEF Leave
  <2>7. CASE LastCheck(g)
    BY Zenon, <1>0, <1>1, <2>7 DEF LastCheck
  <2> QED
    BY Zenon, <2>1, <2>2, <2>3, <2>4, <2>5, <2>6, <2>7 DEF waitRowProgress
<1> HIDE DEF b
<1>3. \A k \in Goroutines : pc'[k] \in Inside <=> mu' = k
  BY <1>0, <1>1, <1>2
<1>4. waiters' = Cardinality(Registered')
  <2>1. /\ (pc[g] \in Counted <=> b \in Counted) => Cardinality(Registered') = Cardinality(Registered)
        /\ pc[g] \notin Counted /\ b \in Counted => Cardinality(Registered') = Cardinality(Registered) + 1
        /\ pc[g] \in Counted /\ b \notin Counted => Cardinality(Registered') = Cardinality(Registered) - 1
    BY Zenon, <1>0, CountMoves
  <2> QED
    BY Zenon, <1>1, <1>2, <2>1
<1>5. \A k \in parked' : pc'[k] = "lock"
  BY Zenon, <1>0, <1>1, <1>2
<1>6. ASSUME NEW k \in Goroutines PROVE Asleep(k)'
  <2>1. Asleep(k)
    BY Zenon DEF SyncInv
  <2>2. (\E h \in Goroutines \ {k} : pc[h] \in Waker) => \E h \in Goroutines \ {k} : pc'[h] \in Waker
    BY Zenon, <1>0 DEF Waker, Looking, Seen
  <2>3. Reached(k)' <=> Reached(k)
    BY Zenon, <1>0 DEF Reached, AwaitedRow, Need
  <2>4. CASE k # g
    BY Zenon, <1>0, <1>2, <2>1, <2>2, <2>3, <2>4 DEF Asleep
  <2>5. CASE k = g
    BY Zenon, <1>0, <1>2, <2>1, <2>2, <2>3, <2>5 DEF Asleep
  <2> QED
    BY Zenon, <2>4, <2>5
<1> QED
  BY Zenon, <1>3, <1>4, <1>5, <1>6 DEF SyncInv

-----------------------------------------------------------------------------
(* Steps outside waitRowProgress: what they leave of the synchronisation   *)
(* and of the way out.                                                     *)

\* A goroutine that is not waiting, waking or locked goes somewhere else.
LEMMA QuietSync ==
  ASSUME TypeOK, SyncInv, NEW g \in Goroutines, NEW b, pc' = [pc EXCEPT ![g] = b],
         pc[g] \notin Inside \cup Counted \cup Waker, b \notin Inside \cup Counted,
         UNCHANGED <<done, waiters, mu, parked, aborted>>,
         \A k \in Goroutines \ {g} : at'[k] = at[k]
  PROVE  SyncInv'
<1> USE Basics
<1>0. pc \in [Goroutines -> LanePoints \cup WriterPoints] /\ parked \subseteq Goroutines
  BY Zenon DEF TypeOK
<1>1. \A k \in Goroutines : pc'[k] \in Inside <=> mu' = k
  BY Zenon, <1>0 DEF SyncInv
<1>2. waiters' = Cardinality(Registered')
  <2>1. Cardinality(Registered') = Cardinality(Registered)
    BY Zenon, <1>0, CountMoves
  <2> QED
    BY Zenon, <2>1 DEF SyncInv
<1>3. g \notin parked /\ \A k \in parked' : pc'[k] = "lock"
  BY Zenon, <1>0 DEF SyncInv, Counted
<1>4. ASSUME NEW k \in Goroutines PROVE Asleep(k)'
  <2>1. CASE k = g
    BY Zenon, <1>0, <1>3, <2>1 DEF Asleep, Inside
  <2>2. CASE k # g
    <3>1. (\E h \in Goroutines \ {k} : pc[h] \in Waker) => \E h \in Goroutines \ {k} : pc'[h] \in Waker
      BY Zenon, <1>0
    <3>2. Reached(k)' <=> Reached(k)
      BY Zenon, <2>2 DEF Reached, AwaitedRow, Need
    <3>3. Asleep(k) /\ pc'[k] = pc[k]
      BY Zenon, <1>0, <2>2 DEF SyncInv
    <3> QED
      BY Zenon, <3>1, <3>2, <3>3 DEF Asleep
  <2> QED
    BY Zenon, <2>1, <2>2
<1> QED
  BY Zenon, <1>1, <1>2, <1>3, <1>4 DEF SyncInv

\* A lane at work moves on.
LEMMA LaneEnd ==
  ASSUME TypeOK, EndInv, NEW l \in Lanes, NEW b, pc' = [pc EXCEPT ![l] = b], pc[l] # "idle",
         at'[Writer] = at[Writer], UNCHANGED <<rows, writeErr, result>>,
         fails' \in Nat, fails' >= fails, err \subseteq err',
         b \in {"fail", "abort", "broadcast"} \/ aborted' \/ err' # err => fails' > 0
  PROVE  EndInv'
<1> USE Basics
<1>0. pc \in [Goroutines -> LanePoints \cup WriterPoints] /\ fails \in Nat
  BY Zenon DEF TypeOK
<1>1. pc[Writer] # "idle" /\ pc'[Writer] = pc[Writer]
  BY Zenon, <1>0 DEF EndInv
<1>2. \A g \in Goroutines : pc'[g] \in {"fail", "abort", "broadcast"} => fails' > 0
  BY <1>0 DEF EndInv
<1>3. aborted' \/ writeErr' \/ err' # {} => fails' > 0
  BY <1>0 DEF EndInv
<1> QED
  BY Zenon, <1>1, <1>2, <1>3 DEF EndInv

\* abort takes the mutex, and leaves with everybody woken.
LEMMA AbortStep ==
  ASSUME EncInv, NEW g \in Goroutines, abort(g)
  PROVE  EncInv'
<1> USE Basics
<1> DEFINE b == pc'[g]
<1>0. TypeOK /\ DataInv /\ SyncInv /\ EndInv
  BY Zenon DEF EncInv
<1>1. /\ UNCHANGED <<rows, done, nextRow, waiters, above, diag, rec, at, spin>>
      /\ UNCHANGED <<err, written, frames, fails, result>>
      /\ pc' = [pc EXCEPT ![g] = b]
      /\ pc \in [Goroutines -> LanePoints \cup WriterPoints]
      /\ \/ /\ pc[g] = "abort" /\ b = "broadcast" /\ mu = Free /\ mu' = g /\ aborted'
            /\ writeErr' = (writeErr \/ g = Writer) /\ parked' = parked
         \/ /\ pc[g] = "broadcast" /\ b = (IF g = Writer THEN "join" ELSE "idle") /\ mu' = Free
            /\ UNCHANGED <<aborted, writeErr>> /\ parked' = {}
  BY Zenon, <1>0 DEF TypeOK, abort, AbortStore, AbortBroadcast, Go, data, ends
<1> HIDE DEF b
<1>2. TypeOK'
  BY Zenon, <1>0, <1>1 DEF TypeOK, LanePoints, WriterPoints
<1>3. RowInv' /\ CarrierInv'
  BY Zenon, <1>0, <1>1 DEF DataInv, RowInv, CarrierInv
<1>4. PlaceInv'
  <2> SUFFICES ASSUME NEW l \in Lanes PROVE Place(l)'
    BY Zenon DEF PlaceInv
  <2>1. Place(l)
    BY Zenon, <1>0 DEF DataInv, PlaceInv
  <2>2. /\ \A k \in Lanes : pc'[k] \in Working => pc[k] \in Working
        /\ pc'[l] = pc[l] \/ (pc'[l] \in LanePoints /\ pc'[l] \notin Working)
    BY Zenon, <1>1 DEF Working, Before, Looking, Seen, LanePoints
  <2> QED
    BY Zenon, <1>1, <2>1, <2>2 DEF Place, Working, Before
<1>5. WriterInv'
  <2>1. CASE Writer # g
    <3>1. pc'[Writer] = pc[Writer] /\ (writeErr' <=> writeErr)
      BY <1>0, <1>1, <2>1 DEF TypeOK
    <3> QED
      BY Zenon, <1>0, <1>1, <3>1 DEF DataInv, WriterInv
  <2>2. CASE Writer = g
    <3>1. /\ pc'[Writer] \in WriterPoints /\ pc'[Writer] \notin Looking \cup Seen \cup {"write"}
          /\ pc'[Writer] = "join" => writeErr'
      BY <1>0, <1>1, <2>2 DEF EndInv, WriterPoints, Looking, Seen
    <3> QED
      BY Zenon, <1>0, <1>1, <3>1 DEF DataInv, WriterInv
  <2> QED
    BY Zenon, <2>1, <2>2
<1>6. EndInv'
  <2>1. pc[g] # "idle" /\ fails > 0
    BY Zenon, <1>0, <1>1 DEF EndInv
  <2>2. pc[Writer] # "idle" /\ pc'[Writer] # "idle"
    BY Zenon, <1>0, <1>1, <2>1 DEF EndInv
  <2>3. ASSUME pc'[Writer] = "broadcast" PROVE writeErr'
    <3>1. CASE Writer = g
      BY <1>1, <2>3, <3>1, Zenon
    <3>2. CASE Writer # g
      <4>1. pc[Writer] = "broadcast"
        BY Zenon, <1>1, <2>3, <3>2
      <4>2. writeErr
        BY Zenon, <1>0, <4>1 DEF EndInv
      <4> QED
        BY Zenon, <1>1, <4>2
    <3> QED
      BY Zenon, <3>1, <3>2
  <2> QED
    BY Zenon, <1>0, <1>1, <2>1, <2>2, <2>3 DEF EndInv
<1>7. SyncInv'
  <2>1. \A k \in Goroutines : pc'[k] \in Inside <=> mu' = k
    BY Zenon, <1>0, <1>1 DEF SyncInv, Inside
  <2>2. waiters' = Cardinality(Registered')
    <3>1. Cardinality(Registered') = Cardinality(Registered)
      BY Zenon, <1>1, CountMoves DEF Counted
    <3> QED
      BY Zenon, <1>0, <1>1, <3>1 DEF SyncInv
  <2>3. \A k \in parked' : pc'[k] = "lock"
    BY Zenon, <1>0, <1>1 DEF SyncInv, TypeOK
  <2>4. \A k \in Goroutines : pc'[k] # "park"
    BY Zenon, <1>0, <1>1 DEF SyncInv, Inside
  <2>5. \A k \in Goroutines : k \in parked' => \E h \in Goroutines \ {k} : pc'[h] \in Waker
    BY Zenon, <1>0, <1>1, <2>3 DEF Waker
  <2> QED
    BY Zenon, <2>1, <2>2, <2>3, <2>4, <2>5 DEF SyncInv, Asleep
<1> QED
  BY Zenon, <1>2, <1>3, <1>4, <1>5, <1>6, <1>7 DEF EncInv, DataInv

-----------------------------------------------------------------------------
(* The lanes.                                                              *)

\* A lane between rows, or one that failed, touches no row.
LEMMA CheckStep ==
  ASSUME EncInv, NEW l \in Lanes, Check(l) \/ DecideFails(l)
  PROVE  EncInv'
<1> USE Basics
<1> DEFINE b == pc'[l]
<1>0. TypeOK /\ DataInv /\ SyncInv /\ EndInv
  BY Zenon DEF EncInv
<1>1. /\ UNCHANGED <<rows, done, nextRow, aborted, waiters, mu, parked, above, diag, rec, at, spin>>
      /\ UNCHANGED <<writeErr, written, frames, result>>
      /\ pc' = [pc EXCEPT ![l] = b]
      /\ pc \in [Goroutines -> LanePoints \cup WriterPoints]
      /\ pc[l] \in {"check", "decide"} /\ b \in {"idle", "claim", "abort"}
      /\ fails \in Nat
      /\ \/ UNCHANGED <<fails, err>> /\ b # "abort"
         \/ fails' = fails + 1 /\ err' = err \cup {l}
  BY Zenon, <1>0 DEF TypeOK, Check, DecideFails, Go, sync, data, ends
<1> HIDE DEF b
<1>2. TypeOK'
  <2>1. b \in LanePoints \cup WriterPoints /\ fails' \in Nat /\ err' \in SUBSET Lanes
    BY <1>0, <1>1 DEF LanePoints, WriterPoints, TypeOK
  <2> QED
    BY Zenon, <1>0, <1>1, <2>1 DEF TypeOK
<1>3. RowInv' /\ CarrierInv'
  BY Zenon, <1>0, <1>1 DEF DataInv, RowInv, CarrierInv
<1>4. PlaceInv'
  <2> SUFFICES ASSUME NEW k \in Lanes PROVE Place(k)'
    BY Zenon DEF PlaceInv
  <2>1. Place(k)
    BY Zenon, <1>0 DEF DataInv, PlaceInv
  <2>2. /\ \A j \in Lanes : pc'[j] \in Working => pc[j] \in Working
        /\ pc'[k] = pc[k] \/ (pc'[k] \in LanePoints /\ pc'[k] \notin Working)
    BY Zenon, <1>1 DEF Working, Before, Looking, Seen, LanePoints
  <2> QED
    BY Zenon, <1>1, <2>1, <2>2 DEF Place, Working, Before
<1>5. WriterInv'
  BY Zenon, <1>0, <1>1 DEF DataInv, WriterInv
<1>6. SyncInv'
  BY Zenon, <1>0, <1>1, QuietSync DEF Inside, Counted, Waker
<1>7. EndInv'
  <2>1. aborted' => fails' > 0
    BY <1>0, <1>1 DEF EndInv
  <2>2. /\ pc[l] # "idle" /\ at'[Writer] = at[Writer] /\ UNCHANGED <<rows, writeErr, result>>
        /\ fails' \in Nat /\ fails' >= fails /\ err \subseteq err'
        /\ b \in {"fail", "abort", "broadcast"} \/ aborted' \/ err' # err => fails' > 0
    BY <1>0, <1>1, <2>1
  <2> QED
    BY <1>0, <1>1, <2>2, LaneEnd, Zenon
<1> QED
  BY Zenon, <1>2, <1>3, <1>4, <1>5, <1>6, <1>7 DEF EncInv, DataInv

\* The row a lane claims is nobody else's, and untouched.
LEMMA ClaimStep ==
  ASSUME EncInv, NEW l \in Lanes, Claim(l)
  PROVE  EncInv'
<1> USE Basics
<1> DEFINE b == pc'[l]
<1>0. TypeOK /\ DataInv /\ SyncInv /\ EndInv
  BY Zenon DEF EncInv
<1>1. /\ UNCHANGED <<rows, done, aborted, waiters, mu, parked, above, diag, rec>>
      /\ UNCHANGED <<err, writeErr, written, frames, fails, result>>
      /\ pc' = [pc EXCEPT ![l] = b]
      /\ pc \in [Goroutines -> LanePoints \cup WriterPoints]
      /\ at \in [Goroutines -> [row : 0 .. MaxRows, col : ColSet]]
      /\ spin \in [Goroutines -> Nat]
      /\ pc[l] = "claim" /\ nextRow' = nextRow + 1
      /\ nextRow \in Nat /\ rows \in 0 .. MaxRows
      /\ \/ b = "idle" /\ UNCHANGED <<at, spin>>
         \/ /\ nextRow < rows /\ b = Enter(nextRow)
            /\ at' = [at EXCEPT ![l] = [row |-> nextRow, col |-> 0]]
            /\ spin' = [spin EXCEPT ![l] = 0]
  BY <1>0 DEF TypeOK, Claim, Go, data, ends
<1> HIDE DEF b
<1>2. b \in {"idle", "decide", "poll"}
  BY Zenon, <1>1 DEF Enter
<1>3. TypeOK'
  <2>1. b \in LanePoints \cup WriterPoints /\ nextRow' \in Nat
    BY <1>1, <1>2 DEF LanePoints, WriterPoints, Looking
  <2>2. at' \in [Goroutines -> [row : 0 .. MaxRows, col : ColSet]] /\ spin' \in [Goroutines -> Nat]
    BY <1>1 DEF ColSet
  <2> QED
    BY Zenon, <1>0, <1>1, <2>1, <2>2 DEF TypeOK
<1>4. CarrierInv'
  BY Zenon, <1>0, <1>1 DEF DataInv, CarrierInv
<1>5. RowInv'
  <2>1. \A r \in RowSet : r >= nextRow' => r >= nextRow
    BY <1>1 DEF RowSet
  <2> QED
    BY Zenon, <1>0, <1>1, <2>1 DEF DataInv, RowInv
<1>6. PlaceInv'
  <2> SUFFICES ASSUME NEW k \in Lanes PROVE Place(k)'
    BY Zenon DEF PlaceInv
  <2>1. \A j \in Lanes : Place(j)
    BY Zenon, <1>0 DEF DataInv, PlaceInv
  <2>2. \A j \in Lanes \ {l} : pc'[j] = pc[j] /\ at'[j] = at[j]
    BY Zenon, <1>1
  <2>3. CASE b = "idle"
    <3>1. pc'[k] = pc[k] \/ (pc'[k] \in LanePoints /\ pc'[k] \notin Working)
      BY Zenon, <1>1, <2>3 DEF Working, Before, Looking, Seen, LanePoints
    <3>2. at' = at /\ \A j \in Lanes : pc'[j] \in Working => pc[j] \in Working
      BY Zenon, <1>1, <2>3 DEF Enter, Working, Before, Looking, Seen
    <3> QED
      BY <1>1, <2>1, <3>1, <3>2, Types, <1>0 DEF Place, Working, Before
  <2>4. CASE b # "idle"
    <3>1. /\ nextRow < rows /\ b = Enter(nextRow) /\ at'[l].row = nextRow /\ at'[l].col = 0
          /\ pc'[l] = b
      BY <1>1, <2>4
    <3>2. \A j \in Lanes \ {l} : pc[j] \in Working => at[j].row < nextRow
      BY Zenon, <2>1 DEF Place
    <3>3. CASE k # l
      BY <1>0, <1>1, <2>1, <2>2, <3>1, <3>2, <3>3, Types DEF Place
    <3>4. CASE k = l
      <4>1. rec[nextRow] = 0 /\ done[nextRow] = 0
        BY <1>0, <1>1, <3>1, Types DEF DataInv, RowInv, RowSet
      <4>2. b \in LanePoints /\ b \in Before /\ b \notin Seen \cup {"waiters", "wake"}
            /\ (nextRow > 0 => b \in Looking /\ b # "decide") /\ (b \in Looking => nextRow > 0)
        BY <1>1, <3>1 DEF Enter, LanePoints, Before, Looking, Seen
      <4> QED
        BY <1>1, <2>2, <3>1, <3>2, <3>4, <4>1, <4>2 DEF Place
    <3> QED
      BY Zenon, <3>3, <3>4
  <2> QED
    BY Zenon, <2>3, <2>4
<1>7. WriterInv'
  <2>1. pc'[Writer] = pc[Writer] /\ at'[Writer] = at[Writer]
    BY Zenon, <1>1
  <2> QED
    BY Zenon, <1>0, <1>1, <2>1 DEF DataInv, WriterInv
<1>8. SyncInv'
  <2>1. \A k \in Goroutines \ {l} : at'[k] = at[k]
    BY Zenon, <1>1
  <2> QED
    BY Zenon, <1>0, <1>1, <1>2, <2>1, QuietSync DEF Inside, Counted, Waker
<1>9. EndInv'
  <2>1. fails \in Nat /\ (aborted => fails > 0) /\ at'[Writer] = at[Writer]
    BY Zenon, <1>0, <1>1 DEF EndInv, TypeOK
  <2>2. /\ pc[l] # "idle" /\ at'[Writer] = at[Writer] /\ UNCHANGED <<rows, writeErr, result>>
        /\ fails' \in Nat /\ fails' >= fails /\ err \subseteq err'
        /\ b \in {"fail", "abort", "broadcast"} \/ aborted' \/ err' # err => fails' > 0
    BY <1>0, <1>1, <1>2, <2>1
  <2> QED
    BY <1>0, <1>1, <2>2, LaneEnd, Zenon
<1> QED
  BY Zenon, <1>3, <1>4, <1>5, <1>6, <1>7, <1>8, <1>9 DEF EncInv, DataInv

\* The contexts a walk stores are those of the last row at its column, because
\* the row behind it has not come so far.
LEMMA DecideData ==
  ASSUME TypeOK, DataInv, NEW l \in Lanes, Decide(l)
  PROVE  RowInv' /\ CarrierInv'
<1> USE Basics
<1> DEFINE r == at[l].row
           c == at[l].col
<1>0. /\ \A q \in RowSet : done[q] \in 0 .. Cols /\ rec[q] \in 0 .. Cols
      /\ r \in 0 .. MaxRows /\ c \in 0 .. Cols - 1 /\ nextRow \in Nat /\ rows \in 0 .. MaxRows
      /\ above \in [ColSet -> -1 .. MaxRows - 1] /\ rec \in [RowSet -> 0 .. Cols]
      /\ diag \in [0 .. 1 -> [ColSet -> -1 .. MaxRows - 1]]
  BY Zenon, Types DEF RowSet, TypeOK
<1>1. /\ UNCHANGED <<rows, done, nextRow>>
      /\ above' = [above EXCEPT ![c] = r]
      /\ diag' = IF c + 1 < Cols THEN [diag EXCEPT ![(r + 1) % 2][c + 1] = r] ELSE diag
      /\ rec' = [rec EXCEPT ![r] = rec[r] + 1]
      /\ pc[l] = "decide"
  BY Zenon DEF Decide, sync
<1>2. /\ r < nextRow /\ r < rows /\ rec[r] = c /\ done[r] = c
      /\ r > 0 => done[r - 1] >= Lower(c + 2, Cols)
  BY Zenon, <1>1 DEF DataInv, PlaceInv, Place, Working, Before
<1> HIDE DEF r, c
<1>3. /\ \A q \in RowSet : done[q] <= rec[q] /\ (q >= nextRow => rec[q] = 0)
      /\ \A q \in RowSet \ {0} : rec[q] > 0 => done[q - 1] >= Lower(rec[q] + 1, Cols)
      /\ \A p, q \in RowSet : p < q => rec[q] <= rec[p]
  BY Zenon DEF DataInv, RowInv
<1>4. /\ r \in RowSet /\ (r > 0 => r - 1 \in RowSet /\ rec[r - 1] >= c + 1)
      /\ rec'[r] = c + 1 /\ \A q \in RowSet \ {r} : rec'[q] = rec[q]
  BY <1>0, <1>1, <1>2, <1>3 DEF RowSet, Lower
<1>5. \A q \in RowSet : (q > r => rec[q] <= c) /\ (q < r => rec[q] >= c + 1)
  <2> SUFFICES ASSUME NEW q \in RowSet PROVE (q > r => rec[q] <= c) /\ (q < r => rec[q] >= c + 1)
    BY Zenon
  <2>1. q > r => rec[q] <= c
    BY Zenon, <1>2, <1>3, <1>4
  <2>2. CASE q < r
    <3>1. r > 0 /\ (q = r - 1 \/ q < r - 1)
      BY <1>0, <2>2 DEF RowSet
    <3>2. q < r - 1 => rec[r - 1] <= rec[q]
      BY Zenon, <1>3, <1>4, <3>1
    <3> QED
      BY <1>0, <1>4, <3>1, <3>2 DEF RowSet
  <2> QED
    BY Zenon, <2>1, <2>2
<1>6. RowInv'
  <2>1. ASSUME NEW q \in RowSet PROVE done'[q] <= rec'[q] /\ (q >= nextRow' => rec'[q] = 0)
    BY <1>0, <1>1, <1>2, <1>3, <1>4 DEF RowSet
  <2>2. ASSUME NEW q \in RowSet \ {0}, rec'[q] > 0 PROVE done'[q - 1] >= Lower(rec'[q] + 1, Cols)
    BY <1>0, <1>1, <1>2, <1>3, <1>4, <2>2 DEF RowSet, Lower
  <2>3. ASSUME NEW p \in RowSet, NEW q \in RowSet, p < q PROVE rec'[q] <= rec'[p]
    BY <1>0, <1>3, <1>4, <1>5, <2>3 DEF RowSet
  <2> QED
    BY Zenon, <2>1, <2>2, <2>3 DEF RowInv
<1>7. /\ \A q \in RowSet : /\ q \in Int /\ rec[q] \in Int /\ rec'[q] \in Int /\ rec[q] <= rec'[q]
                           /\ q # r => rec'[q] = rec[q]
                           /\ q > r => rec'[q] <= c
      /\ r \in Int /\ c \in Int /\ rec[r] = c /\ rec'[r] = c + 1
      /\ -1 .. MaxRows - 1 = RowSet \cup {Unset}
  BY <1>0, <1>2, <1>4, <1>5 DEF RowSet, Unset
<1>8. ASSUME NEW x \in ColSet
      PROVE  /\ \A q \in RowSet : rec'[q] > x => above'[x] >= q
             /\ above'[x] # Unset => rec'[above'[x]] > x
  <2>0. /\ \A q \in RowSet : rec[q] > x => above[x] >= q
        /\ above[x] # Unset => rec[above[x]] > x
        /\ above[x] \in RowSet \cup {Unset} /\ x \in Int
    BY <1>0, <1>7 DEF DataInv, CarrierInv, ColSet
  <2>1. CASE x = c
    <3>1. above'[x] = r
      BY Zenon, <1>0, <1>1, <2>1 DEF ColSet
    <3> QED
      BY <1>7, <2>1, <3>1
  <2>2. CASE x # c
    <3>1. above'[x] = above[x]
      BY Zenon, <1>0, <1>1, <2>2 DEF ColSet
    <3>2. \A q \in RowSet : rec'[q] > x => rec[q] > x
      BY <1>7, <2>0, <2>2
    <3> QED
      BY <1>7, <2>0, <3>1, <3>2
  <2> QED
    BY Zenon, <2>1, <2>2
<1>9. ASSUME NEW p \in 0 .. 1, NEW x \in ColSet \ {0}
      PROVE  /\ \A q \in RowSet : rec'[q] >= x /\ (q + 1) % 2 = p => diag'[p][x] >= q
             /\ diag'[p][x] # Unset => rec'[diag'[p][x]] >= x /\ (diag'[p][x] + 1) % 2 = p
  <2>0. /\ \A q \in RowSet : rec[q] >= x /\ (q + 1) % 2 = p => diag[p][x] >= q
        /\ diag[p][x] # Unset => rec[diag[p][x]] >= x /\ (diag[p][x] + 1) % 2 = p
        /\ diag[p][x] \in RowSet \cup {Unset} /\ x \in Int
    BY <1>7, Types DEF DataInv, CarrierInv, ColSet
  <2>1. CASE p = (r + 1) % 2 /\ x = c + 1
    <3>1. diag'[p][x] = r
      BY <1>0, <1>1, <2>1 DEF ColSet
    <3>2. \A q \in RowSet : rec'[q] >= x => r >= q
      BY <1>7, <2>1
    <3> QED
      BY <1>7, <2>1, <3>1, <3>2
  <2>2. CASE ~(p = (r + 1) % 2 /\ x = c + 1)
    <3>1. diag'[p][x] = diag[p][x]
      BY Zenon, <1>0, <1>1, <2>2 DEF ColSet
    <3>2. ASSUME NEW q \in RowSet, rec'[q] >= x, (q + 1) % 2 = p PROVE rec[q] >= x
      <4>1. CASE q = r
        <5>1. x # c + 1
          BY Zenon, <2>2, <3>2, <4>1
        <5> QED
          BY <1>7, <2>0, <3>2, <4>1, <5>1
      <4>2. CASE q # r
        BY Zenon, <1>7, <3>2, <4>2
      <4> QED
        BY Zenon, <4>1, <4>2
    <3>3. \A q \in RowSet : rec[q] >= x => rec'[q] >= x
      BY <1>7, <2>0
    <3> QED
      BY Zenon, <2>0, <3>1, <3>2, <3>3
  <2> QED
    BY Zenon, <2>1, <2>2
<1> QED
  BY Zenon, <1>6, <1>8, <1>9 DEF CarrierInv

LEMMA DecideStep ==
  ASSUME EncInv, NEW l \in Lanes, Decide(l)
  PROVE  EncInv'
<1> USE Basics
<1> DEFINE r == at[l].row
           c == at[l].col
<1>0. TypeOK /\ DataInv /\ SyncInv /\ EndInv
  BY Zenon DEF EncInv
<1>1. /\ UNCHANGED <<rows, done, nextRow, aborted, waiters, mu, parked, at, spin>>
      /\ UNCHANGED <<err, writeErr, written, frames, fails, result>>
      /\ above' = [above EXCEPT ![c] = r]
      /\ diag' = IF c + 1 < Cols THEN [diag EXCEPT ![(r + 1) % 2][c + 1] = r] ELSE diag
      /\ rec' = [rec EXCEPT ![r] = rec[r] + 1]
      /\ pc' = [pc EXCEPT ![l] = "publish"]
      /\ pc[l] = "decide"
      /\ pc \in [Goroutines -> LanePoints \cup WriterPoints]
  BY Zenon, <1>0 DEF Decide, Go, sync, ends, TypeOK
<1>2. /\ \A j \in Lanes : Place(j)
      /\ r < nextRow /\ r < rows /\ rec[r] = c /\ done[r] = c
      /\ \A j \in Lanes \ {l} : pc[j] \in Working => at[j].row # r
  BY Zenon, <1>0, <1>1 DEF DataInv, PlaceInv, Place, Working, Before
<1>3. r \in 0 .. MaxRows - 1 /\ c \in 0 .. Cols - 1
  BY <1>0, <1>2, Types
<1> HIDE DEF r, c
<1>4. TypeOK'
  <2>0. /\ above \in [ColSet -> -1 .. MaxRows - 1] /\ rec \in [RowSet -> 0 .. Cols]
        /\ diag \in [0 .. 1 -> [ColSet -> -1 .. MaxRows - 1]]
        /\ r \in -1 .. MaxRows - 1 /\ rec[r] + 1 \in 0 .. Cols
    BY <1>0, <1>2, <1>3 DEF TypeOK
  <2>1. above' \in [ColSet -> -1 .. MaxRows - 1]
    BY Zenon, <1>1, <2>0
  <2>2. diag' \in [0 .. 1 -> [ColSet -> -1 .. MaxRows - 1]]
    BY Zenon, <1>1, <2>0
  <2>3. rec' \in [RowSet -> 0 .. Cols]
    BY Zenon, <1>1, <2>0
  <2>4. pc' \in [Goroutines -> LanePoints \cup WriterPoints]
    BY Zenon, <1>1 DEF LanePoints
  <2> QED
    BY Zenon, <1>0, <1>1, <2>1, <2>2, <2>3, <2>4 DEF TypeOK
<1>5. RowInv' /\ CarrierInv'
  BY Zenon, <1>0, DecideData
<1>6. PlaceInv'
  <2> SUFFICES ASSUME NEW k \in Lanes PROVE Place(k)'
    BY Zenon DEF PlaceInv
  <2>0. \A j \in Lanes : pc'[j] \in Working => pc[j] \in Working
    BY Zenon, <1>1 DEF Working, Before
  <2>1. CASE k = l
    <3>1. rec'[r] = c + 1 /\ pc'[l] = "publish" /\ at'[l].row = r /\ at'[l].col = c
      BY Zenon, <1>0, <1>1, <1>2, <1>3 DEF TypeOK, RowSet, r, c
    <3>2. "publish" \in LanePoints /\ "publish" \notin Before /\ "publish" \notin Looking \cup Seen
      BY Zenon DEF LanePoints, Before, Looking, Seen
    <3> QED
      BY Zenon, <1>1, <1>2, <2>0, <2>1, <3>1, <3>2 DEF Place
  <2>2. CASE k # l
    <3>1. pc'[k] = pc[k] /\ at'[k] = at[k] /\ Place(k)
      BY Zenon, <1>1, <1>2, <2>2
    <3>2. pc[k] \in Working => rec'[at[k].row] = rec[at[k].row]
      BY <1>0, <1>1, <1>2, <2>2, <3>1, Types DEF Place, RowSet, TypeOK
    <3> QED
      BY Zenon, <1>1, <2>0, <2>2, <3>1, <3>2 DEF Place
  <2> QED
    BY Zenon, <2>1, <2>2
<1>7. WriterInv'
  <2>1. pc'[Writer] = pc[Writer]
    BY Zenon, <1>1
  <2> QED
    BY Zenon, <1>0, <1>1, <2>1 DEF DataInv, WriterInv
<1>8. SyncInv'
  BY Zenon, <1>0, <1>1, QuietSync DEF Inside, Counted, Waker
<1>9. EndInv'
  <2>1. fails \in Nat /\ (aborted => fails > 0)
    BY Zenon, <1>0 DEF EndInv, TypeOK
  <2>2. /\ pc[l] # "idle" /\ at'[Writer] = at[Writer] /\ UNCHANGED <<rows, writeErr, result>>
        /\ fails' \in Nat /\ fails' >= fails /\ err \subseteq err'
        /\ "publish" \in {"fail", "abort", "broadcast"} \/ aborted' \/ err' # err => fails' > 0
    BY <1>0, <1>1, <2>1
  <2> QED
    BY <1>0, <1>1, <2>2, LaneEnd, Zenon
<1> QED
  BY Zenon, <1>4, <1>5, <1>6, <1>7, <1>8, <1>9 DEF EncInv, DataInv

\* publishRowProgress stores the count: the publisher is the waker of everybody
\* the row is now far enough for.
LEMMA PublishStep ==
  ASSUME EncInv, NEW l \in Lanes, Publish(l)
  PROVE  EncInv'
<1> USE Basics
<1> DEFINE r == at[l].row
           c == at[l].col
<1>0. TypeOK /\ DataInv /\ SyncInv /\ EndInv
  BY Zenon DEF EncInv
<1>1. /\ UNCHANGED <<rows, nextRow, aborted, waiters, mu, parked, above, diag, rec, at, spin>>
      /\ UNCHANGED <<err, writeErr, written, frames, fails, result>>
      /\ done' = [done EXCEPT ![r] = c + 1]
      /\ pc' = [pc EXCEPT ![l] = "waiters"]
      /\ pc[l] = "publish"
      /\ pc \in [Goroutines -> LanePoints \cup WriterPoints]
      /\ done \in [RowSet -> 0 .. Cols]
  BY Zenon, <1>0 DEF Publish, Go, data, ends, TypeOK
<1>2. /\ \A j \in Lanes : Place(j)
      /\ r < nextRow /\ r < rows /\ rec[r] = c + 1 /\ done[r] = c
      /\ \A j \in Lanes \ {l} : pc[j] \in Working => at[j].row # r
  BY Zenon, <1>0, <1>1 DEF DataInv, PlaceInv, Place, Working, Before, Looking, Seen
<1>3. r \in 0 .. MaxRows - 1 /\ c \in 0 .. Cols - 1
  BY <1>0, <1>2, Types
<1> HIDE DEF r, c
<1>4. /\ done' \in [RowSet -> 0 .. Cols]
      /\ done'[r] = c + 1 /\ \A q \in RowSet \ {r} : done'[q] = done[q]
      /\ \A q \in RowSet : done'[q] \in Int /\ done[q] \in Int /\ done'[q] >= done[q]
      /\ \A q \in RowSet : done[q] = Cols => done'[q] = Cols
  BY <1>1, <1>2, <1>3 DEF RowSet
<1>5. TypeOK'
  <2>1. pc' \in [Goroutines -> LanePoints \cup WriterPoints]
    BY Zenon, <1>1 DEF LanePoints
  <2> QED
    BY Zenon, <1>0, <1>1, <1>4, <2>1 DEF TypeOK
<1>6. RowInv'
  <2>1. /\ \A q \in RowSet : done[q] <= rec[q] /\ (q >= nextRow => rec[q] = 0)
        /\ \A q \in RowSet \ {0} : rec[q] > 0 => done[q - 1] >= Lower(rec[q] + 1, Cols)
        /\ \A p, q \in RowSet : p < q => rec[q] <= rec[p]
        /\ \A q \in RowSet : rec[q] \in 0 .. Cols
    BY Zenon, <1>0, Types DEF DataInv, RowInv, RowSet
  <2>2. ASSUME NEW q \in RowSet PROVE done'[q] <= rec'[q]
    BY <1>1, <1>2, <1>3, <1>4, <2>1
  <2>3. ASSUME NEW q \in RowSet \ {0}, rec[q] > 0 PROVE done'[q - 1] >= Lower(rec[q] + 1, Cols)
    <3>1. q - 1 \in RowSet /\ done[q - 1] >= Lower(rec[q] + 1, Cols) /\ Lower(rec[q] + 1, Cols) \in Int
      BY <2>1, <2>3 DEF RowSet, Lower
    <3> QED
      BY <1>4, <3>1
  <2> QED
    BY Zenon, <1>1, <2>1, <2>2, <2>3 DEF RowInv
<1>7. CarrierInv'
  BY Zenon, <1>0, <1>1 DEF DataInv, CarrierInv
<1>8. PlaceInv'
  <2> SUFFICES ASSUME NEW k \in Lanes PROVE Place(k)'
    BY Zenon DEF PlaceInv
  <2>0. \A j \in Lanes : pc'[j] \in Working => pc[j] \in Working
    BY Zenon, <1>1 DEF Working, Before
  <2>1. CASE k = l
    <3>1. pc'[l] = "waiters" /\ at'[l].row = r /\ at'[l].col = c
      BY Zenon, <1>1 DEF r, c
    <3>2. "waiters" \in LanePoints /\ "waiters" \notin Before /\ "waiters" \notin Looking \cup Seen
      BY Zenon DEF LanePoints, Before, Looking, Seen
    <3> QED
      BY Zenon, <1>1, <1>2, <1>4, <2>0, <2>1, <3>1, <3>2 DEF Place
  <2>2. CASE k # l
    <3>1. pc'[k] = pc[k] /\ at'[k] = at[k] /\ Place(k)
      BY Zenon, <1>1, <1>2, <2>2
    <3>2. at[k].row \in 0 .. MaxRows /\ at[k].col \in 0 .. Cols - 1 /\ rows \in 0 .. MaxRows
      BY Zenon, <1>0, Types
    <3>3. pc[k] \in Working => done'[at[k].row] = done[at[k].row]
      BY SMTT(30), <1>2, <1>4, <2>2, <3>1, <3>2 DEF Place, RowSet
    <3>4. pc[k] \in Seen \cup {"decide"} /\ at[k].row > 0 => done'[at[k].row - 1] >= Lower(at[k].col + 2, Cols)
      <4> SUFFICES ASSUME pc[k] \in Seen \cup {"decide"}, at[k].row > 0
                   PROVE  done'[at[k].row - 1] >= Lower(at[k].col + 2, Cols)
        BY Zenon
      <4>1. /\ done[at[k].row - 1] >= Lower(at[k].col + 2, Cols) /\ at[k].row - 1 \in RowSet
            /\ Lower(at[k].col + 2, Cols) \in Int
        BY <3>1, <3>2 DEF Place, RowSet, Lower
      <4> QED
        BY <1>4, <4>1
    <3> QED
      BY Zenon, <1>1, <2>0, <2>2, <3>1, <3>3, <3>4 DEF Place
  <2> QED
    BY Zenon, <2>1, <2>2
<1>9. WriterInv'
  <2>1. pc'[Writer] = pc[Writer] /\ at'[Writer] = at[Writer] /\ at[Writer].row \in 0 .. MaxRows
        /\ rows \in 0 .. MaxRows
    BY Zenon, <1>0, <1>1, Types
  <2>2. pc[Writer] \in Seen \cup {"write"} => at[Writer].row \in RowSet /\ done'[at[Writer].row] = Cols
    BY <1>0, <1>4, <2>1 DEF DataInv, WriterInv, RowSet
  <2>3. \A q \in RowSet : q < at[Writer].row => done'[q] = Cols
    BY Zenon, <1>0, <1>4 DEF DataInv, WriterInv
  <2> QED
    BY Zenon, <1>0, <1>1, <2>1, <2>2, <2>3 DEF DataInv, WriterInv
<1>10. SyncInv'
  <2>1. \A k \in Goroutines : pc'[k] \in Inside <=> mu' = k
    BY Zenon, <1>0, <1>1 DEF SyncInv, Inside
  <2>2. waiters' = Cardinality(Registered')
    <3>1. Cardinality(Registered') = Cardinality(Registered)
      BY ZenonT(60), <1>1, CountMoves DEF Counted
    <3> QED
      BY Zenon, <1>0, <1>1, <3>1 DEF SyncInv
  <2>3. \A k \in parked' : pc'[k] = "lock"
    BY Zenon, <1>0, <1>1 DEF SyncInv, TypeOK
  <2>4. \A k \in Goroutines : k \in parked' \/ pc'[k] = "park" => \E h \in Goroutines \ {k} : pc'[h] \in Waker
    BY Zenon, <1>0, <1>1, <2>3 DEF Waker
  <2> QED
    BY Zenon, <2>1, <2>2, <2>3, <2>4 DEF SyncInv, Asleep
<1>11. EndInv'
  <2>1. fails \in Nat /\ (aborted => fails > 0)
    BY Zenon, <1>0 DEF EndInv, TypeOK
  <2>2. /\ pc[l] # "idle" /\ at'[Writer] = at[Writer] /\ UNCHANGED <<rows, writeErr, result>>
        /\ fails' \in Nat /\ fails' >= fails /\ err \subseteq err'
        /\ "waiters" \in {"fail", "abort", "broadcast"} \/ aborted' \/ err' # err => fails' > 0
    BY <1>0, <1>1, <2>1
  <2> QED
    BY <1>0, <1>1, <2>2, LaneEnd, Zenon
<1> QED
  BY Zenon, <1>5, <1>6, <1>7, <1>8, <1>9, <1>10, <1>11 DEF EncInv, DataInv

\* The rest of publishRowProgress, and the next superblock: a publisher that
\* sees no waiter leaves nobody behind.
LEMMA WakeStep ==
  ASSUME EncInv, NEW l \in Lanes, Waiting(l) \/ Wake(l)
  PROVE  EncInv'
<1> USE Basics
<1> DEFINE r == at[l].row
           c == at[l].col
           b == pc'[l]
<1>0. TypeOK /\ DataInv /\ SyncInv /\ EndInv
  BY Zenon DEF EncInv
<1>1. /\ UNCHANGED <<rows, done, nextRow, aborted, waiters, mu, above, diag, rec>>
      /\ UNCHANGED <<err, writeErr, written, frames, fails, result>>
      /\ pc' = [pc EXCEPT ![l] = b]
      /\ pc[l] \in {"waiters", "wake"}
      /\ pc \in [Goroutines -> LanePoints \cup WriterPoints]
      /\ at \in [Goroutines -> [row : 0 .. MaxRows, col : ColSet]] /\ spin \in [Goroutines -> Nat]
  BY Zenon, <1>0 DEF Waiting, Wake, Advance, Go, sync, data, ends, TypeOK
<1>2. \/ b = "wake" /\ UNCHANGED <<at, spin>>
      \/ /\ c + 1 < Cols /\ b = Enter(r)
         /\ at' = [at EXCEPT ![l].col = @ + 1] /\ spin' = [spin EXCEPT ![l] = 0]
      \/ b = "check" /\ UNCHANGED <<at, spin>>
  BY Zenon, <1>0 DEF Waiting, Wake, Advance, Go, TypeOK
<1>3. \/ b = "wake" /\ parked' = parked
      \/ waiters = 0 /\ parked' = parked
      \/ mu = Free /\ parked' = {}
  <2>1. waiters \in Nat
    BY Zenon, <1>0, Counting
  <2> QED
    BY <1>0, <2>1 DEF Waiting, Wake, Go, sync, TypeOK
<1>4. /\ \A j \in Lanes : Place(j)
      /\ r < nextRow /\ r < rows /\ rec[r] = c + 1 /\ done[r] = c + 1
      /\ \A j \in Lanes \ {l} : pc[j] \in Working => at[j].row # r
  BY Zenon, <1>0, <1>1 DEF DataInv, PlaceInv, Place, Working, Before, Looking, Seen
<1>5. r \in 0 .. MaxRows - 1 /\ c \in 0 .. Cols - 1 /\ b \in {"wake", "check", "decide", "poll"}
  BY <1>0, <1>2, <1>4, Types DEF Enter
<1>6. /\ \A j \in Goroutines \ {l} : pc'[j] = pc[j] /\ at'[j] = at[j]
      /\ at'[l].row = r
      /\ b \in {"decide", "poll"} => at'[l].col = c + 1 /\ c + 1 < Cols
      /\ b = "wake" => at'[l].col = c
      /\ b = "poll" => r > 0
      /\ b = "decide" => r = 0
      /\ pc'[l] = b
  BY <1>1, <1>2, <1>5 DEF Enter
<1>7. at' \in [Goroutines -> [row : 0 .. MaxRows, col : ColSet]] /\ spin' \in [Goroutines -> Nat]
  <2>1. CASE at' = [at EXCEPT ![l].col = @ + 1] /\ c + 1 < Cols
    <3>1. c + 1 \in ColSet
      BY <1>5, <2>1 DEF ColSet
    <3> QED
      BY <1>1, <1>2, <2>1, <3>1
  <2> QED
    BY Zenon, <1>1, <1>2, <2>1
<1> HIDE DEF r, c, b
<1>8. TypeOK'
  <2>1. b \in LanePoints \cup WriterPoints /\ parked' \in SUBSET Goroutines
    BY Zenon, <1>0, <1>3, <1>5 DEF LanePoints, WriterPoints, Looking, TypeOK
  <2> QED
    BY Zenon, <1>0, <1>1, <1>7, <2>1 DEF TypeOK
<1>9. RowInv' /\ CarrierInv'
  BY Zenon, <1>0, <1>1 DEF DataInv, RowInv, CarrierInv
<1>10. PlaceInv'
  <2> SUFFICES ASSUME NEW k \in Lanes PROVE Place(k)'
    BY Zenon DEF PlaceInv
  <2>0. \A j \in Lanes : pc'[j] \in Working => pc[j] \in Working /\ at'[j].row = at[j].row
    BY Zenon, <1>1, <1>6 DEF Working, Before, r
  <2>1. CASE k # l
    <3>1. pc'[k] = pc[k] /\ at'[k] = at[k] /\ Place(k)
      BY Zenon, <1>4, <1>6, <2>1
    <3> QED
      BY Zenon, <1>1, <2>0, <3>1 DEF Place
  <2>2. CASE k = l
    <3>1. /\ b \in LanePoints /\ b \notin Seen
          /\ b \in Working <=> b # "check"
          /\ b \in Looking <=> b = "poll"
          /\ b \in Before <=> b \in {"poll", "decide"}
      BY Zenon, <1>5 DEF LanePoints, Working, Before, Looking, Seen
    <3>2. r \in Int /\ c \in Int
      BY <1>5
    <3>3. \A j \in Lanes \ {l} : pc'[j] \in Working => at'[j].row # r
      BY Zenon, <1>4, <2>0
    <3> QED
      BY <1>1, <1>4, <1>5, <1>6, <2>2, <3>1, <3>2, <3>3 DEF Place
  <2> QED
    BY Zenon, <2>1, <2>2
<1>11. WriterInv'
  <2>1. pc'[Writer] = pc[Writer] /\ at'[Writer] = at[Writer]
    BY Zenon, <1>6
  <2> QED
    BY Zenon, <1>0, <1>1, <2>1 DEF DataInv, WriterInv
<1>12. SyncInv'
  <2>1. \A k \in Goroutines : pc'[k] \in Inside <=> mu' = k
    BY Zenon, <1>0, <1>1, <1>5, <1>6 DEF SyncInv, Inside
  <2>2. waiters' = Cardinality(Registered')
    <3>1. Cardinality(Registered') = Cardinality(Registered)
      BY Zenon, <1>1, <1>5, CountMoves DEF Counted
    <3> QED
      BY Zenon, <1>0, <1>1, <3>1 DEF SyncInv
  <2>3. \A k \in parked' : pc'[k] = "lock"
    BY Zenon, <1>0, <1>1, <1>3, <1>6 DEF SyncInv, TypeOK
  <2>4. CASE b = "wake"
    <3>1. \A k \in Goroutines : k \in parked' \/ pc'[k] = "park" => \E h \in Goroutines \ {k} : pc'[h] \in Waker
      BY Zenon, <1>6, <2>3, <2>4 DEF Waker
    <3> QED
      BY Zenon, <2>1, <2>2, <2>3, <3>1 DEF SyncInv, Asleep
  <2>5. CASE b # "wake"
    <3>1. CASE waiters = 0
      <4>1. \A k \in Goroutines : pc[k] \notin {"lock", "park"}
        BY Zenon, <1>0, <3>1, Counting DEF Counted
      <4>2. \A k \in Goroutines : k \notin parked' /\ pc'[k] # "park"
        BY Zenon, <1>0, <1>3, <1>5, <1>6, <2>3, <2>5, <4>1 DEF TypeOK
      <4> QED
        BY Zenon, <2>1, <2>2, <2>3, <4>2 DEF SyncInv, Asleep
    <3>2. CASE mu = Free /\ parked' = {}
      <4>1. \A k \in Goroutines : k \notin parked' /\ pc'[k] # "park"
        BY Zenon, <1>1, <2>1, <3>2 DEF Inside
      <4> QED
        BY Zenon, <2>1, <2>2, <2>3, <4>1 DEF SyncInv, Asleep
    <3> QED
      BY Zenon, <1>3, <2>5, <3>1, <3>2
  <2> QED
    BY Zenon, <2>4, <2>5
<1>13. EndInv'
  <2>1. fails \in Nat /\ (aborted => fails > 0)
    BY Zenon, <1>0 DEF EndInv, TypeOK
  <2>2. /\ pc[l] # "idle" /\ at'[Writer] = at[Writer] /\ UNCHANGED <<rows, writeErr, result>>
        /\ fails' \in Nat /\ fails' >= fails /\ err \subseteq err'
        /\ b \in {"fail", "abort", "broadcast"} \/ aborted' \/ err' # err => fails' > 0
    BY <1>0, <1>1, <1>5, <1>6, <2>1
  <2> QED
    BY <1>0, <1>1, <2>2, LaneEnd, Zenon
<1> QED
  BY Zenon, <1>8, <1>9, <1>10, <1>11, <1>12, <1>13 DEF EncInv, DataInv

-----------------------------------------------------------------------------
(* The entropy pass.                                                       *)

\* The entropy pass replays a superblock of a complete row.
LEMMA WriteStep ==
  ASSUME EncInv, Write \/ WriteFails \/ join
  PROVE  EncInv'
<1> USE Basics
<1> DEFINE r == at[Writer].row
           c == at[Writer].col
           b == pc'[Writer]
<1>0. TypeOK /\ DataInv /\ SyncInv /\ EndInv
  BY Zenon DEF EncInv
<1>1. /\ UNCHANGED <<rows, done, nextRow, aborted, waiters, mu, parked, above, diag, rec>>
      /\ UNCHANGED <<err, writeErr, frames>>
      /\ pc' = [pc EXCEPT ![Writer] = b]
      /\ pc[Writer] \in {"write", "join"}
      /\ pc \in [Goroutines -> LanePoints \cup WriterPoints]
      /\ at \in [Goroutines -> [row : 0 .. MaxRows, col : ColSet]] /\ spin \in [Goroutines -> Nat]
      /\ fails \in Nat /\ written \in Nat /\ r \in 0 .. MaxRows /\ c \in 0 .. Cols - 1
      /\ rows \in 0 .. MaxRows
  BY Zenon, <1>0, Types DEF Write, WriteFails, join, Go, sync, data, TypeOK
<1>2. \/ /\ pc[Writer] = "write" /\ written' = written + 1 /\ UNCHANGED <<fails, result>>
         /\ at' = [at EXCEPT ![Writer] =
                     IF c + 1 < Cols THEN [row |-> r, col |-> c + 1] ELSE [row |-> r + 1, col |-> 0]]
         /\ spin' = [spin EXCEPT ![Writer] = 0]
         /\ b = IF c + 1 = Cols /\ r + 1 = rows THEN "join" ELSE "poll"
      \/ /\ pc[Writer] = "write" /\ b = "abort" /\ fails' = fails + 1
         /\ UNCHANGED <<at, spin, written, result>>
      \/ /\ pc[Writer] = "join" /\ b = "idle" /\ UNCHANGED <<at, spin, written, fails>>
         /\ result' = (IF writeErr \/ err # {} THEN "error" ELSE "ok")
         /\ \A l \in Lanes : pc[l] = "idle"
  BY Zenon, <1>0 DEF Write, WriteFails, join, Go, TypeOK
<1>3. /\ pc[Writer] = "write" => r < rows /\ done[r] = Cols
      /\ r <= rows /\ \A q \in RowSet : q < r => done[q] = Cols
      /\ written = r * Cols + c
      /\ pc[Writer] = "join" /\ ~writeErr => r = rows /\ c = 0
  BY Zenon, <1>0 DEF DataInv, WriterInv
<1> HIDE DEF r, c, b
<1>4. b \in {"join", "poll", "abort", "idle"}
  BY Zenon, <1>2
<1>5. TypeOK'
  <2>1. at' \in [Goroutines -> [row : 0 .. MaxRows, col : ColSet]] /\ spin' \in [Goroutines -> Nat]
    <3>1. CASE UNCHANGED <<at, spin>>
      BY Zenon, <1>1, <3>1
    <3>2. CASE pc[Writer] = "write" /\ ~UNCHANGED <<at, spin>>
      <4>1. c + 1 < Cols => [row |-> r, col |-> c + 1] \in [row : 0 .. MaxRows, col : ColSet]
        BY <1>1 DEF ColSet
      <4>2. [row |-> r + 1, col |-> 0] \in [row : 0 .. MaxRows, col : ColSet]
        BY <1>1, <1>3, <3>2 DEF ColSet
      <4> QED
        BY <1>1, <1>2, <3>2, <4>1, <4>2
    <3> QED
      BY Zenon, <1>2, <3>1, <3>2
  <2>2. written' \in Nat /\ fails' \in Nat /\ result' \in {"none", "ok", "error"}
    BY <1>0, <1>1, <1>2 DEF TypeOK
  <2>3. b \in LanePoints \cup WriterPoints
    BY Zenon, <1>4 DEF LanePoints, WriterPoints, Looking
  <2> QED
    BY Zenon, <1>0, <1>1, <2>1, <2>2, <2>3 DEF TypeOK
<1>6. RowInv' /\ CarrierInv'
  BY Zenon, <1>0, <1>1 DEF DataInv, RowInv, CarrierInv
<1>7. PlaceInv'
  <2>1. \A k \in Lanes : pc'[k] = pc[k] /\ at'[k] = at[k]
    BY Zenon, <1>1, <1>2
  <2> QED
    BY <1>0, <1>1, <2>1 DEF DataInv, PlaceInv, Place
<1>8. WriterInv'
  <2>1. CASE UNCHANGED <<at, written>>
    <3>1. /\ b \in WriterPoints /\ b \notin Looking \cup Seen \cup {"write"}
          /\ b # "join" /\ pc'[Writer] = b
      BY <1>1, <1>2, <1>3, <2>1 DEF WriterPoints, Looking, Seen
    <3> QED
      BY Zenon, <1>0, <1>1, <2>1, <3>1 DEF DataInv, WriterInv
  <2>2. CASE ~UNCHANGED <<at, written>>
    <3>1. /\ pc[Writer] = "write" /\ written' = written + 1 /\ pc'[Writer] = b
          /\ b = IF c + 1 = Cols /\ r + 1 = rows THEN "join" ELSE "poll"
          /\ at'[Writer] = IF c + 1 < Cols THEN [row |-> r, col |-> c + 1] ELSE [row |-> r + 1, col |-> 0]
      BY Zenon, <1>1, <1>2, <2>2
    <3>2. b \in WriterPoints /\ b \notin Seen \cup {"write"}
      BY Zenon, <3>1 DEF WriterPoints, Looking, Seen
    <3>3. CASE c + 1 < Cols
      <4>1. at'[Writer].row = r /\ at'[Writer].col = c + 1 /\ b = "poll"
        BY <1>1, <3>1, <3>3
      <4>2. written' = r * Cols + (c + 1)
        BY <1>1, <1>3, <3>1
      <4> QED
        BY Zenon, <1>1, <1>3, <3>1, <3>2, <4>1, <4>2 DEF WriterInv
    <3>4. CASE c + 1 = Cols
      <4>1. at'[Writer].row = r + 1 /\ at'[Writer].col = 0
        BY <1>1, <3>1, <3>4
      <4>2. written' = (r + 1) * Cols + 0
        <5>1. (r + 1) * Cols = r * Cols + Cols
          BY <1>1
        <5>2. r * Cols \in Int
          BY <1>1
        <5> QED
          BY <1>1, <1>3, <3>1, <3>4, <5>1, <5>2
      <4>3. \A q \in RowSet : q < r + 1 => done[q] = Cols
        <5>1. done[r] = Cols /\ \A q \in RowSet : q < r => done[q] = Cols
          BY Zenon, <1>3, <3>1
        <5>2. r \in Int /\ \A q \in RowSet : q \in Int
          BY <1>1 DEF RowSet
        <5>3. \A q \in RowSet : q < r + 1 => q < r \/ q = r
          BY <5>2
        <5> QED
          BY Zenon, <5>1, <5>3
      <4>4. r + 1 <= rows /\ (b = "poll" => r + 1 < rows) /\ (b = "join" => r + 1 = rows)
        BY <1>1, <1>3, <3>1, <3>4
      <4>5. b \in Looking => b = "poll"
        BY Zenon, <3>1 DEF Looking
      <4> QED
        BY Zenon, <1>1, <3>1, <3>2, <4>1, <4>2, <4>3, <4>4, <4>5 DEF WriterInv
    <3> QED
      BY <1>1, <3>3, <3>4
  <2> QED
    BY Zenon, <2>1, <2>2
<1>9. SyncInv'
  <2>1. \A k \in Goroutines \ {Writer} : at'[k] = at[k]
    BY Zenon, <1>1, <1>2
  <2>2. pc[Writer] \notin Inside \cup Counted \cup Waker /\ b \notin Inside \cup Counted
    BY Zenon, <1>1, <1>4 DEF Inside, Counted, Waker
  <2> QED
    BY Zenon, <1>0, <1>1, <2>1, <2>2, QuietSync
<1>10. EndInv'
  <2>1. /\ pc'[Writer] = b /\ b # "broadcast" /\ \A l \in Lanes : pc'[l] = pc[l]
        /\ fails' \in Nat /\ fails' >= fails /\ (b = "abort" => fails' > 0)
    BY <1>1, <1>2
  <2>2. aborted' \/ writeErr' \/ err' # {} => fails' > 0
    BY <1>0, <1>1, <2>1 DEF EndInv
  <2>3. \A g \in Goroutines : pc'[g] \in {"fail", "abort", "broadcast"} => fails' > 0
    BY <1>0, <1>1, <1>4, <2>1 DEF EndInv
  <2>4. result = "none"
    BY Zenon, <1>0, <1>1 DEF EndInv
  <2>5. CASE b = "idle"
    <3>1. at' = at /\ result' = (IF writeErr \/ err # {} THEN "error" ELSE "ok") /\ pc[Writer] = "join"
          /\ \A l \in Lanes : pc[l] = "idle"
      BY Zenon, <1>2, <2>5
    <3>2. result' = "ok" => at'[Writer].row = rows' /\ at'[Writer].col = 0
      BY Zenon, <1>1, <1>3, <3>1 DEF r, c
    <3>3. result' = "error" => writeErr' \/ err' # {}
      BY Zenon, <1>1, <3>1
    <3> QED
      BY Zenon, <2>1, <2>2, <2>3, <2>5, <3>1, <3>2, <3>3 DEF EndInv
  <2>6. CASE b # "idle"
    <3>1. result' = "none"
      BY Zenon, <1>2, <2>4, <2>6
    <3> QED
      BY Zenon, <2>1, <2>2, <2>3, <2>6, <3>1 DEF EndInv
  <2> QED
    BY Zenon, <2>5, <2>6
<1> QED
  BY Zenon, <1>5, <1>6, <1>7, <1>8, <1>9, <1>10 DEF EncInv, DataInv

-----------------------------------------------------------------------------
(* A frame starts, and the first state.                                    *)

\* Nobody runs: nothing is counted, parked or locked.
LEMMA Quiet ==
  ASSUME EncInv, pc[Writer] = "idle"
  PROVE  /\ \A g \in Goroutines : pc[g] = "idle"
         /\ waiters = 0 /\ parked = {} /\ mu = Free
<1> USE Basics
<1>1. TypeOK /\ SyncInv /\ EndInv
  BY Zenon DEF EncInv
<1>2. \A g \in Goroutines : pc[g] = "idle"
  BY Zenon, <1>1 DEF EndInv
<1>3. parked = {} /\ mu = Free
  BY Zenon, <1>1, <1>2 DEF SyncInv, TypeOK, Inside
<1>4. Registered = {}
  BY Zenon, <1>2 DEF Registered, Counted
<1>5. waiters = 0
  BY Zenon, <1>1, <1>4, FS_EmptySet DEF SyncInv
<1> QED
  BY Zenon, <1>2, <1>3, <1>5

\* Everything reset and nobody at work: what Init and start have in common.
Fresh ==
  /\ rows \in 0 .. MaxRows
  /\ done = [r \in RowSet |-> 0] /\ rec = [r \in RowSet |-> 0]
  /\ nextRow = 0 /\ aborted = FALSE
  /\ above = [c \in ColSet |-> Unset]
  /\ diag = [p \in 0 .. 1 |-> [c \in ColSet |-> Unset]]
  /\ at = [g \in Goroutines |-> [row |-> 0, col |-> 0]]
  /\ spin = [g \in Goroutines |-> 0]
  /\ err = {} /\ writeErr = FALSE /\ written = 0 /\ result = "none"
  /\ waiters = 0 /\ parked = {} /\ mu = Free
  /\ frames \in Nat /\ fails \in Nat
  /\ pc \in [Goroutines -> {"idle", "check", "poll"}]
  /\ \A l \in Lanes : pc[l] # "poll"
  /\ \/ pc[Writer] = "poll" /\ rows > 0
     \/ \A g \in Goroutines : pc[g] = "idle"

LEMMA FreshInv == ASSUME Fresh PROVE EncInv
<1> USE Basics
<1>1. \A g \in Goroutines : pc[g] \in {"idle", "check", "poll"} /\ at[g].row = 0 /\ at[g].col = 0
  BY Zenon DEF Fresh
<1>2. TypeOK
  <2>1. pc \in [Goroutines -> LanePoints \cup WriterPoints]
    BY Zenon DEF Fresh, LanePoints, WriterPoints, Looking
  <2>2. above \in [ColSet -> -1 .. MaxRows - 1] /\ diag \in [0 .. 1 -> [ColSet -> -1 .. MaxRows - 1]]
    BY DEF Fresh, Unset
  <2>3. at \in [Goroutines -> [row : 0 .. MaxRows, col : ColSet]]
    BY DEF Fresh, ColSet
  <2>4. done \in [RowSet -> 0 .. Cols] /\ rec \in [RowSet -> 0 .. Cols] /\ spin \in [Goroutines -> Nat]
    BY DEF Fresh
  <2> QED
    BY Zenon, <2>1, <2>2, <2>3, <2>4 DEF Fresh, TypeOK
<1>3. \A r \in RowSet : r \in Int /\ r >= 0 /\ done[r] = 0 /\ rec[r] = 0
  BY DEF Fresh, RowSet
<1>4. RowInv
  BY <1>3 DEF RowInv
<1>5. CarrierInv
  <2>1. \A c \in ColSet : c \in Int /\ c >= 0 /\ above[c] = Unset
    BY DEF Fresh, ColSet
  <2>2. \A p \in 0 .. 1, c \in ColSet : diag[p][c] = Unset
    BY Zenon DEF Fresh
  <2> QED
    BY <1>3, <2>1, <2>2 DEF CarrierInv
<1>6. PlaceInv
  <2>1. \A l \in Lanes : pc[l] \in LanePoints /\ pc[l] \notin Working
    BY Zenon, <1>1 DEF Fresh, LanePoints, Working, Before, Looking, Seen
  <2> QED
    BY Zenon, <2>1 DEF PlaceInv, Place, Working, Before
<1>7. WriterInv
  <2>1. /\ pc[Writer] \in WriterPoints /\ pc[Writer] \notin Seen \cup {"write", "join"}
        /\ pc[Writer] \in Looking => pc[Writer] = "poll"
    BY Zenon DEF Fresh, WriterPoints, Looking, Seen
  <2>2. pc[Writer] = "poll" => rows > 0
    BY Zenon, <1>1 DEF Fresh
  <2>3. 0 * Cols + 0 = 0 /\ rows \in Nat /\ written = 0
    BY DEF Fresh
  <2> QED
    BY <1>1, <1>3, <2>1, <2>2, <2>3 DEF WriterInv
<1>8. SyncInv
  <2>1. \A g \in Goroutines : pc[g] \notin Inside /\ pc[g] \notin Counted /\ pc[g] # "park"
    BY Zenon, <1>1 DEF Inside, Counted
  <2>2. Registered = {}
    BY Zenon, <2>1 DEF Registered
  <2>3. waiters = Cardinality(Registered)
    BY Zenon, <2>2, FS_EmptySet DEF Fresh
  <2>4. \A g \in Goroutines : g \notin parked /\ mu # g
    BY Zenon DEF Fresh
  <2> QED
    BY Zenon, <2>1, <2>3, <2>4 DEF Fresh, SyncInv, Asleep
<1>9. EndInv
  BY Zenon, <1>1 DEF Fresh, EndInv
<1> QED
  BY Zenon, <1>2, <1>4, <1>5, <1>6, <1>7, <1>8, <1>9 DEF EncInv, DataInv

LEMMA InitInv == Init => EncInv
<1> SUFFICES ASSUME Init PROVE Fresh
  BY Zenon, FreshInv
<1> QED
  BY Basics DEF Init, Fresh, RowSet, ColSet

LEMMA StartStep ==
  ASSUME EncInv, start
  PROVE  EncInv'
<1> USE Basics
<1>1. pc[Writer] = "idle" /\ TypeOK
  BY Zenon DEF start, EncInv
<1>2. waiters = 0 /\ parked = {} /\ mu = Free
  BY Zenon, <1>1, Quiet
<1>3. Fresh'
  <2>1. PICK n \in 2 .. MaxRows, launched \in SUBSET Lanes :
          /\ rows' = n
          /\ pc' = [g \in Goroutines |->
                      IF g = Writer THEN "poll" ELSE IF g \in launched THEN "check" ELSE "idle"]
    BY Zenon DEF start
  <2>2. /\ rows' \in 0 .. MaxRows /\ rows' > 0 /\ pc'[Writer] = "poll"
        /\ pc' \in [Goroutines -> {"idle", "check", "poll"}]
        /\ \A l \in Lanes : pc'[l] # "poll"
    BY <2>1
  <2>3. frames' \in Nat /\ fails' \in Nat
    BY <1>1 DEF start, TypeOK
  <2> QED
    BY Zenon, <1>2, <2>2, <2>3 DEF start, Fresh, RowSet, ColSet
<1>4. Fresh' => EncInv'
  BY FreshInv, PTL
<1> QED
  BY Zenon, <1>3, <1>4

-----------------------------------------------------------------------------
(* Every step, and what follows.                                           *)

LEMMA NextInv ==
  ASSUME EncInv, [Next]_vars
  PROVE  EncInv'
<1> USE Basics
<1>1. ASSUME NEW g \in Goroutines, waitRowProgress(g) PROVE EncInv'
  <2>1. TypeOK /\ DataInv /\ SyncInv /\ EndInv
    BY Zenon DEF EncInv
  <2> QED
    BY Zenon, <1>1, <2>1, WaitData, WaitSync DEF EncInv
<1>2. ASSUME NEW g \in Goroutines, Steps(g) PROVE EncInv'
  BY Zenon, <1>1, <1>2, AbortStep DEF Steps
<1>3. ASSUME NEW l \in Lanes, runWorker(l) \/ DecideFails(l) PROVE EncInv'
  BY Zenon, <1>3, CheckStep, ClaimStep, DecideStep, PublishStep, WakeStep
     DEF runWorker, publishRowProgress
<1>4. CASE \E l \in Lanes : LaneSteps(l) \/ DecideFails(l)
  BY Zenon, <1>2, <1>3, <1>4 DEF LaneSteps
<1>5. CASE WriterSteps \/ WriteFails
  BY Zenon, <1>2, <1>5, WriteStep DEF WriterSteps
<1>6. CASE start
  BY Zenon, <1>6, StartStep
<1>7. CASE UNCHANGED vars
  <2>0. /\ UNCHANGED <<rows, done, nextRow, aborted, waiters, mu, parked, above, diag, rec>>
        /\ UNCHANGED <<pc, at, spin, err, writeErr, written, frames, fails, result>>
    BY Zenon, <1>7 DEF vars
  <2>1. TypeOK /\ DataInv /\ SyncInv /\ EndInv
    BY Zenon DEF EncInv
  <2>2. TypeOK' /\ EndInv'
    BY Zenon, <2>0, <2>1 DEF TypeOK, EndInv
  <2>3. PlaceInv' /\ WriterInv'
    BY Zenon, <2>0, <2>1 DEF DataInv, PlaceInv, Place, WriterInv
  <2>4. RowInv' /\ CarrierInv'
    BY Zenon, <2>0, <2>1 DEF DataInv, RowInv, CarrierInv
  <2>5. Registered' = Registered
    BY Zenon, <2>0 DEF Registered
  <2>6. SyncInv'
    BY Zenon, <2>0, <2>1, <2>5 DEF SyncInv, Asleep, Reached, AwaitedRow, Need
  <2> QED
    BY Zenon, <2>2, <2>3, <2>4, <2>6 DEF EncInv, DataInv
<1> QED
  BY Zenon, <1>4, <1>5, <1>6, <1>7 DEF Next

\* The contexts of the serial walk: row r-1 is a superblock ahead of row r, and
\* row r and the rows below have not decided this superblock.
LEMMA Carriers == ASSUME EncInv PROVE CarriersSerial
<1> USE Basics
<1> SUFFICES ASSUME NEW l \in Lanes, pc[l] = "decide", at[l].row > 0
             PROVE  /\ above[at[l].col] = at[l].row - 1
                    /\ at[l].col + 1 < Cols => above[at[l].col + 1] = at[l].row - 1
                    /\ at[l].col > 0 => diag[at[l].row % 2][at[l].col] = at[l].row - 1
  BY Zenon DEF CarriersSerial
<1> DEFINE r == at[l].row
           c == at[l].col
<1>1. TypeOK /\ RowInv /\ CarrierInv /\ Place(l)
  BY Zenon DEF EncInv, DataInv, PlaceInv
<1>2. r < rows /\ rec[r] = c /\ done[r - 1] >= Lower(c + 2, Cols)
  BY Zenon, <1>1 DEF Place, Working, Before
<1>3. r \in 1 .. MaxRows - 1 /\ c \in 0 .. Cols - 1
  BY <1>1, <1>2, Types
<1> HIDE DEF r, c
<1>4. \A q \in RowSet : q \in Int /\ rec[q] \in 0 .. Cols /\ done[q] \in 0 .. Cols /\ done[q] <= rec[q]
  BY <1>1, Types DEF RowInv, RowSet
<1>5. r \in RowSet /\ r - 1 \in RowSet
  BY <1>3 DEF RowSet
<1>6. rec[r - 1] >= Lower(c + 2, Cols)
  <2>1. Lower(c + 2, Cols) \in Int
    BY <1>3 DEF Lower
  <2> QED
    BY <1>2, <1>4, <1>5, <2>1
<1>7. \A q \in RowSet : rec[q] > c => q <= r - 1
  <2> SUFFICES ASSUME NEW q \in RowSet, rec[q] > c, q > r - 1 PROVE FALSE
    BY <1>3, <1>4
  <2>1. q = r \/ r < q
    BY <1>3, <1>4
  <2>2. rec[q] <= rec[r]
    BY <1>1, <1>4, <1>5, <2>1 DEF RowInv
  <2> QED
    BY <1>2, <1>3, <1>4, <2>2
<1>8. ASSUME NEW d \in ColSet, d \in {c, c + 1} PROVE above[d] = r - 1
  <2>1. d \in 0 .. Cols - 1 /\ above[d] \in -1 .. MaxRows - 1
    BY Zenon, <1>1, Types DEF ColSet
  <2>2. rec[r - 1] > d
    BY <1>3, <1>4, <1>5, <1>6, <1>8, <2>1 DEF Lower
  <2>3. above[d] >= r - 1
    BY Zenon, <1>1, <1>5, <2>2 DEF CarrierInv
  <2>4. above[d] # Unset /\ above[d] \in RowSet
    BY <1>3, <2>1, <2>3 DEF Unset, RowSet
  <2>5. rec[above[d]] > d
    BY Zenon, <1>1, <2>4 DEF CarrierInv
  <2>6. rec[above[d]] > c
    BY <1>3, <1>4, <1>8, <2>1, <2>4, <2>5
  <2>7. above[d] <= r - 1
    BY Zenon, <1>7, <2>4, <2>6
  <2> QED
    BY <1>3, <2>1, <2>3, <2>7
<1>9. ASSUME c > 0 PROVE diag[r % 2][c] = r - 1
  <2> DEFINE p == r % 2
             e == diag[p][c]
  <2>1. p \in 0 .. 1 /\ c \in ColSet \ {0} /\ ((r - 1) + 1) % 2 = p
    BY <1>3, <1>9 DEF ColSet
  <2>2. e \in -1 .. MaxRows - 1
    BY Zenon, <1>1, <1>3, <2>1, Types
  <2> HIDE DEF p
  <2>3. rec[r - 1] >= c
    BY <1>3, <1>4, <1>5, <1>6 DEF Lower
  <2>4. e >= r - 1
    BY Zenon, <1>1, <1>5, <2>1, <2>3 DEF CarrierInv
  <2>5. e # Unset /\ e \in RowSet
    BY <1>3, <2>2, <2>4 DEF Unset, RowSet
  <2>6. rec[e] >= c /\ (e + 1) % 2 = p
    BY Zenon, <1>1, <2>1, <2>5 DEF CarrierInv
  <2> HIDE DEF e
  <2>7. e <= r
    <3> SUFFICES ASSUME e > r PROVE FALSE
      BY <1>3, <2>2
    <3>1. e > 0 /\ e \in RowSet \ {0} /\ rec[e] > 0
      BY <1>3, <1>4, <1>9, <2>5, <2>6
    <3>2. done[e - 1] >= Lower(rec[e] + 1, Cols)
      BY Zenon, <1>1, <3>1 DEF RowInv
    <3>3. e - 1 \in RowSet /\ e - 1 >= r
      BY <1>3, <2>2, <3>1 DEF RowSet
    <3>4. rec[e - 1] >= Lower(rec[e] + 1, Cols)
      <4>1. Lower(rec[e] + 1, Cols) \in Int
        BY <1>4, <2>5 DEF Lower
      <4> QED
        BY <1>4, <3>2, <3>3, <4>1
    <3>5. rec[e - 1] > c
      BY <1>3, <1>4, <2>5, <2>6, <3>3, <3>4 DEF Lower
    <3>6. e - 1 <= r - 1
      BY Zenon, <1>7, <3>3, <3>5
    <3> QED
      BY <1>3, <2>2, <3>3, <3>6
  <2>8. e # r
    <3> SUFFICES ASSUME e = r PROVE FALSE
      BY Zenon
    <3>1. (r + 1) % 2 = r % 2
      BY Zenon, <2>6 DEF p
    <3> QED
      BY <1>3, <3>1
  <2> QED
    BY <1>3, <2>2, <2>4, <2>7, <2>8 DEF e, p
<1> QED
  BY <1>3, <1>8, <1>9 DEF r, c, ColSet

LEMMA Consequences == ASSUME EncInv PROVE ContextsSerial
<1> USE Basics
<1>0. TypeOK /\ DataInv /\ SyncInv /\ EndInv
  BY Zenon DEF EncInv
<1>1. CarriersSerial
  BY Zenon, Carriers
<1>2. ReplayComplete
  <2> SUFFICES ASSUME pc[Writer] = "write" PROVE rec[at[Writer].row] = Cols
    BY Zenon DEF ReplayComplete
  <2> DEFINE r == at[Writer].row
  <2>1. r < rows /\ done[r] = Cols
    BY Zenon, <1>0 DEF DataInv, WriterInv
  <2>2. r \in 0 .. MaxRows - 1
    BY <1>0, <2>1, Types
  <2>3. done[r] <= rec[r] /\ rec[r] \in 0 .. Cols
    BY Zenon, <1>0, <2>2, Types DEF DataInv, RowInv, RowSet
  <2> QED
    BY <2>1, <2>3
<1>3. NoLostWakeup
  <2> SUFFICES ASSUME NEW g \in parked, Reached(g) \/ aborted
               PROVE  \E h \in Goroutines \ {g} : pc[h] \in Waker
    BY Zenon DEF NoLostWakeup, Waker
  <2>1. g \in Goroutines
    BY Zenon, <1>0 DEF TypeOK
  <2> QED
    BY Zenon, <1>0, <2>1 DEF SyncInv, Asleep
<1>4. ErrorsReported
  <2>1. ASSUME result = "ok" PROVE written = rows * Cols /\ \A r \in 0 .. rows - 1 : done[r] = Cols
    <3>1. at[Writer].row = rows /\ at[Writer].col = 0
      BY Zenon, <1>0, <2>1 DEF EndInv
    <3>2. rows \in 0 .. MaxRows
      BY Zenon, <1>0 DEF TypeOK
    <3>3. written = rows * Cols + 0 /\ \A q \in RowSet : q < rows => done[q] = Cols
      BY Zenon, <1>0, <3>1 DEF DataInv, WriterInv
    <3>4. rows * Cols \in Int
      BY <3>2
    <3>5. written = rows * Cols
      BY <3>3, <3>4
    <3>6. \A r \in 0 .. rows - 1 : r \in RowSet /\ r < rows
      BY <3>2 DEF RowSet
    <3> QED
      BY Zenon, <3>3, <3>5, <3>6
  <2>2. result = "error" => fails > 0 /\ (writeErr \/ err # {})
    BY Zenon, <1>0 DEF EndInv
  <2> QED
    BY Zenon, <2>1, <2>2 DEF ErrorsReported
<1>5. QuietBetweenFrames
  BY Zenon, Quiet DEF QuietBetweenFrames
<1> QED
  BY Zenon, <1>1, <1>2, <1>3, <1>4, <1>5 DEF ContextsSerial

\* The inductive invariant holds through every frame that start, the lanes'
\* runWorker, the entropy pass, abort and join go through.
THEOREM WavefrontInvariant == Spec => []EncInv
BY InitInv, NextInv, PTL DEF Spec

\* Whatever the number of lanes, rows and columns and whichever walks fail:
\* every superblock is decided from the contexts the serial walk would have
\* left in the shared carriers, the entropy pass replays complete rows only, no
\* goroutine parked in waitRowProgress misses the publish or the abort it waits
\* for, a frame's result says whether it was coded whole, and between frames
\* nothing of the wavefront runs.
THEOREM WavefrontSerial == Spec => []ContextsSerial
BY WavefrontInvariant, Consequences, PTL
=============================================================================
