-------------------------- MODULE SurfacePoolProofs --------------------------
(***************************************************************************)
(* The free list of frame.Pool implements a set of free surfaces, for any  *)
(* number of slots and whatever callers return.                            *)
(***************************************************************************)
EXTENDS SurfacePool, FiniteSetTheorems, TLAPS

\* The free list names every unused slot, and no slot twice.
ListInv ==
  /\ \A k, m \in 0 .. top - 1 : free[k] = free[m] => k = m
  /\ \A i \in Indices : ~used[i] <=> \E k \in 0 .. top - 1 : free[k] = i

\* The inductive invariant.
PoolInv == PoolTypeOK /\ ListInv /\ NeverInvalid

-----------------------------------------------------------------------------
LEMMA CountFacts == Count \in Nat /\ Count > 0 /\ Indices = 0 .. Count - 1
  BY PoolAssumption DEF Indices

\* Slots listed once are not more than there are.
LEMMA Room ==
  ASSUME NEW n \in Nat, NEW h \in [0 .. n - 1 -> Indices],
         \A k, m \in 0 .. n - 1 : h[k] = h[m] => k = m
  PROVE  n <= Count
<1>1. IsFiniteSet(Indices) /\ Cardinality(Indices) = Count
  BY CountFacts, FS_Interval
<1>2. IsFiniteSet(0 .. n - 1) /\ Cardinality(0 .. n - 1) = n
  BY FS_Interval
<1>3. ~(Cardinality(Indices) < Cardinality(0 .. n - 1))
  BY <1>1, <1>2, FS_PigeonHole
<1> QED
  BY <1>1, <1>2, <1>3, CountFacts

LEMMA StackedFacts ==
  /\ Stacked \in [Indices -> Indices]
  /\ \A k, m \in 0 .. Count - 1 : Stacked[k] = Stacked[m] => k = m
  /\ \A i \in Indices : \E k \in 0 .. Count - 1 : Stacked[k] = i
<1>1. Stacked \in [Indices -> Indices] /\ \A k \in Indices : Stacked[k] = Count - 1 - k
  BY CountFacts DEF Stacked
<1>2. \A i \in Indices : Count - 1 - i \in 0 .. Count - 1 /\ Stacked[Count - 1 - i] = i
  BY <1>1, CountFacts
<1> QED
  BY <1>1, <1>2, CountFacts

LEMMA InitPool == PoolInit => PoolInv
<1> SUFFICES ASSUME PoolInit PROVE PoolInv
  OBVIOUS
<1>1. PoolTypeOK
  <2>1. free \in [Indices -> Indices]
    BY StackedFacts DEF PoolInit
  <2>3. top \in 0 .. Count
    BY CountFacts DEF PoolInit
  <2>2. used \in [Indices -> BOOLEAN] /\ bound \in [Indices -> Fits]
    BY PoolAssumption DEF PoolInit
  <2> QED
    BY <2>1, <2>2, <2>3 DEF PoolTypeOK, PoolInit, Results
<1>2. ListInv
  BY StackedFacts, CountFacts DEF PoolInit, ListInv
<1> QED
  BY <1>1, <1>2 DEF PoolInv, PoolInit, NeverInvalid

\* Putting distinct used slots on the list, as Release and ReleaseMany do:
\* there is room for them, and the list stays one.
Pushed(batch) ==
  [k \in Indices |-> IF k >= top /\ k < top + Len(batch) THEN batch[k - top + 1] ELSE free[k]]
Freed(batch) == [i \in Indices |-> used[i] /\ \A j \in DOMAIN batch : batch[j] # i]

LEMMA ValidDistinct ==
  ASSUME NEW batch \in Seq(Arguments), Valid(batch)
  PROVE  \A i, j \in 1 .. Len(batch) : batch[i] = batch[j] => i = j
<1>1. Len(batch) \in Nat /\ DOMAIN batch = 1 .. Len(batch)
  OBVIOUS
<1>2. ASSUME NEW i \in 1 .. Len(batch), NEW j \in 1 .. Len(batch), j < i PROVE batch[j] # batch[i]
  <2>1. j \in 1 .. i - 1
    BY <1>1, <1>2
  <2> QED
    BY <1>1, <2>1 DEF Valid
<1> QED
  BY <1>1, <1>2

LEMMA PushRoom ==
  ASSUME PoolInv, NEW batch \in Seq(Arguments), Valid(batch)
  PROVE  top + Len(batch) <= Count
<1> DEFINE n == top + Len(batch)
           h == [k \in 0 .. n - 1 |-> IF k < top THEN free[k] ELSE batch[k - top + 1]]
<1>1. top \in 0 .. Count /\ Len(batch) \in Nat /\ DOMAIN batch = 1 .. Len(batch) /\ n \in Nat
  BY CountFacts DEF PoolInv, PoolTypeOK
<1>2. \A k \in 0 .. n - 1 : k >= top => k - top + 1 \in 1 .. Len(batch)
  BY <1>1
<1>3. \A k \in 0 .. top - 1 : free[k] \in Indices /\ ~used[free[k]]
  BY <1>1, CountFacts DEF PoolInv, ListInv, PoolTypeOK
<1>4. \A j \in 1 .. Len(batch) : batch[j] \in Indices /\ used[batch[j]]
  BY <1>1 DEF Valid
<1>5. \A i, j \in 1 .. Len(batch) : batch[i] = batch[j] => i = j
  BY ValidDistinct
<1>6. h \in [0 .. n - 1 -> Indices]
  BY <1>1, <1>2, <1>3, <1>4
<1>7. \A k, m \in 0 .. n - 1 : h[k] = h[m] => k = m
  <2> SUFFICES ASSUME NEW k \in 0 .. n - 1, NEW m \in 0 .. n - 1, h[k] = h[m] PROVE k = m
    OBVIOUS
  <2>1. CASE k < top /\ m < top
    BY <2>1, <1>1 DEF PoolInv, ListInv
  <2>2. CASE k >= top /\ m >= top
    <3>1. batch[k - top + 1] = batch[m - top + 1]
      BY <2>2, <1>1
    <3>2. k - top + 1 = m - top + 1
      BY <3>1, <2>2, <1>2, <1>5
    <3> QED
      BY <3>2, <1>1
  <2>3. CASE k < top /\ m >= top
    BY <2>3, <1>1, <1>2, <1>3, <1>4
  <2>4. CASE k >= top /\ m < top
    BY <2>4, <1>1, <1>2, <1>3, <1>4
  <2> QED
    BY <2>1, <2>2, <2>3, <2>4, <1>1
<1> HIDE DEF h
<1> QED
  BY <1>1, <1>6, <1>7, Room

LEMMA PushInv ==
  ASSUME PoolInv, NEW batch \in Seq(Arguments), Valid(batch),
         free' = Pushed(batch), used' = Freed(batch), top' = top + Len(batch),
         bound' = bound, got' = "ok"
  PROVE  PoolInv'
<1>0. top + Len(batch) <= Count
  BY PushRoom
<1>1. /\ top \in 0 .. Count /\ Len(batch) \in Nat /\ DOMAIN batch = 1 .. Len(batch)
      /\ free \in [Indices -> Indices] /\ used \in [Indices -> BOOLEAN]
      /\ Count \in Nat /\ Indices = 0 .. Count - 1
  BY CountFacts DEF PoolInv, PoolTypeOK
<1>2. \A j \in 1 .. Len(batch) : batch[j] \in Indices /\ used[batch[j]]
  BY <1>1 DEF Valid
<1>3. \A i, j \in 1 .. Len(batch) : batch[i] = batch[j] => i = j
  BY ValidDistinct
<1>4. \A k \in 0 .. top - 1 : free'[k] = free[k] /\ free[k] \in Indices /\ ~used[free[k]]
  <2>1. \A k \in 0 .. top - 1 : free'[k] = free[k] /\ free[k] \in Indices
    BY <1>1 DEF Pushed
  <2> QED
    BY <2>1 DEF PoolInv, ListInv
<1>5. \A k \in top .. top + Len(batch) - 1 :
        k - top + 1 \in 1 .. Len(batch) /\ free'[k] = batch[k - top + 1]
  BY <1>0, <1>1 DEF Pushed
<1>6. PoolTypeOK'
  <2>1. free' \in [Indices -> Indices]
    <3> SUFFICES ASSUME NEW k \in Indices
                 PROVE  (IF k >= top /\ k < top + Len(batch) THEN batch[k - top + 1] ELSE free[k]) \in Indices
      BY DEF Pushed
    <3>1. k >= top /\ k < top + Len(batch) => k - top + 1 \in 1 .. Len(batch)
      BY <1>1
    <3> QED
      BY <3>1, <1>1, <1>2
  <2>2. used' \in [Indices -> BOOLEAN]
    BY <1>1, Zenon DEF Freed
  <2>3. top' \in 0 .. Count
    BY <1>0, <1>1
  <2> QED
    BY <2>1, <2>2, <2>3 DEF PoolTypeOK, PoolInv, Results
<1>7. ASSUME NEW k \in 0 .. top' - 1, NEW m \in 0 .. top' - 1, free'[k] = free'[m] PROVE k = m
  <2>1. CASE k < top /\ m < top
    <3>1. k \in 0 .. top - 1 /\ m \in 0 .. top - 1 /\ free[k] = free[m]
      BY <2>1, <1>1, <1>4, <1>7
    <3> QED
      BY <3>1 DEF PoolInv, ListInv
  <2>2. CASE k >= top /\ m >= top
    <3>1. k \in top .. top + Len(batch) - 1 /\ m \in top .. top + Len(batch) - 1
      BY <2>2, <1>1, <1>7
    <3>2. k - top + 1 = m - top + 1
      BY <3>1, <1>3, <1>5, <1>7
    <3> QED
      BY <3>1, <3>2, <1>1
  <2>3. ASSUME NEW a \in 0 .. top' - 1, NEW b \in 0 .. top' - 1, a < top, b >= top, free'[a] = free'[b]
        PROVE  FALSE
    <3>1. a \in 0 .. top - 1 /\ b \in top .. top + Len(batch) - 1
      BY <2>3, <1>1
    <3> QED
      BY <3>1, <2>3, <1>2, <1>4, <1>5
  <2> QED
    BY <2>1, <2>2, <2>3, <1>1, <1>7
<1>8. ASSUME NEW i \in Indices PROVE ~used'[i] <=> \E k \in 0 .. top' - 1 : free'[k] = i
  <2>1. used'[i] <=> used[i] /\ \A j \in 1 .. Len(batch) : batch[j] # i
    BY <1>1 DEF Freed
  <2>2. ASSUME ~used[i] PROVE \E k \in 0 .. top' - 1 : free'[k] = i
    <3>1. PICK k \in 0 .. top - 1 : free[k] = i
      BY <2>2 DEF PoolInv, ListInv
    <3>2. k \in 0 .. top' - 1 /\ free'[k] = i
      BY <3>1, <1>1, <1>4
    <3> QED
      BY <3>2
  <2>3. ASSUME NEW j \in 1 .. Len(batch), batch[j] = i PROVE \E k \in 0 .. top' - 1 : free'[k] = i
    <3>1. /\ top + j - 1 \in top .. top + Len(batch) - 1 /\ top + j - 1 \in 0 .. top' - 1
          /\ (top + j - 1) - top + 1 = j
      BY <1>1
    <3>2. free'[top + j - 1] = i
      BY <3>1, <1>5, <2>3
    <3> QED
      BY <3>1, <3>2
  <2>4. ASSUME NEW k \in 0 .. top' - 1, free'[k] = i PROVE ~used'[i]
    <3>1. CASE k < top
      <4>1. k \in 0 .. top - 1
        BY <3>1, <1>1
      <4> QED
        BY <4>1, <1>4, <2>1, <2>4
    <3>2. CASE k >= top
      <4>1. k \in top .. top + Len(batch) - 1
        BY <3>2, <1>1
      <4> QED
        BY <4>1, <1>5, <2>1, <2>4
    <3> QED
      BY <3>1, <3>2, <1>1
  <2> QED
    BY <2>1, <2>2, <2>3, <2>4
<1> QED
  BY <1>6, <1>7, <1>8 DEF PoolInv, ListInv, NeverInvalid


LEMMA ReleaseIsPush ==
  ASSUME PoolInv, NEW index \in Arguments, index \in Indices, used[index]
  PROVE  /\ <<index>> \in Seq(Arguments) /\ Valid(<<index>>) /\ Len(<<index>>) = 1
         /\ top < Count
         /\ Pushed(<<index>>) = [free EXCEPT ![top] = index]
         /\ Freed(<<index>>) = [used EXCEPT ![index] = FALSE]
<1>1. <<index>> \in Seq(Arguments) /\ Len(<<index>>) = 1 /\ DOMAIN <<index>> = {1} /\ <<index>>[1] = index
  OBVIOUS
<1>2. Valid(<<index>>)
  BY <1>1 DEF Valid
<1>3. top + 1 <= Count
  BY <1>1, <1>2, PushRoom
<1>4. /\ top \in 0 .. Count /\ free \in [Indices -> Indices] /\ used \in [Indices -> BOOLEAN]
      /\ Count \in Nat /\ Indices = 0 .. Count - 1
  BY CountFacts DEF PoolInv, PoolTypeOK
<1>5. Pushed(<<index>>) = [free EXCEPT ![top] = index]
  <2>1. \A k \in Indices : k >= top /\ k < top + 1 <=> k = top
    BY <1>4
  <2>2. Pushed(<<index>>) = [k \in Indices |-> IF k = top THEN index ELSE free[k]]
    <3>1. \A k \in Indices : (IF k >= top /\ k < top + 1 THEN <<index>>[k - top + 1] ELSE free[k])
                             = (IF k = top THEN index ELSE free[k])
      <4> SUFFICES ASSUME NEW k \in Indices, k = top PROVE k - top + 1 = 1
        BY <1>1, <2>1
      <4> QED
        BY <1>4
    <3>2. Pushed(<<index>>) = [k \in Indices |-> IF k >= top /\ k < top + 1 THEN <<index>>[k - top + 1] ELSE free[k]]
      BY <1>1 DEF Pushed
    <3> QED
      BY <3>1, <3>2, Zenon
  <2> QED
    BY <2>2, <1>4
<1>6. Freed(<<index>>) = [used EXCEPT ![index] = FALSE]
  <2>1. Freed(<<index>>) = [i \in Indices |-> used[i] /\ index # i]
    BY <1>1 DEF Freed
  <2> QED
    BY <2>1, <1>4, Zenon
<1> QED
  BY <1>1, <1>2, <1>3, <1>4, <1>5, <1>6

LEMMA BatchesAreSeqs == \A batch \in Batches : batch \in Seq(Arguments)
<1> SUFFICES ASSUME NEW n \in 0 .. MaxBatch, NEW batch \in [1 .. n -> Arguments]
             PROVE  batch \in Seq(Arguments)
  BY DEF Batches
<1> QED
  BY PoolAssumption

\* The slot on top of the list is unused, and leaves both.
LEMMA AcquireInv ==
  ASSUME PoolInv, top > 0, NEW format \in Fits,
         top' = top - 1, free' = free, used' = [used EXCEPT ![free[top - 1]] = TRUE],
         bound' = [bound EXCEPT ![free[top - 1]] = format], got' = "ok"
  PROVE  PoolInv'
<1>1. /\ top \in 0 .. Count /\ free \in [Indices -> Indices] /\ used \in [Indices -> BOOLEAN]
      /\ Count \in Nat /\ Indices = 0 .. Count - 1 /\ top - 1 \in 0 .. top - 1
      /\ free[top - 1] \in Indices /\ bound \in [Indices -> Fits]
  BY CountFacts DEF PoolInv, PoolTypeOK
<1>2. PoolTypeOK'
  <2>1. used' \in [Indices -> BOOLEAN] /\ bound' \in [Indices -> Fits]
    BY <1>1, Zenon
  <2>2. top' \in 0 .. Count
    BY <1>1
  <2> QED
    BY <1>1, <2>1, <2>2 DEF PoolTypeOK, Results
<1>3. \A k \in 0 .. top' - 1 : k \in 0 .. top - 1 /\ k # top - 1
  BY <1>1
<1>4. \A k, m \in 0 .. top' - 1 : free'[k] = free'[m] => k = m
  BY <1>3 DEF PoolInv, ListInv
<1>5. ASSUME NEW i \in Indices PROVE ~used'[i] <=> \E k \in 0 .. top' - 1 : free'[k] = i
  <2>1. used'[i] <=> used[i] \/ i = free[top - 1]
    BY <1>1, Zenon
  <2>2. ASSUME NEW k \in 0 .. top' - 1, free'[k] = i PROVE ~used'[i]
    <3>1. ~used[i]
      BY <1>3, <2>2 DEF PoolInv, ListInv
    <3>2. i # free[top - 1]
      BY <1>1, <1>3, <2>2 DEF PoolInv, ListInv
    <3> QED
      BY <2>1, <3>1, <3>2
  <2>3. ASSUME ~used'[i] PROVE \E k \in 0 .. top' - 1 : free'[k] = i
    <3>1. PICK k \in 0 .. top - 1 : free[k] = i
      BY <2>1, <2>3 DEF PoolInv, ListInv
    <3>2. k # top - 1
      BY <2>1, <2>3, <3>1
    <3>3. k \in 0 .. top' - 1
      BY <3>2, <1>1
    <3> QED
      BY <3>1, <3>3
  <2> QED
    BY <2>2, <2>3
<1> QED
  BY <1>2, <1>4, <1>5 DEF PoolInv, ListInv, NeverInvalid

\* What a step is, given the invariant: the pool's checks of its own
\* bookkeeping succeed.
Refused == got' \in Errors \ {"ErrInvalidPool"} /\ UNCHANGED <<free, used, top, bound>>
Acquired ==
  /\ top > 0 /\ top' = top - 1 /\ free' = free /\ got' = "ok"
  /\ used' = [used EXCEPT ![free[top - 1]] = TRUE]
  /\ \E format \in Fits : bound' = [bound EXCEPT ![free[top - 1]] = format]
Returned ==
  \E batch \in Seq(Arguments) :
    /\ Valid(batch) /\ free' = Pushed(batch) /\ used' = Freed(batch)
    /\ top' = top + Len(batch) /\ bound' = bound /\ got' = "ok"

LEMMA StepKinds ==
  ASSUME PoolInv, PoolNext
  PROVE  Refused \/ Acquired \/ Returned \/ ResetPool
<1>1. ASSUME NEW format \in Formats, Acquire(format) PROVE Refused \/ Acquired
  <2>1. CASE format \in Fits /\ top > 0
    <3>1. ~used[free[top - 1]] /\ free[top - 1] \in Indices
      <4>1. top - 1 \in 0 .. top - 1 /\ top - 1 \in Indices
        BY <2>1, CountFacts DEF PoolInv, PoolTypeOK
      <4>2. free[top - 1] \in Indices
        BY <4>1 DEF PoolInv, PoolTypeOK
      <4> QED
        BY <4>1, <4>2 DEF PoolInv, ListInv
    <3>2. top # 0
      BY <2>1
    <3> QED
      BY <1>1, <2>1, <3>1, <3>2 DEF Acquire, Acquired
  <2>2. CASE ~(format \in Fits /\ top > 0)
    BY <1>1, <2>2 DEF Acquire, PoolFails, Refused, Errors
  <2> QED
    BY <2>1, <2>2
<1>2. ASSUME NEW index \in Arguments, Release(index) PROVE Refused \/ Returned
  <2>1. CASE index \in Indices /\ used[index]
    <3>1. /\ <<index>> \in Seq(Arguments) /\ Valid(<<index>>) /\ Len(<<index>>) = 1
          /\ top < Count
          /\ Pushed(<<index>>) = [free EXCEPT ![top] = index]
          /\ Freed(<<index>>) = [used EXCEPT ![index] = FALSE]
      BY <2>1, ReleaseIsPush
    <3>2. ~(top >= Count)
      BY <3>1, CountFacts DEF PoolInv, PoolTypeOK
    <3>3. /\ free' = Pushed(<<index>>) /\ used' = Freed(<<index>>)
          /\ top' = top + Len(<<index>>) /\ bound' = bound /\ got' = "ok"
      BY <1>2, <2>1, <3>1, <3>2 DEF Release
    <3> QED
      BY <3>1, <3>3 DEF Returned
  <2>2. CASE index \notin Indices \/ ~used[index]
    BY <1>2, <2>2 DEF Release, PoolFails, Refused, Errors
  <2> QED
    BY <2>1, <2>2
<1>3. ASSUME NEW batch \in Batches, ReleaseMany(batch) PROVE Refused \/ Returned
  <2>0. batch \in Seq(Arguments)
    BY BatchesAreSeqs
  <2>1. CASE Valid(batch)
    <3>1. ~(top + Len(batch) > Count)
      <4>1. top + Len(batch) <= Count /\ Len(batch) \in Nat
        BY <2>0, <2>1, PushRoom
      <4> QED
        BY <4>1, CountFacts DEF PoolInv, PoolTypeOK
    <3>2. /\ free' = Pushed(batch) /\ used' = Freed(batch)
          /\ top' = top + Len(batch) /\ bound' = bound /\ got' = "ok"
      BY <1>3, <2>1, <3>1 DEF ReleaseMany, Pushed, Freed
    <3> QED
      BY <2>0, <2>1, <3>2 DEF Returned
  <2>2. CASE ~Valid(batch)
    BY <1>3, <2>2 DEF ReleaseMany, PoolFails, Refused, Errors
  <2> QED
    BY <2>1, <2>2
<1> QED
  BY <1>1, <1>2, <1>3 DEF PoolNext


LEMMA PoolStep == PoolInv /\ [PoolNext]_poolVars => PoolInv'
<1> SUFFICES ASSUME PoolInv, [PoolNext]_poolVars PROVE PoolInv'
  OBVIOUS
<1>1. CASE PoolNext
  <2>1. CASE Refused
    BY <2>1 DEF Refused, PoolInv, PoolTypeOK, ListInv, NeverInvalid, Results, Errors
  <2>2. CASE Acquired
    BY <2>2, AcquireInv DEF Acquired
  <2>3. CASE Returned
    BY <2>3, PushInv DEF Returned
  <2>4. CASE ResetPool
    <3>1. PoolTypeOK'
      <4>1. used' \in [Indices -> BOOLEAN] /\ free' \in [Indices -> Indices]
        BY <2>4, StackedFacts DEF ResetPool
      <4>2. top' \in 0 .. Count
        BY <2>4, CountFacts DEF ResetPool
      <4> QED
        BY <2>4, <4>1, <4>2 DEF ResetPool, PoolTypeOK, PoolInv, Results
    <3>2. ListInv'
      BY <2>4, StackedFacts, CountFacts DEF ResetPool, ListInv
    <3> QED
      BY <2>4, <3>1, <3>2 DEF ResetPool, PoolInv, NeverInvalid
  <2> QED
    BY <1>1, <2>1, <2>2, <2>3, <2>4, StepKinds
<1>2. CASE UNCHANGED poolVars
  BY <1>2 DEF poolVars, PoolInv, PoolTypeOK, ListInv, NeverInvalid
<1> QED
  BY <1>1, <1>2

LEMMA PoolInvariant == PoolSpec => []PoolInv
  BY InitPool, PoolStep, PTL DEF PoolSpec

\* Whatever callers return, acquire's and Release's checks of the pool's own
\* bookkeeping never fail and ReleaseMany stays inside the free list.
THEOREM NeverInvalidSafe == PoolSpec => []NeverInvalid
  BY PoolInvariant, PTL DEF PoolInv

\* acquire binds only the slot it takes from the free list.
THEOREM FormatsKept == PoolSpec => LiveKeepsFormat
<1>1. ASSUME PoolInv, [PoolNext]_poolVars
      PROVE  [\A i \in Indices : used[i] /\ used'[i] => bound'[i] = bound[i]]_poolVars
  <2> SUFFICES ASSUME PoolNext, NEW i \in Indices, used[i] PROVE bound'[i] = bound[i]
    BY <1>1
  <2>1. CASE Refused \/ Returned \/ ResetPool
    BY <2>1 DEF Refused, Returned, ResetPool
  <2>2. CASE Acquired
    <3>1. top - 1 \in 0 .. top - 1 /\ top - 1 \in Indices
      BY <1>1, <2>2, CountFacts DEF Acquired, PoolInv, PoolTypeOK
    <3>2. free[top - 1] \in Indices /\ ~used[free[top - 1]]
      <4>1. free[top - 1] \in Indices
        BY <1>1, <3>1 DEF PoolInv, PoolTypeOK
      <4> QED
        BY <1>1, <3>1, <4>1 DEF PoolInv, ListInv
    <3>3. i # free[top - 1]
      BY <3>2
    <3> QED
      BY <1>1, <2>2, <3>3 DEF Acquired, PoolInv, PoolTypeOK
  <2> QED
    BY <1>1, <2>1, <2>2, StepKinds
<1> QED
  BY <1>1, PoolInvariant, PTL DEF PoolSpec, LiveKeepsFormat

LEMMA ListedUnused == PoolInv => Listed = Indices \ Live
<1> SUFFICES ASSUME PoolInv PROVE Listed = Indices \ Live
  OBVIOUS
<1>1. \A k \in 0 .. top - 1 : free[k] \in Indices
  BY CountFacts DEF PoolInv, PoolTypeOK
<1> QED
  BY <1>1 DEF PoolInv, ListInv, Listed, Live

\* frame.Pool implements the set of free surfaces that the ring relies on:
\* what is handed out was free, and what is refused changes nothing.
THEOREM RefinesFree == PoolSpec => ImplementsFree
<1>1. PoolInit => Pool!Init
  <2> SUFFICES ASSUME PoolInit PROVE Pool!Init
    OBVIOUS
  <2>1. Live = {} /\ got = "ok"
    BY DEF PoolInit, Live
  <2>2. Listed = Indices
    BY <2>1, InitPool, ListedUnused
  <2> QED
    BY <2>1, <2>2 DEF Pool!Init
<1>2. ASSUME PoolInv, PoolInv', [PoolNext]_poolVars PROVE [Pool!Next]_(Pool!poolVars)
  <2>0. Listed = Indices \ Live /\ Listed' = Indices \ Live'
    <3>1. (PoolInv => Listed = Indices \ Live)'
      BY ListedUnused, PTL
    <3> QED
      BY <1>2, <3>1, ListedUnused DEF Indices
  <2>1. CASE Refused
    <3>1. UNCHANGED <<Listed, Live>> /\ (got = "ok")' = FALSE
      BY <2>1 DEF Refused, Listed, Live, Errors
    <3> QED
      BY <3>1 DEF Pool!Next, Pool!Refuse
  <2>2. CASE Acquired
    <3> DEFINE s == free[top - 1]
    <3>1. top - 1 \in 0 .. top - 1 /\ top - 1 \in Indices
      BY <1>2, <2>2, CountFacts DEF Acquired, PoolInv, PoolTypeOK
    <3>2. s \in Listed /\ s \in Indices
      BY <1>2, <3>1 DEF PoolInv, PoolTypeOK, Listed
    <3>3. Live' = Live \cup {s}
      <4>1. \A i \in Indices : used'[i] <=> used[i] \/ i = s
        BY <1>2, <2>2, <3>2 DEF Acquired, PoolInv, PoolTypeOK
      <4> QED
        BY <3>2, <4>1 DEF Live
    <3>4. Listed' = Listed \ {s} /\ (got = "ok")' = TRUE
      BY <2>0, <2>2, <3>3 DEF Acquired
    <3> QED
      BY <3>2, <3>3, <3>4 DEF Pool!Next, Pool!Acquire
  <2>3. CASE Returned
    <3>1. PICK batch \in Seq(Arguments) : Valid(batch) /\ used' = Freed(batch) /\ got' = "ok"
      BY <2>3 DEF Returned
    <3> DEFINE S == {i \in Indices : \E j \in DOMAIN batch : batch[j] = i}
    <3>2. S \in SUBSET Live
      BY <3>1 DEF Valid, Live
    <3>3. Live' = Live \ S
      BY <3>1 DEF Freed, Live
    <3>4. Listed' = Listed \cup S /\ (got = "ok")' = TRUE
      BY <2>0, <3>1, <3>3 DEF Live
    <3> QED
      BY <3>2, <3>3, <3>4 DEF Pool!Next, Pool!Release
  <2>4. CASE ResetPool
    <3>1. Live' = {} /\ (got = "ok")' = TRUE
      BY <2>4 DEF ResetPool, Live
    <3> QED
      BY <2>0, <3>1 DEF Pool!Next, Pool!Reset
  <2>5. CASE UNCHANGED poolVars
    BY <2>5 DEF poolVars, Pool!poolVars, Listed, Live
  <2> QED
    BY <1>2, <2>1, <2>2, <2>3, <2>4, <2>5, StepKinds
<1> QED
  BY <1>1, <1>2, PoolInvariant, PTL DEF PoolSpec, ImplementsFree, Pool!Spec

=============================================================================
