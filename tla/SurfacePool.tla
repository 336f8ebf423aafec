---------------------------- MODULE SurfacePool ----------------------------
(***************************************************************************)
(* frame.Pool: a LIFO pool of frame slots.  The free list is an array with *)
(* a top, and used[] says of every slot whether somebody has it.  Callers  *)
(* return slots one by one or in batches, and may err: a slot twice, a     *)
(* slot that is free, an index out of range.                               *)
(***************************************************************************)
EXTENDS Integers, Sequences, FiniteSets

CONSTANTS
  Count,      \* len(p.frames)
  Formats,    \* the frame formats asked for
  Fits,       \* those poolFormatFits accepts
  PoolFormat, \* p.format
  MaxBatch    \* longest batch of ReleaseMany (bound)

ASSUME PoolAssumption ==
  /\ Count \in Nat \ {0}
  /\ MaxBatch \in Nat
  /\ Fits \subseteq Formats
  /\ PoolFormat \in Fits

Indices == 0 .. Count - 1

VARIABLES
  free,    \* p.free
  used,    \* p.used
  top,     \* p.top
  bound,   \* p.frames[i].Format
  got      \* whether the last call returned "ok" or which error

poolVars == <<free, used, top, bound, got>>

Errors == {"ErrPoolEmpty", "ErrInvalidPool", "ErrInvalidFormat", "ErrInvalidSlot"}
Results == {"ok"} \cup Errors

\* What the slot indices of a call may be: one past the end stands for all
\* that are out of range.
Arguments == 0 .. Count
Batches == UNION {[1 .. n -> Arguments] : n \in 0 .. MaxBatch}

PoolFails(e) == got' = e /\ UNCHANGED <<free, used, top, bound>>

-----------------------------------------------------------------------------
\* The order BindPool and Reset give the free list.
Stacked == [k \in Indices |-> Count - 1 - k]

PoolInit ==
  /\ free = Stacked
  /\ used = [i \in Indices |-> FALSE]
  /\ top = Count
  /\ bound = [i \in Indices |-> PoolFormat]
  /\ got = "ok"

\* AcquireFormat and acquire.  The free slot is bound anew when its last frame
\* had another format, which succeeds for every format that fits.
Acquire(format) ==
  \/ /\ format \notin Fits
     /\ PoolFails("ErrInvalidFormat")
  \/ /\ format \in Fits
     /\ top = 0
     /\ PoolFails("ErrPoolEmpty")
  \/ /\ format \in Fits
     /\ top > 0
     /\ top' = top - 1
     /\ LET index == free[top - 1]
        IN  IF used[index]
            THEN got' = "ErrInvalidPool" /\ UNCHANGED <<used, bound>>
            ELSE /\ bound' = [bound EXCEPT ![index] = format]
                 /\ used' = [used EXCEPT ![index] = TRUE]
                 /\ got' = "ok"
     /\ UNCHANGED free

\* Release.
Release(index) ==
  IF index \notin Indices \/ ~used[index] THEN PoolFails("ErrInvalidSlot")
  ELSE IF top >= Count THEN PoolFails("ErrInvalidPool")
  ELSE /\ used' = [used EXCEPT ![index] = FALSE]
       /\ free' = [free EXCEPT ![top] = index]
       /\ top' = top + 1
       /\ got' = "ok"
       /\ UNCHANGED bound

\* Mutant of Valid: a slot may be in the batch twice.
ValidRepeated(batch) == \A i \in DOMAIN batch : batch[i] \in Indices /\ used[batch[i]]

\* ReleaseMany's check of the whole batch before it changes anything.
Valid(batch) ==
  \A i \in DOMAIN batch :
    /\ batch[i] \in Indices /\ used[batch[i]]
    /\ \A j \in 1 .. i - 1 : batch[j] # batch[i]

\* Mutant of ReleaseMany: the slots before the one refused are returned.
ReleaseManyPartly(batch) ==
  /\ batch # <<>>
  /\ top < Count
  /\ batch[1] \in Indices /\ used[batch[1]]
  /\ used' = [used EXCEPT ![batch[1]] = FALSE]
  /\ free' = [free EXCEPT ![top] = batch[1]]
  /\ top' = top + 1
  /\ got' = IF Len(batch) = 1 THEN "ok" ELSE "ErrInvalidSlot"
  /\ UNCHANGED bound

\* ReleaseMany writes the batch above top without asking for room: "panic" is
\* the index out of range that would follow.
ReleaseMany(batch) ==
  IF ~Valid(batch) THEN PoolFails("ErrInvalidSlot")
  ELSE IF top + Len(batch) > Count THEN PoolFails("panic")
  ELSE /\ used' = [i \in Indices |-> used[i] /\ \A j \in DOMAIN batch : batch[j] # i]
       /\ free' = [k \in Indices |-> IF k >= top /\ k < top + Len(batch)
                                     THEN batch[k - top + 1] ELSE free[k]]
       /\ top' = top + Len(batch)
       /\ got' = "ok"
       /\ UNCHANGED bound

\* Reset keeps the formats the slots are bound to.
ResetPool ==
  /\ free' = Stacked
  /\ used' = [i \in Indices |-> FALSE]
  /\ top' = Count
  /\ got' = "ok"
  /\ UNCHANGED bound

PoolNext ==
  \/ \E format \in Formats : Acquire(format)
  \/ \E index \in Arguments : Release(index)
  \/ \E batch \in Batches : ReleaseMany(batch)
  \/ ResetPool

PoolSpec == PoolInit /\ [][PoolNext]_poolVars

-----------------------------------------------------------------------------
PoolTypeOK ==
  /\ free \in [Indices -> Indices]
  /\ used \in [Indices -> BOOLEAN]
  /\ top \in 0 .. Count
  /\ bound \in [Indices -> Fits]
  /\ got \in Results \cup {"panic"}

\* Whatever callers return, the free list holds every unused slot once, so
\* that the pool's checks of its own bookkeeping never fail and ReleaseMany's
\* unchecked writes stay inside the list.
NeverInvalid == got \notin {"ErrInvalidPool", "panic"}

\* A slot that a caller has keeps the format it was acquired with: "Live frames
\* keep their descriptors; only a slot leaving the free list changes shape".
LiveKeepsFormat == [][\A i \in Indices : used[i] /\ used'[i] => bound'[i] = bound[i]]_poolVars

Listed == {free[k] : k \in 0 .. top - 1}
Live == {i \in Indices : used[i]}

\* The free list and used[] implement a set of free surfaces: a slot is with
\* one caller or in the list, and a batch is returned whole or not at all
\* ("invalid or duplicate indices leave ownership unchanged", ReleaseMany).
Pool == INSTANCE FreeSurfaces WITH
          Surfaces <- Indices, free <- Listed, live <- Live, ok <- got = "ok"
ImplementsFree == Pool!Spec
=============================================================================
