------------------------ MODULE FramePipelineProofs ------------------------
(***************************************************************************)
(* FramePipeline, for any number of reference slots, frame contexts,       *)
(* surfaces and events per payload: it is type correct, and the invariants *)
(* of FramePipelineInv are inductive.  Three parts: the steps that reorder *)
(* the ring; who may touch which surface; that the pool is large enough    *)
(* and loses no surface, while the stream has only threadable frames and   *)
(* nothing fails.                                                          *)
(***************************************************************************)
EXTENDS FramePipelineInv, FiniteSetTheorems, TLAPS

\* The ring of contexts: Succ stays in it, None is no surface.
LEMMA RingFacts ==
  /\ N \in Nat \ {0}
  /\ RefFrames \in Nat \ {0}
  /\ MaxEvents \in Nat
  /\ None \notin Surfaces
  /\ 0 \in Contexts
  /\ \A k \in Contexts : Succ(k) \in Contexts
BY RingAssumption DEF Contexts, Succ

LEMMA IdleType == Idle \in Context
BY Zenon DEF Idle, Context

\* Refreshing slots with a surface keeps them typed.
LEMMA RefreshType ==
  ASSUME TypeOK, NEW flags \in SUBSET Slots, NEW s \in Surfaces
  PROVE  /\ Refresh(flags, s) \in [Slots -> Surfaces \cup {None}]
         /\ Dropped(Refresh(flags, s)) \in SUBSET Surfaces
         /\ Held(slot) \in SUBSET Surfaces
BY Zenon DEF TypeOK, Refresh, Dropped, Held

LEMMA InitType == Init => TypeInv
<1> SUFFICES ASSUME Init PROVE TypeInv
  BY Zenon
<1>a. fc \in [Contexts -> Context]
  BY Zenon, IdleType DEF Init
<1>b. err \in BOOLEAN
  BY Zenon DEF Init
<1>d. pc \in Controls /\ ready \in Seq(Surfaces)
  BY DEF Init, Controls
<1>c. progress \in [Surfaces -> Progress]
  BY Zenon DEF Init, Progress
<1>2. TypeOK
  BY RingFacts, <1>a, <1>b, <1>c, <1>d DEF Init, TypeOK
<1>3. OutputInv
  BY Zenon DEF Init, OutputInv, Idle
<1> QED
  BY Zenon, <1>2, <1>3 DEF TypeInv

\* retire keeps the types of what it changes.
LEMMA RetireType ==
  ASSUME TypeInv, NEW c \in Contexts, Retire(c)
  PROVE  /\ free' \subseteq Surfaces
         /\ fc' \in [Contexts -> Context]
         /\ ready' \in Seq(Surfaces)
         /\ err' \in BOOLEAN
         /\ \A d \in Contexts : fc'[d].busy => fc'[d].surface # None
<1>1. fc[c] \in Context /\ fc[c].surface \in Surfaces
  BY Zenon DEF TypeInv, TypeOK, OutputInv, Context, Retire
<1>2. fc[c].releases \subseteq Surfaces
  BY Zenon, <1>1 DEF Context
<1>3. free' \subseteq Surfaces
  BY Zenon, <1>2 DEF TypeInv, TypeOK, Retire
<1>4. fc' \in [Contexts -> Context]
  BY Zenon, IdleType DEF TypeInv, TypeOK, Retire
<1>5. ready' \in Seq(Surfaces)
  BY <1>1 DEF TypeInv, TypeOK, Retire
<1>6. err' \in BOOLEAN
  BY Zenon DEF TypeInv, TypeOK, Retire
<1>7. \A d \in Contexts : fc'[d].busy => fc'[d].surface # None
  BY Zenon DEF TypeInv, TypeOK, OutputInv, Retire, Idle
<1> QED
  BY Zenon, <1>3, <1>4, <1>5, <1>6, <1>7

LEMMA TailType ==
  ASSUME TypeInv, NEW c \in Contexts, TailStep(c)
  PROVE  TypeInv'
<1>0. fc[c] \in Context
  BY Zenon DEF TypeInv, TypeOK
<1>1. ASSUME NEW s \in Surfaces, TailRead(c, s) PROVE TypeInv'
  <2>1. fc' \in [Contexts -> Context]
    BY Zenon, <1>0, <1>1 DEF TypeInv, TypeOK, TailRead, Context
  <2>2. TypeOK'
    BY Zenon, <1>1, <2>1 DEF TypeInv, TypeOK, TailRead
  <2>3. OutputInv'
    BY Zenon, <1>1, <1>0 DEF TypeInv, TypeOK, OutputInv, TailRead, Context
  <2> QED
    BY Zenon, <2>2, <2>3 DEF TypeInv
<1>2. CASE TailRows(c)
  BY Zenon, <1>2 DEF TypeInv, TypeOK, OutputInv, TailRows, Progress
<1>3. ASSUME NEW ok \in BOOLEAN, TailEnd(c, ok) PROVE TypeInv'
  <2>1. fc' \in [Contexts -> Context]
    BY Zenon, <1>0, <1>3 DEF TypeInv, TypeOK, TailEnd, Context
  <2>2. progress' \in [Surfaces -> Progress]
    BY Zenon, <1>3 DEF TypeInv, TypeOK, TailEnd, Progress
  <2>3. TypeOK'
    BY Zenon, <1>3, <2>1, <2>2 DEF TypeInv, TypeOK, TailEnd
  <2>4. OutputInv'
    BY Zenon, <1>3, <1>0 DEF TypeInv, TypeOK, OutputInv, TailEnd, Context
  <2> QED
    BY Zenon, <2>3, <2>4 DEF TypeInv
<1> QED
  BY Zenon, <1>1, <1>2, <1>3 DEF TailStep, TailDone, TailFail

LEMMA ThreadedType ==
  ASSUME TypeInv, Threaded
  PROVE  TypeInv'
<1> USE DEF TypeInv
<1>1. ASSUME NEW kind \in {"frame", "show"}, TakeContext(kind) PROVE TypeInv'
  BY <1>1, RingFacts DEF TypeOK, OutputInv, TakeContext, TakeEvent, Controls
<1>2. CASE RetireTaken
  <2>1. CASE fc[cur].busy
    BY Zenon, <1>2, <2>1, RetireType DEF TypeOK, OutputInv, RetireTaken, Controls
  <2>2. CASE ~fc[cur].busy
    BY Zenon, <1>2, <2>2 DEF TypeOK, OutputInv, RetireTaken, Controls
  <2> QED
    BY Zenon, <2>1, <2>2
<1>3. CASE ReclaimOldest
  BY Zenon, <1>3, RetireType DEF TypeOK, OutputInv, ReclaimOldest
<1>4. ASSUME NEW reads \in SUBSET Slots, NEW refresh \in SUBSET Slots, NEW show \in BOOLEAN,
             RunFrame(reads, refresh, show)
      PROVE  TypeInv'
  <2>1. PICK s \in Surfaces :
          /\ Plan(reads, s)
          /\ progress' = [progress EXCEPT ![s] = "none"]
          /\ slot' = Refresh(refresh, s)
          /\ fc' = [fc EXCEPT ![cur] =
               [Idle EXCEPT !.busy = TRUE, !.surface = s, !.refs = {slot[i] : i \in reads},
                            !.releases = Dropped(Refresh(refresh, s)), !.show = show, !.phase = "run"]]
    BY Zenon, <1>4 DEF RunFrame
  <2>2. {slot[i] : i \in reads} \in SUBSET Surfaces
    BY SMTT(30), <2>1 DEF TypeOK, Plan
  <2>3. fc' \in [Contexts -> Context]
    BY Zenon, <2>1, <2>2, RefreshType DEF TypeOK, Idle, Context
  <2>4. progress' \in [Surfaces -> Progress]
    BY Zenon, <2>1 DEF TypeOK, Progress
  <2>5. TypeOK'
    BY Zenon, <1>4, <2>1, <2>3, <2>4, RefreshType DEF TypeOK, RunFrame, Plan, Controls
  <2>6. OutputInv'
    BY ZenonT(60), <1>4, <2>1, RingFacts DEF TypeOK, OutputInv, RunFrame, Idle
  <2> QED
    BY Zenon, <2>5, <2>6
<1>5. CASE RunFrameFails
  BY Zenon, <1>5 DEF TypeOK, OutputInv, RunFrameFails, Controls, Drains, Progress
<1>6. CASE PoolEmpty
  BY Zenon, <1>6 DEF TypeOK, OutputInv, PoolEmpty, Controls, Drains
<1>7. ASSUME NEW i \in Slots, NEW key \in BOOLEAN, ShowExisting(i, key) PROVE TypeInv'
  <2> DEFINE slots == IF key THEN Refresh(Slots, slot[i]) ELSE slot
  <2>1. slot[i] \in Surfaces
    BY Zenon, <1>7 DEF TypeOK, ShowExisting
  <2>2. slots \in [Slots -> Surfaces \cup {None}] /\ Dropped(slots) \in SUBSET Surfaces
    BY Zenon, <2>1, RefreshType DEF TypeOK, Dropped
  <2>3. fc' \in [Contexts -> Context]
    BY Zenon, <1>7, <2>1, <2>2 DEF TypeOK, ShowExisting, Idle, Context
  <2>4. TypeOK'
    BY Zenon, <1>7, <2>2, <2>3 DEF TypeOK, ShowExisting, Controls
  <2>5. OutputInv'
    BY Zenon, <1>7, <2>1, RingFacts DEF TypeOK, OutputInv, ShowExisting, Idle
  <2> QED
    BY Zenon, <2>4, <2>5
<1> QED
  BY Zenon, <1>1, <1>2, <1>3, <1>4, <1>5, <1>6, <1>7 DEF Threaded, RunFrames

LEMMA SerialType ==
  ASSUME TypeInv, Serial
  PROVE  TypeInv'
<1> USE DEF TypeInv
<1>1. ASSUME NEW why \in {"newseq", "serial", "showserial"}, NeedsDrain(why) PROVE TypeInv'
  BY <1>1, RingFacts DEF TypeOK, OutputInv, NeedsDrain, TakeEvent, Controls, Drains
<1>2. CASE NeedsFinish
  BY Zenon, <1>2 DEF TypeOK, OutputInv, NeedsFinish, Controls, Drains
<1>3. ASSUME NEW reads \in SUBSET Slots, SerialBegin(reads) PROVE TypeInv'
  BY Zenon, <1>3 DEF TypeOK, OutputInv, SerialBegin, Plan, Controls
<1>4. CASE SerialRefused
  BY Zenon, <1>4 DEF TypeOK, OutputInv, SerialRefused, Controls, Drains
<1>5. ASSUME NEW refresh \in SUBSET Slots, NEW show \in BOOLEAN, SerialFinish(refresh, show) PROVE TypeInv'
  <2>1. active \in Surfaces
    BY Zenon, <1>5 DEF TypeOK, OutputInv, SerialFinish
  <2>2. slot' = Refresh(refresh, active) /\ free' = free \cup Dropped(Refresh(refresh, active))
    BY Zenon, <1>5 DEF SerialFinish
  <2>3. slot' \in [Slots -> Surfaces \cup {None}] /\ free' \subseteq Surfaces
    BY Zenon, <2>1, <2>2, RefreshType DEF TypeOK
  <2>4. ready' \in Seq(Surfaces)
    BY <1>5, <2>1 DEF TypeOK, SerialFinish
  <2> QED
    BY Zenon, <1>5, <2>3, <2>4 DEF TypeOK, OutputInv, SerialFinish, Controls
<1>6. CASE TemporalDelimiter
  BY Zenon, <1>6 DEF TypeOK, OutputInv, TemporalDelimiter
<1>7. CASE NewSequence
  BY Zenon, <1>7 DEF TypeOK, OutputInv, NewSequence, Held, Controls
<1>8. ASSUME NEW i \in Slots, NEW key \in BOOLEAN, ShowExistingSerial(i, key) PROVE TypeInv'
  <2> DEFINE slots == IF key THEN Refresh(Slots, slot[i]) ELSE slot
  <2>1. slot[i] \in Surfaces
    BY Zenon, <1>8 DEF TypeOK, ShowExistingSerial
  <2>2. slots \in [Slots -> Surfaces \cup {None}] /\ Dropped(slots) \in SUBSET Surfaces
    BY Zenon, <2>1, RefreshType DEF TypeOK, Dropped
  <2>3. slot' = slots /\ free' = free \cup Dropped(slots) \cup ({active} \ {None})
    BY Zenon, <1>8 DEF ShowExistingSerial
  <2>4. ready' \in Seq(Surfaces)
    BY <1>8, <2>1 DEF TypeOK, ShowExistingSerial
  <2> HIDE DEF slots
  <2> QED
    BY Zenon, <1>8, <2>2, <2>3, <2>4 DEF TypeOK, OutputInv, ShowExistingSerial, Controls
<1> QED
  BY Zenon, <1>1, <1>2, <1>3, <1>4, <1>5, <1>6, <1>7, <1>8 DEF Serial

LEMMA CallerType ==
  ASSUME TypeInv, Caller
  PROVE  TypeInv'
<1> USE DEF TypeInv
<1>1. CASE CallNext
  BY <1>1, RingFacts DEF TypeOK, OutputInv, CallNext, ReleaseShown, Controls
<1>2. ASSUME NEW why \in {"last", "unread"}, CallDrain(why) PROVE TypeInv'
  BY <1>2 DEF TypeOK, OutputInv, CallDrain, ReleaseShown, Controls, Drains
<1>3. ASSUME NEW why \in {"reset", "close"}, CallerDrain(why) PROVE TypeInv'
  BY Zenon, <1>3 DEF TypeOK, OutputInv, CallerDrain, Controls, Drains
<1> QED
  BY Zenon, <1>1, <1>2, <1>3 DEF Caller

LEMMA DecodeType ==
  ASSUME TypeInv, Decode
  PROVE  TypeInv'
<1> USE DEF TypeInv
<1>1. CASE Drain
  BY Zenon, <1>1, RetireType DEF TypeOK, OutputInv, Drain
<1>2. CASE EndPayload \/ EndLast
  <2>1. err' \in BOOLEAN
    BY Zenon, <1>2 DEF EndPayload, EndLast, Return
  <2>2. shown' \subseteq Surfaces
    BY Zenon, <1>2 DEF EndPayload, EndLast, Return
  <2> QED
    BY <1>2, <2>1, <2>2, RingFacts DEF TypeOK, OutputInv, EndPayload, EndLast, Return, Controls
<1>3. CASE EndUnread
  BY Zenon, <1>3 DEF TypeOK, OutputInv, EndUnread, Controls
<1>4. CASE EndFailed
  <2>1. err' \in BOOLEAN
    BY Zenon, <1>4 DEF EndFailed
  <2> QED
    BY <1>4, <2>1, RingFacts DEF TypeOK, OutputInv, EndFailed, Controls
<1>5. CASE EventError
  BY Zenon, <1>5 DEF TypeOK, OutputInv, EventError, Controls, Drains
<1>6. CASE Reset
  <2>1. err' \in BOOLEAN
    BY Zenon, <1>6 DEF Reset
  <2>2. progress' \in [Surfaces -> Progress]
    BY Zenon, <1>6 DEF Reset, Progress
  <2> QED
    BY <1>6, <2>1, <2>2, RingFacts DEF TypeOK, OutputInv, Reset, Controls
<1>7. CASE Close
  BY Zenon, <1>7 DEF TypeOK, OutputInv, Close, Controls
<1> QED
  BY Zenon, <1>1, <1>2, <1>3, <1>4, <1>5, <1>6, <1>7 DEF Decode

\* Every operation of the pipeline leaves every variable in its type,
\* whatever the stream contains and fails at.
LEMMA TypeStep == TypeInv /\ [Next]_vars => TypeInv'
<1> SUFFICES ASSUME TypeInv, [Next]_vars PROVE TypeInv'
  BY Zenon
<1>1. CASE UNCHANGED vars
  BY Zenon, <1>1 DEF vars, TypeInv, TypeOK, OutputInv
<1>2. CASE Closed
  BY Zenon, <1>2 DEF Closed, vars, TypeInv, TypeOK, OutputInv
<1> QED
  BY Zenon, <1>1, <1>2, TailType, ThreadedType, SerialType, CallerType, DecodeType DEF Next

\* The pipeline is type correct for every ring, pool and stream: in
\* particular what it returns is always a surface of the pool.
THEOREM TypeCorrect == Spec => []TypeOK
<1>1. Spec => []TypeInv
  BY InitType, TypeStep, PTL DEF Spec
<1>2. TypeInv => TypeOK
  BY Zenon DEF TypeInv
<1> QED
  BY <1>1, <1>2, PTL

-----------------------------------------------------------------------------
(* The order of the ring.                                                  *)

LEMMA AgeFacts ==
  ASSUME NEW h \in Contexts
  PROVE  /\ \A c \in Contexts : Age(c, h) \in 0 .. N - 1
         /\ \A c, d \in Contexts : Age(c, h) = Age(d, h) => c = d
         /\ Age(h, h) = 0
         /\ Age(h, Succ(h)) = N - 1
         /\ \A c \in Contexts \ {h} : Age(c, Succ(h)) = Age(c, h) - 1
<1>1. N \in Nat \ {0} /\ h \in Nat /\ h < N
  BY RingFacts DEF Contexts
<1>2. \A c \in Contexts : c \in Nat /\ c < N
  BY RingFacts DEF Contexts
<1> QED
  BY <1>1, <1>2 DEF Age, Succ

\* Older is a strict total order.
LEMMA OlderOrder ==
  ASSUME TypeOK, NEW c \in Contexts, NEW d \in Contexts
  PROVE  /\ ~Older(c, c)
         /\ Older(c, d) => ~Older(d, c)
         /\ c # d => Older(c, d) \/ Older(d, c)
<1>1. RingHead \in Contexts
  BY Zenon DEF TypeOK, RingHead
<1>2. Age(c, RingHead) \in Int /\ Age(d, RingHead) \in Int
  BY <1>1, AgeFacts, RingFacts DEF Contexts
<1>3. c # d => Age(c, RingHead) # Age(d, RingHead)
  BY Zenon, <1>1, AgeFacts
<1> QED
  BY <1>2, <1>3 DEF Older

\* The context drain and retireOldest pick is older than any other in flight.
LEMMA OldestOlder ==
  ASSUME TypeOK, NEW c \in Contexts, IsOldest(c), pc \notin {"frame", "show"}
  PROVE  \A d \in Contexts \ {c} : fc[d].busy => Older(c, d)
<1> SUFFICES ASSUME NEW d \in Contexts \ {c}, fc[d].busy PROVE Older(c, d)
  BY Zenon
<1>1. RingHead = next /\ next \in Contexts
  BY Zenon DEF TypeOK, RingHead
<1>2. Age(c, next) <= Age(d, next)
  BY Zenon DEF IsOldest
<1>3. Age(c, next) # Age(d, next)
  BY Zenon, <1>1, AgeFacts
<1>4. Age(c, next) \in Int /\ Age(d, next) \in Int
  BY <1>1, AgeFacts, RingFacts
<1> QED
  BY <1>1, <1>2, <1>3, <1>4 DEF Older

\* The context at the ring's head is older than any other.
LEMMA HeadOlder ==
  ASSUME TypeOK, pc \in {"frame", "show"}
  PROVE  \A d \in Contexts \ {cur} : Older(cur, d)
<1> SUFFICES ASSUME NEW d \in Contexts \ {cur} PROVE Older(cur, d)
  BY Zenon
<1>1. RingHead = cur /\ cur \in Contexts
  BY Zenon DEF TypeOK, RingHead
<1>2. Age(cur, cur) = 0 /\ Age(d, cur) # 0 /\ Age(d, cur) \in 0 .. N - 1
  BY <1>1, AgeFacts
<1> QED
  BY <1>1, <1>2, RingFacts DEF Older

\* Once retired, the context runFrame took is the youngest.
LEMMA TakenYoungest ==
  ASSUME TypeOK, pc \notin {"frame", "show"}, next = Succ(cur)
  PROVE  \A d \in Contexts \ {cur} : Older(d, cur)
<1> SUFFICES ASSUME NEW d \in Contexts \ {cur} PROVE Older(d, cur)
  BY Zenon
<1>1. RingHead = Succ(cur) /\ cur \in Contexts
  BY Zenon DEF TypeOK, RingHead
<1>2. /\ Age(cur, Succ(cur)) = N - 1
      /\ Age(d, Succ(cur)) = Age(d, cur) - 1
      /\ Age(d, cur) \in 0 .. N - 1
  BY Zenon, <1>1, AgeFacts
<1> QED
  BY <1>1, <1>2, RingFacts DEF Older

\* Retiring the taken context moves the head past it and keeps the order of
\* the others.
LEMMA HeadMoves ==
  ASSUME TypeOK, pc \in {"frame", "show"}, next = Succ(cur),
         pc' \in {"reclaim", "park"}, next' = next, cur' = cur,
         NEW c \in Contexts \ {cur}, NEW d \in Contexts \ {cur}
  PROVE  Older(c, d)' <=> Older(c, d)
<1>1. RingHead = cur /\ RingHead' = Succ(cur) /\ cur \in Contexts
  BY Zenon DEF TypeOK, RingHead
<1>2. Age(c, Succ(cur)) = Age(c, cur) - 1 /\ Age(d, Succ(cur)) = Age(d, cur) - 1
  BY Zenon, <1>1, AgeFacts
<1>3. Age(c, cur) \in Int /\ Age(d, cur) \in Int
  BY <1>1, AgeFacts, RingFacts
<1>4. (Age(c, cur) - 1 < Age(d, cur) - 1) <=> (Age(c, cur) < Age(d, cur))
  BY <1>3
<1>5. Older(c, d)' <=> Age(c, Succ(cur)) < Age(d, Succ(cur))
  BY Zenon, <1>1 DEF Older, Age
<1> QED
  BY Zenon, <1>1, <1>2, <1>4, <1>5 DEF Older

-----------------------------------------------------------------------------
(* Steps that preserve SurfaceInv.                                         *)

\* What is in the batch after one more picture.
LEMMA AppendReady ==
  ASSUME NEW S, NEW q \in Seq(S), NEW e \in S, NEW x
  PROVE  (\E i \in DOMAIN Append(q, e) : Append(q, e)[i] = x) <=> (x = e \/ \E i \in DOMAIN q : q[i] = x)
<1>1. Len(q) \in Nat /\ DOMAIN q = 1 .. Len(q) /\ DOMAIN Append(q, e) = 1 .. Len(q) + 1
  OBVIOUS
<1>2. \A i \in 1 .. Len(q) : Append(q, e)[i] = q[i]
  OBVIOUS
<1>3. Append(q, e)[Len(q) + 1] = e
  OBVIOUS
<1> QED
  BY <1>1, <1>2, <1>3

\* The frames in flight have references only while they run.
LEMMA BusyFacts ==
  ASSUME TypeInv, ContextInv, NEW c \in Contexts
  PROVE  /\ fc[c].refs # {} => fc[c].busy /\ Running(c)
         /\ Running(c) => Decoding(c)
         /\ fc[c].existing => fc[c].busy
         /\ fc[c].busy => fc[c].surface \in Surfaces
BY DEF TypeInv, TypeOK, OutputInv, ContextInv, Running, Decoding, Idle, Context

\* Nothing anybody in flight needs is in the pool.
LEMMA NeededUsed ==
  ASSUME TypeInv, SurfaceInv, NEW c \in Contexts
  PROVE  /\ fc[c].busy => fc[c].surface \notin free
         /\ fc[c].refs \cap free = {}
BY Zenon, BusyFacts DEF SurfaceInv, TargetInv, ParkedInv, ReferenceInv, ReleasedOnce, Decoding

\* A step that moves only the control point keeps the invariant, if the
\* frames in flight keep their order.
LEMMA Reorder ==
  ASSUME TypeInv, SurfaceInv,
         UNCHANGED <<free, slot, fc, progress, active, ready, shown>>,
         \A c, d \in Contexts : fc[c].busy /\ fc[d].busy => (Older(c, d)' <=> Older(c, d))
  PROVE  SurfaceInv'
<1> USE DEF SurfaceInv
<1>1. ContextInv' /\ ReadyInv' /\ ReleasedOnce' /\ ProgressInv'
  BY SMTT(40) DEF ContextInv, ReadyInv, ReleasedOnce, ProgressInv, Running, Held
<1>2. ActiveInv'
  BY Zenon DEF ActiveInv, InReady, Held
<1>3. TargetInv'
  BY Zenon DEF TargetInv, Decoding, InReady
<1>4. ParkedInv'
  <2> SUFFICES ASSUME NEW c \in Contexts, fc[c].existing
               PROVE  \/ fc[c].surface \in Held(slot)
                      \/ \E d \in Contexts : fc[d].busy /\ fc[c].surface \in fc[d].releases /\ Older(c, d)'
    BY Zenon DEF ParkedInv, Held
  <2> QED
    BY Zenon, BusyFacts DEF ParkedInv
<1>5. ReferenceInv'
  <2> SUFFICES ASSUME NEW c \in Contexts, NEW s \in fc[c].refs
               PROVE  /\ \/ s \in Held(slot)
                         \/ \E d \in Contexts : fc[d].busy /\ s \in fc[d].releases /\ ~Older(d, c)'
                      /\ \A d \in Contexts : Decoding(d) /\ fc[d].surface = s => Older(d, c)'
    BY Zenon DEF ReferenceInv, Held, Decoding
  <2> QED
    BY Zenon, BusyFacts DEF ReferenceInv, Decoding
<1> QED
  BY SMTT(30), <1>1, <1>2, <1>3, <1>4, <1>5

\* Retiring the oldest frame in flight returns surfaces nobody else needs.
LEMMA RetireInv ==
  ASSUME TypeInv, SurfaceInv, NEW c \in Contexts, Retire(c),
         \A d \in Contexts \ {c} : fc[d].busy => Older(c, d),
         UNCHANGED <<slot, progress, active, shown>>,
         \A d, e \in Contexts \ {c} : Older(d, e)' <=> Older(d, e)
  PROVE  SurfaceInv'
<1> USE DEF SurfaceInv
<1>0. /\ fc' = [fc EXCEPT ![c] = Idle]
      /\ fc'[c] = Idle
      /\ \A d \in Contexts \ {c} : fc'[d] = fc[d]
      /\ fc[c].busy
      /\ fc[c].phase # "run"
      /\ fc[c].refs = {}
      /\ fc[c].surface \in Surfaces
      /\ free' = free \cup {s \in fc[c].releases : ~InReady(s)}
  BY Zenon, BusyFacts DEF Retire, TypeInv, TypeOK, ContextInv
<1>1. \A x : InReady(x)' => InReady(x) \/ x = fc[c].surface
  BY <1>0, AppendReady DEF Retire, InReady, TypeInv, TypeOK
<1>2. fc[c].surface \notin free \cup fc[c].releases
  <2>1. fc[c].surface \notin free
    BY Zenon, <1>0, NeededUsed
  <2>2. CASE fc[c].existing
    BY <2>2, <1>0, OlderOrder DEF ParkedInv, ReleasedOnce, TypeInv
  <2>3. CASE ~fc[c].existing
    BY Zenon, <2>3, <1>0, OlderOrder DEF TargetInv, Decoding, TypeInv
  <2> QED
    BY Zenon, <2>1, <2>2, <2>3
<1>3. ContextInv'
  <2>1. ~Idle.existing /\ Idle.refs = {}
    BY Zenon DEF Idle
  <2> QED
    BY SMTT(40), <2>1, <1>0 DEF ContextInv
<1>4. ReadyInv'
  <2>1. \A x : InReady(x)' => x \notin free'
    BY <1>0, <1>1, <1>2 DEF ReadyInv, InReady
  <2> QED
    BY Zenon, <2>1 DEF ReadyInv, InReady
<1>5. ReleasedOnce'
  BY SMTT(40), <1>0 DEF ReleasedOnce, Idle, Held
<1>6. \A d \in Contexts \ {c} : fc[d].busy => ~Older(d, c)
  BY Zenon, OlderOrder DEF TypeInv
<1>7. ActiveInv'
  BY SMTT(40), <1>0, <1>1 DEF ActiveInv, Idle, Held
<1>8. TargetInv'
  <2> SUFFICES ASSUME NEW d \in Contexts, Decoding(d)' PROVE
        /\ (fc[d].surface \notin free \cup shown)'
        /\ ~InReady(fc[d].surface)'
        /\ \A e \in Contexts \ {d} : (fc[e].busy /\ fc[e].surface = fc[d].surface)' => (fc[e].existing /\ Older(d, e))'
        /\ \A e \in Contexts : (fc[e].busy /\ fc[d].surface \in fc[e].releases)' => Older(d, e)'
    BY Zenon DEF TargetInv
  <2>1. d # c /\ Decoding(d) /\ fc'[d] = fc[d]
    BY SMTT(40), <1>0 DEF Decoding, Idle
  <2>2. fc[d].surface \notin fc[c].releases
    BY Zenon, <2>1, <1>0, <1>6 DEF TargetInv, Decoding
  <2>3. fc[d].surface # fc[c].surface
    BY Zenon, <2>1, <1>0, <1>6 DEF TargetInv, Decoding
  <2>4. \A e \in Contexts : fc'[e].busy => e # c /\ fc'[e] = fc[e]
    BY SMTT(40), <1>0 DEF Idle
  <2>5. (fc[d].surface \notin free \cup shown)'
    BY SMTT(40), <2>1, <2>2, <1>0 DEF TargetInv
  <2>6. ~InReady(fc[d].surface)'
    BY Zenon, <2>1, <2>3, <1>1 DEF TargetInv
  <2> QED
    BY Zenon, <2>1, <2>4, <2>5, <2>6 DEF TargetInv
<1>9. ParkedInv'
  <2> SUFFICES ASSUME NEW d \in Contexts, fc'[d].existing
               PROVE  \/ fc'[d].surface \in Held(slot)'
                      \/ \E e \in Contexts : fc'[e].busy /\ fc'[d].surface \in fc'[e].releases /\ Older(d, e)'
    BY Zenon DEF ParkedInv
  <2>1. d # c /\ fc'[d] = fc[d] /\ fc[d].busy
    BY SMTT(40), <1>0, BusyFacts DEF Idle
  <2>2. CASE fc[d].surface \in Held(slot)
    BY Zenon, <2>1, <2>2 DEF Held
  <2>3. CASE \E e \in Contexts : fc[e].busy /\ fc[d].surface \in fc[e].releases /\ Older(d, e)
    BY Zenon, <2>1, <2>3, <1>0, <1>6
  <2> QED
    BY Zenon, <2>1, <2>2, <2>3 DEF ParkedInv
<1>10. ReferenceInv'
  <2> SUFFICES ASSUME NEW d \in Contexts, NEW s \in fc'[d].refs
               PROVE  /\ \/ s \in Held(slot)'
                         \/ \E e \in Contexts : fc'[e].busy /\ s \in fc'[e].releases /\ ~Older(e, d)'
                      /\ \A e \in Contexts : Decoding(e)' /\ fc'[e].surface = s => Older(e, d)'
    BY SMTT(30) DEF ReferenceInv
  <2>1. d # c /\ fc'[d] = fc[d] /\ fc[d].busy /\ s \in fc[d].refs
    BY SMTT(40), <1>0, BusyFacts DEF Idle
  <2>2. \A e \in Contexts : fc'[e].busy => e # c /\ fc'[e] = fc[e]
    <3> SUFFICES ASSUME NEW e \in Contexts, fc'[e].busy
                 PROVE  e # c /\ fc'[e] = fc[e]
      BY Zenon
    <3>1. e # c
      BY <1>0 DEF Idle
    <3> QED
      BY Zenon, <3>1, <1>0
  <2>3. CASE s \in Held(slot)
    BY <2>1, <2>2, <2>3 DEF Held, ReferenceInv, Decoding
  <2>4. CASE \E e \in Contexts : fc[e].busy /\ s \in fc[e].releases /\ ~Older(e, d)
    BY SMTT(30), <2>1, <2>2, <2>4, <1>0 DEF ReferenceInv, Decoding
  <2> QED
    BY Zenon, <2>1, <2>3, <2>4 DEF ReferenceInv
<1>11. ProgressInv'
  BY SMTT(40), <1>0 DEF ProgressInv, Running
<1> QED
  BY SMTT(30), <1>3, <1>4, <1>5, <1>7, <1>8, <1>9, <1>10, <1>11

\* A new frame takes a fresh target and the youngest place in the ring; what
\* it drops from the slots moves to its releases.
LEMMA RunFrameInv ==
  ASSUME RingInv, NEW reads \in SUBSET Slots, NEW refresh \in SUBSET Slots, NEW show \in BOOLEAN,
         RunFrame(reads, refresh, show)
  PROVE  SurfaceInv'
<1> USE DEF RingInv, SurfaceInv
<1>1. PICK s \in free :
        /\ \A i \in reads : slot[i] # None
        /\ free' = free \ {s}
        /\ progress' = [progress EXCEPT ![s] = "none"]
        /\ slot' = Refresh(refresh, s)
        /\ fc' = [fc EXCEPT ![cur] =
             [Idle EXCEPT !.busy = TRUE, !.surface = s, !.refs = {slot[i] : i \in reads},
                          !.releases = Dropped(Refresh(refresh, s)), !.show = show, !.phase = "run"]]
  BY Zenon DEF RunFrame, Plan
<1>2. /\ pc = "reclaim" /\ pc' = "events" /\ next = Succ(cur) /\ cur \in Contexts
      /\ active = None /\ active' = None /\ shown = {} /\ shown' = {} /\ ready' = ready
      /\ ~fc[cur].busy
      /\ s \in Surfaces
  BY Zenon, <1>1 DEF RunFrame, ControlInv, TypeInv, TypeOK
<1>3. \A c, d \in Contexts : Older(c, d)' <=> Older(c, d)
  BY Zenon, <1>2 DEF RunFrame, Older, RingHead, Age
<1>4. /\ \A d \in Contexts \ {cur} : Older(d, cur) /\ ~Older(cur, d)
      /\ ~Older(cur, cur)
  BY Zenon, <1>2, TakenYoungest, OlderOrder DEF TypeInv
<1>5. /\ \A d \in Contexts \ {cur} : fc'[d] = fc[d]
      /\ fc'[cur].busy /\ ~fc'[cur].existing /\ fc'[cur].phase = "run"
      /\ fc'[cur].surface = s
      /\ fc'[cur].refs = {slot[i] : i \in reads}
      /\ fc'[cur].releases = Held(slot) \ Held(slot')
  BY Zenon, <1>1, <1>2 DEF TypeInv, TypeOK, Idle, Dropped
<1>6. /\ Held(slot)' \subseteq Held(slot) \cup {s}
      /\ Held(slot') = Held(slot)'
      /\ fc'[cur].refs \subseteq Held(slot)
  BY <1>1, <1>5 DEF Held, Refresh, TypeInv, TypeOK
<1>7. /\ s \notin Held(slot)
      /\ ~InReady(s)
      /\ \A d \in Contexts : fc[d].busy => s \notin fc[d].releases /\ fc[d].surface # s
      /\ \A d \in Contexts : s \notin fc[d].refs
  BY Zenon, <1>1, NeededUsed DEF ReadyInv, InReady, ReleasedOnce
<1>8. ContextInv'
  BY ZenonT(60), <1>2, <1>5 DEF ContextInv
<1>9. ActiveInv' /\ ReadyInv'
  BY Zenon, <1>1, <1>2 DEF ActiveInv, ReadyInv
<1>10. ReleasedOnce'
  <2>1. Held(slot)' \cap free' = {}
    BY Zenon, <1>1, <1>6 DEF ReleasedOnce
  <2>2. \A c \in Contexts : fc'[c].busy => fc'[c].releases \cap (free' \cup Held(slot)') = {}
    BY <1>1, <1>5, <1>6, <1>7 DEF ReleasedOnce
  <2>3. \A c \in Contexts : fc'[c].busy =>
          \A d \in Contexts \ {c} : fc'[d].busy => fc'[c].releases \cap fc'[d].releases = {}
    BY Zenon, <1>5 DEF ReleasedOnce
  <2> QED
    BY Zenon, <2>1, <2>2, <2>3 DEF ReleasedOnce
<1>11. TargetInv'
  <2> SUFFICES ASSUME NEW c \in Contexts, Decoding(c)' PROVE
        /\ (fc[c].surface \notin free \cup shown)'
        /\ ~InReady(fc[c].surface)'
        /\ \A d \in Contexts \ {c} : (fc[d].busy /\ fc[d].surface = fc[c].surface)' => (fc[d].existing /\ Older(c, d))'
        /\ \A d \in Contexts : (fc[d].busy /\ fc[c].surface \in fc[d].releases)' => Older(c, d)'
    BY Zenon DEF TargetInv
  <2>0. \A x : InReady(x)' <=> InReady(x)
    BY Zenon, <1>2 DEF InReady
  <2>1. CASE c = cur
    BY <2>0, <2>1, <1>1, <1>2, <1>5, <1>7
  <2>2. CASE c # cur
    <3>1. Decoding(c) /\ fc'[c] = fc[c] /\ fc[c].surface # s
      BY Zenon, <2>2, <1>5, <1>7 DEF Decoding
    <3> QED
      BY <2>0, <2>2, <3>1, <1>1, <1>2, <1>3, <1>4, <1>5 DEF TargetInv
  <2> QED
    BY SMTT(30), <2>1, <2>2
<1>12. ParkedInv'
  <2> SUFFICES ASSUME NEW c \in Contexts, fc'[c].existing
               PROVE  \/ fc'[c].surface \in Held(slot)'
                      \/ \E d \in Contexts : fc'[d].busy /\ fc'[c].surface \in fc'[d].releases /\ Older(c, d)'
    BY Zenon DEF ParkedInv
  <2>1. c # cur /\ fc'[c] = fc[c]
    BY Zenon, <1>5
  <2>2. CASE fc[c].surface \in Held(slot)
    BY Zenon, <2>1, <2>2, <1>2, <1>3, <1>4, <1>5, <1>6
  <2>3. CASE \E d \in Contexts : fc[d].busy /\ fc[c].surface \in fc[d].releases /\ Older(c, d)
    BY Zenon, <2>1, <2>3, <1>2, <1>3, <1>5
  <2> QED
    BY Zenon, <2>1, <2>2, <2>3 DEF ParkedInv
<1>13. ReferenceInv'
  <2> SUFFICES ASSUME NEW c \in Contexts, NEW x \in fc'[c].refs
               PROVE  /\ \/ x \in Held(slot)'
                         \/ \E d \in Contexts : fc'[d].busy /\ x \in fc'[d].releases /\ ~Older(d, c)'
                      /\ \A d \in Contexts : Decoding(d)' /\ fc'[d].surface = x => Older(d, c)'
    BY Zenon DEF ReferenceInv
  <2>1. CASE c = cur
    <3>1. x \in Held(slot) /\ x # s
      BY Zenon, <2>1, <1>6, <1>7
    <3> QED
      BY Zenon, <2>1, <3>1, <1>2, <1>3, <1>4, <1>5, <1>6 DEF Decoding
  <2>2. CASE c # cur
    <3>1. x \in fc[c].refs /\ x # s
      BY Zenon, <2>2, <1>5, <1>7
    <3>2. \A d \in Contexts : Decoding(d)' /\ fc'[d].surface = x => Older(d, c)'
      BY SMTT(30), <2>2, <3>1, <1>3, <1>5 DEF ReferenceInv, Decoding
    <3>3. CASE x \in Held(slot)
      BY SMTT(30), <2>2, <3>2, <3>3, <1>2, <1>3, <1>4, <1>5, <1>6
    <3>4. CASE \E d \in Contexts : fc[d].busy /\ x \in fc[d].releases /\ ~Older(d, c)
      BY Zenon, <2>2, <3>2, <3>4, <1>2, <1>3, <1>5
    <3> QED
      BY Zenon, <3>1, <3>3, <3>4 DEF ReferenceInv
  <2> QED
    BY Zenon, <2>1, <2>2
<1>14. ProgressInv'
  <2> SUFFICES ASSUME NEW x \in Surfaces, progress'[x] \notin {"done", "error"}
               PROVE  \E d \in Contexts : Running(d)' /\ fc'[d].surface = x
    BY Zenon DEF ProgressInv
  <2>1. CASE x = s
    BY Zenon, <2>1, <1>2, <1>5 DEF Running
  <2>2. CASE x # s
    <3>1. progress'[x] = progress[x]
      BY Zenon, <2>2, <1>1 DEF TypeInv, TypeOK
    <3>2. PICK d \in Contexts : Running(d) /\ fc[d].surface = x
      BY Zenon, <3>1 DEF ProgressInv
    <3>3. d # cur
      BY Zenon, <3>2, <1>2, BusyFacts DEF Decoding
    <3> QED
      BY Zenon, <3>2, <3>3, <1>5 DEF Running
  <2> QED
    BY Zenon, <2>1, <2>2
<1> QED
  BY SMTT(30), <1>8, <1>9, <1>10, <1>11, <1>12, <1>13, <1>14

-----------------------------------------------------------------------------
\* A shown picture is parked at the youngest place; what a key frame drops
\* from the slots moves to its releases.
LEMMA ShowExistingInv ==
  ASSUME RingInv, NEW i \in Slots, NEW key \in BOOLEAN, ShowExisting(i, key)
  PROVE  SurfaceInv'
<1> USE DEF RingInv, SurfaceInv
<1>1. /\ pc = "park" /\ pc' = "events" /\ next = Succ(cur) /\ cur \in Contexts
      /\ active = None /\ active' = None /\ shown = {} /\ shown' = {} /\ ready' = ready
      /\ free' = free /\ progress' = progress
      /\ ~fc[cur].busy
      /\ slot[i] \in Surfaces
      /\ slot' = IF key THEN Refresh(Slots, slot[i]) ELSE slot
  BY Zenon DEF ShowExisting, ControlInv, TypeInv, TypeOK
<1>2. \A c, d \in Contexts : Older(c, d)' <=> Older(c, d)
  BY Zenon, <1>1 DEF ShowExisting, Older, RingHead, Age
<1>3. /\ \A d \in Contexts \ {cur} : Older(d, cur) /\ ~Older(cur, d)
      /\ ~Older(cur, cur)
  BY Zenon, <1>1, TakenYoungest, OlderOrder DEF TypeInv
<1>4. /\ \A d \in Contexts \ {cur} : fc'[d] = fc[d]
      /\ fc'[cur].busy /\ fc'[cur].existing /\ fc'[cur].phase = "idle" /\ fc'[cur].ok
      /\ fc'[cur].surface = slot[i]
      /\ fc'[cur].refs = {}
      /\ fc'[cur].releases = Held(slot) \ Held(slot')
  BY Zenon, <1>1 DEF ShowExisting, TypeInv, TypeOK, Idle, Dropped
<1>5. /\ Held(slot') = Held(slot)'
      /\ Held(slot)' \subseteq Held(slot)
      /\ slot[i] \in Held(slot)'
      /\ slot[i] \in Held(slot)
  BY Zenon, <1>1, RingFacts DEF Held, Refresh, TypeInv, TypeOK
<1>6. ContextInv'
  BY Zenon, <1>1, <1>4 DEF ContextInv
<1>7. ActiveInv' /\ ReadyInv'
  BY Zenon, <1>1 DEF ActiveInv, ReadyInv
<1>8. ReleasedOnce'
  BY ZenonT(60), <1>1, <1>4, <1>5 DEF ReleasedOnce
<1>9. TargetInv'
  <2> SUFFICES ASSUME NEW c \in Contexts, Decoding(c)' PROVE
        /\ (fc[c].surface \notin free \cup shown)'
        /\ ~InReady(fc[c].surface)'
        /\ \A d \in Contexts \ {c} : (fc[d].busy /\ fc[d].surface = fc[c].surface)' => (fc[d].existing /\ Older(c, d))'
        /\ \A d \in Contexts : (fc[d].busy /\ fc[c].surface \in fc[d].releases)' => Older(c, d)'
    BY Zenon DEF TargetInv
  <2>1. c # cur /\ Decoding(c) /\ fc'[c] = fc[c]
    BY Zenon, <1>4 DEF Decoding
  <2>2. \A x : InReady(x)' <=> InReady(x)
    BY Zenon, <1>1 DEF InReady
  <2> QED
    BY Zenon, <2>1, <2>2, <1>1, <1>2, <1>3, <1>4 DEF TargetInv
<1>10. ParkedInv'
  <2> SUFFICES ASSUME NEW c \in Contexts, fc'[c].existing
               PROVE  \/ fc'[c].surface \in Held(slot)'
                      \/ \E d \in Contexts : fc'[d].busy /\ fc'[c].surface \in fc'[d].releases /\ Older(c, d)'
    BY Zenon DEF ParkedInv
  <2>1. CASE c = cur
    BY Zenon, <2>1, <1>4, <1>5
  <2>2. CASE c # cur /\ fc[c].surface \in Held(slot)
    BY Zenon, <2>2, <1>1, <1>2, <1>3, <1>4, <1>5
  <2>3. CASE c # cur /\ \E d \in Contexts : fc[d].busy /\ fc[c].surface \in fc[d].releases /\ Older(c, d)
    BY Zenon, <2>3, <1>1, <1>2, <1>4
  <2> QED
    BY Zenon, <2>1, <2>2, <2>3, <1>4 DEF ParkedInv
<1>11. ReferenceInv'
  <2> SUFFICES ASSUME NEW c \in Contexts, NEW x \in fc'[c].refs
               PROVE  /\ \/ x \in Held(slot)'
                         \/ \E d \in Contexts : fc'[d].busy /\ x \in fc'[d].releases /\ ~Older(d, c)'
                      /\ \A d \in Contexts : Decoding(d)' /\ fc'[d].surface = x => Older(d, c)'
    BY Zenon DEF ReferenceInv
  <2>1. c # cur /\ x \in fc[c].refs
    BY Zenon, <1>4
  <2>2. \A d \in Contexts : Decoding(d)' /\ fc'[d].surface = x => Older(d, c)'
    BY ZenonT(60), <2>1, <1>2, <1>4 DEF ReferenceInv, Decoding
  <2>3. CASE x \in Held(slot)
    BY Zenon, <2>1, <2>2, <2>3, <1>1, <1>2, <1>3, <1>4, <1>5
  <2>4. CASE \E d \in Contexts : fc[d].busy /\ x \in fc[d].releases /\ ~Older(d, c)
    BY Zenon, <2>1, <2>2, <2>4, <1>1, <1>2, <1>4
  <2> QED
    BY Zenon, <2>1, <2>3, <2>4 DEF ReferenceInv
<1>12. ProgressInv'
  <2>1. \A d \in Contexts : Running(d) => d # cur /\ Running(d)' /\ fc'[d].surface = fc[d].surface
    BY Zenon, <1>1, <1>4, BusyFacts DEF Running, Decoding
  <2> QED
    BY Zenon, <2>1, <1>1 DEF ProgressInv
<1> QED
  BY Zenon, <1>6, <1>7, <1>8, <1>9, <1>10, <1>11, <1>12

\* A frame that fails after it acquired its target holds a surface nobody
\* else names.
LEMMA RunFrameFailsInv ==
  ASSUME RingInv, RunFrameFails
  PROVE  SurfaceInv'
<1> USE DEF RingInv, SurfaceInv
<1>1. PICK s \in free :
        /\ free' = free \ {s}
        /\ active' \in {None, s}
        /\ progress' = progress \/ progress' = [progress EXCEPT ![s] = "error"]
  BY Zenon DEF RunFrameFails
<1>2. /\ UNCHANGED <<slot, fc, next, ready, shown, cur>>
      /\ pc = "reclaim" /\ pc' = "failed" /\ shown = {}
      /\ s \in Surfaces
  BY Zenon, <1>1 DEF RunFrameFails, ControlInv, TypeInv, TypeOK
<1>3. \A c, d \in Contexts : Older(c, d)' <=> Older(c, d)
  BY Zenon, <1>2 DEF Older, RingHead, Age
<1>4. ContextInv' /\ ReadyInv' /\ ReleasedOnce'
  BY <1>1, <1>2 DEF ContextInv, ReadyInv, ReleasedOnce, Held
<1>5. ActiveInv'
  <2>1. /\ s \notin Held(slot)
        /\ ~InReady(s)
        /\ \A d \in Contexts : fc[d].busy => s \notin fc[d].releases \cup fc[d].refs \cup {fc[d].surface}
    BY Zenon, <1>1, NeededUsed DEF ReadyInv, InReady, ReleasedOnce
  <2> QED
    BY Zenon, <2>1, <1>1, <1>2 DEF ActiveInv, Held, InReady
<1>6. TargetInv'
  BY Zenon, <1>1, <1>2, <1>3 DEF TargetInv, Decoding, InReady
<1>7. ParkedInv' /\ ReferenceInv'
  BY Zenon, <1>2, <1>3 DEF ParkedInv, ReferenceInv, Decoding, Held
<1>8. ProgressInv'
  BY Zenon, <1>1, <1>2 DEF ProgressInv, Running, TypeInv, TypeOK
<1> QED
  BY Zenon, <1>4, <1>5, <1>6, <1>7, <1>8

\* A tail only shrinks what it reads and finishes what it writes.
LEMMA TailInv ==
  ASSUME TypeInv, SurfaceInv, NEW c \in Contexts, TailStep(c)
  PROVE  SurfaceInv'
<1> USE DEF SurfaceInv
<1>1. /\ UNCHANGED <<free, slot, next, active, ready, shown, pc, cur>>
      /\ fc[c].phase = "run"
  BY Zenon DEF TailStep, TailRead, TailRows, TailDone, TailFail, TailEnd
<1>2. \A d, e \in Contexts : Older(d, e)' <=> Older(d, e)
  BY Zenon, <1>1 DEF Older, RingHead, Age
<1>3. /\ Decoding(c)
      /\ \A d \in Contexts \ {c} : fc'[d] = fc[d]
      /\ fc'[c].busy = fc[c].busy /\ fc'[c].existing = fc[c].existing
      /\ fc'[c].surface = fc[c].surface /\ fc'[c].releases = fc[c].releases
      /\ fc'[c].refs \subseteq fc[c].refs
      /\ fc'[c].refs # {} => fc'[c].phase = "run"
  <2>1. Decoding(c) /\ fc \in [Contexts -> Context] /\ fc[c] \in Context
    BY Zenon, <1>1, BusyFacts DEF TypeInv, TypeOK, Running
  <2>2. ASSUME NEW s \in Surfaces, TailRead(c, s) PROVE <1>3!:
    BY Zenon, <2>1, <2>2 DEF TailRead, Context
  <2>3. CASE TailRows(c)
    BY Zenon, <2>1, <2>3, <1>1 DEF TailRows
  <2>4. ASSUME NEW ok \in BOOLEAN, TailEnd(c, ok) PROVE <1>3!:
    BY Zenon, <2>1, <2>4 DEF TailEnd, Context
  <2> QED
    BY Zenon, <2>2, <2>3, <2>4 DEF TailStep, TailDone, TailFail
<1>4. \/ progress' = progress /\ fc'[c].phase = "run"
      \/ /\ progress[fc[c].surface] = "none"
         /\ progress' = [progress EXCEPT ![fc[c].surface] = "rows"]
         /\ fc'[c].phase = "run"
      \/ \E v \in {"done", "error"} : progress' = [progress EXCEPT ![fc[c].surface] = v]
  BY Zenon, <1>1 DEF TypeInv, TypeOK, Context, TailStep, TailRead, TailRows, TailDone, TailFail, TailEnd
<1>5. ContextInv'
  BY Zenon, <1>3 DEF ContextInv, Decoding
<1>6. ActiveInv'
  BY Zenon, <1>1, <1>3 DEF ActiveInv, Held, InReady
<1>7. ReadyInv' /\ ReleasedOnce'
  BY <1>1, <1>3 DEF ReadyInv, ReleasedOnce, Held
<1>8. \A d \in Contexts : /\ fc'[d].busy = fc[d].busy /\ fc'[d].existing = fc[d].existing
                         /\ fc'[d].surface = fc[d].surface /\ fc'[d].releases = fc[d].releases
                         /\ fc'[d].refs \subseteq fc[d].refs
  BY Zenon, <1>3
<1>9. TargetInv'
  <2> SUFFICES ASSUME NEW e \in Contexts, Decoding(e)'
               PROVE  /\ fc'[e].surface \notin free' \cup shown'
                      /\ ~InReady(fc[e].surface)'
                      /\ \A d \in Contexts \ {e} : fc'[d].busy /\ fc'[d].surface = fc'[e].surface
                                                   => fc'[d].existing /\ Older(e, d)'
                      /\ \A d \in Contexts : fc'[d].busy /\ fc'[e].surface \in fc'[d].releases
                                             => Older(e, d)'
    BY Zenon DEF TargetInv
  <2>1. Decoding(e) /\ fc'[e].surface = fc[e].surface
    BY Zenon, <1>8 DEF Decoding
  <2>2. /\ fc[e].surface \notin free \cup shown /\ ~InReady(fc[e].surface)
        /\ \A d \in Contexts \ {e} : fc[d].busy /\ fc[d].surface = fc[e].surface
                                     => fc[d].existing /\ Older(e, d)
        /\ \A d \in Contexts : fc[d].busy /\ fc[e].surface \in fc[d].releases => Older(e, d)
    BY Zenon, <2>1 DEF TargetInv
  <2>3. ~InReady(fc[e].surface)'
    BY Zenon, <1>1, <2>1, <2>2 DEF InReady
  <2> QED
    BY Zenon, <1>1, <1>2, <1>8, <2>1, <2>2, <2>3
<1>10. ParkedInv'
  BY <1>1, <1>2, <1>8 DEF ParkedInv, Held
<1>11. ReferenceInv'
  <2> SUFFICES ASSUME NEW d \in Contexts, NEW s \in fc'[d].refs
               PROVE  /\ \/ s \in Held(slot)'
                         \/ \E e \in Contexts : fc'[e].busy /\ s \in fc'[e].releases /\ ~Older(e, d)'
                      /\ \A e \in Contexts : Decoding(e)' /\ fc'[e].surface = s => Older(e, d)'
    BY Zenon DEF ReferenceInv
  <2>1. s \in fc[d].refs
    BY Zenon, <1>8
  <2>2. \A e \in Contexts : Decoding(e)' <=> Decoding(e)
    BY Zenon, <1>8 DEF Decoding
  <2>3. Held(slot)' = Held(slot)
    BY Zenon, <1>1 DEF Held
  <2> QED
    BY <2>1, <2>2, <2>3, <1>2, <1>8 DEF ReferenceInv
<1>12. ProgressInv'
  <2> SUFFICES ASSUME NEW x \in Surfaces, progress'[x] \notin {"done", "error"}
               PROVE  \E d \in Contexts : Running(d)' /\ fc'[d].surface = x
    BY Zenon DEF ProgressInv
  <2>1. CASE x = fc[c].surface
    BY Zenon, <2>1, <1>3, <1>4 DEF Running, TypeInv, TypeOK
  <2>2. CASE x # fc[c].surface
    <3>1. progress'[x] = progress[x]
      BY Zenon, <2>2, <1>4 DEF TypeInv, TypeOK
    <3> QED
      BY SMTT(40), <2>2, <3>1, <1>3 DEF ProgressInv, Running
  <2> QED
    BY Zenon, <2>1, <2>2
<1> QED
  BY Zenon, <1>5, <1>6, <1>7, <1>9, <1>10, <1>11, <1>12

\* With no frame in flight only the slots, the active frame and the batch
\* name surfaces.
LEMMA QuietInv ==
  ASSUME TypeInv, ContextInv, NoneBusy, fc' = fc,
         ActiveInv', ReadyInv', (Held(slot) \cap free)' = {}, ProgressInv'
  PROVE  SurfaceInv'
<1>1. \A c \in Contexts : ~fc[c].busy /\ ~fc[c].existing /\ fc[c].refs = {} /\ ~Decoding(c)
  <2> SUFFICES ASSUME NEW c \in Contexts
               PROVE  ~fc[c].busy /\ ~fc[c].existing /\ fc[c].refs = {} /\ ~Decoding(c)
    BY Zenon
  <2>1. ~fc[c].busy
    BY Zenon DEF NoneBusy
  <2>2. fc[c] = Idle
    BY <2>1, Zenon DEF ContextInv
  <2>3. ~fc[c].existing /\ fc[c].refs = {}
    BY <2>2 DEF Idle
  <2> QED
    BY <2>1, <2>3, Zenon DEF Decoding
<1>2. ContextInv' /\ ReleasedOnce' /\ TargetInv' /\ ParkedInv' /\ ReferenceInv'
  BY Zenon, <1>1 DEF ContextInv, ReleasedOnce, TargetInv, ParkedInv, ReferenceInv, Decoding
<1> QED
  BY Zenon, <1>2 DEF SurfaceInv

LEMMA SerialInv ==
  ASSUME RingInv, AllThreadable, Serial
  PROVE  SurfaceInv'
<1> USE DEF RingInv, SurfaceInv
<1>1. CASE NeedsFinish
  BY Zenon, <1>1, Reorder DEF NeedsFinish, Older, RingHead, Age
<1>2. ASSUME NEW refresh \in SUBSET Slots, NEW show \in BOOLEAN, SerialFinish(refresh, show) PROVE SurfaceInv'
  <2>1. /\ active \in Surfaces /\ active' = None /\ fc' = fc /\ NoneBusy /\ ready = <<>>
        /\ ready' = <<active>> \/ ready' = <<>>
        /\ slot' = Refresh(refresh, active)
        /\ free' = free \cup (Held(slot) \ Held(slot'))
        /\ progress' = progress
    BY <1>2 DEF SerialFinish, ControlInv, TypeInv, TypeOK, OutputInv, Dropped
  <2>2. active \notin free' /\ Held(slot') = Held(slot)' /\ Held(slot)' \subseteq Held(slot) \cup {active}
    <3>1. active \notin free \cup Held(slot)
      BY Zenon, <2>1, RingFacts DEF ActiveInv
    <3>2. Held(slot') = Held(slot)'
      BY Zenon DEF Held
    <3>3. Held(slot)' \subseteq Held(slot) \cup {active}
      BY Zenon, <2>1 DEF Held, Refresh
    <3> QED
      BY Zenon, <2>1, <3>1, <3>2, <3>3
  <2>3. ReadyInv' /\ ActiveInv'
    BY SMTT(40), <2>1, <2>2 DEF ReadyInv, ActiveInv
  <2>4. (Held(slot) \cap free)' = {}
    BY Zenon, <2>1, <2>2 DEF ActiveInv, ReleasedOnce
  <2>5. ProgressInv'
    BY Zenon, <2>1 DEF ProgressInv, Running
  <2> QED
    BY Zenon, <2>1, <2>3, <2>4, <2>5, QuietInv
<1>3. CASE TemporalDelimiter
  <2>1. /\ active \in Surfaces /\ active' = None /\ fc' = fc /\ NoneBusy /\ ready' = <<>>
        /\ free' = free \cup {active} /\ slot' = slot /\ progress' = progress
    BY Zenon, <1>3 DEF TemporalDelimiter, ControlInv, TypeInv, TypeOK
  <2>2. ReadyInv' /\ ActiveInv' /\ (Held(slot) \cap free)' = {}
    BY SMTT(40), <2>1, RingFacts DEF ReadyInv, ActiveInv, ReleasedOnce, Held
  <2>3. ProgressInv'
    BY Zenon, <2>1 DEF ProgressInv, Running
  <2> QED
    BY Zenon, <2>1, <2>2, <2>3, QuietInv
<1> QED
  BY Zenon, <1>1, <1>2, <1>3 DEF Serial, AllThreadable, ControlInv, SerialBegin, SerialRefused, NewSequence, ShowExistingSerial

\* releaseShownSurfaces returns only surfaces nobody names any more.
LEMMA CallerInv ==
  ASSUME RingInv, Caller
  PROVE  SurfaceInv'
<1> USE DEF RingInv, SurfaceInv
<1>1. ASSUME NEW why \in {"reset", "close"}, CallerDrain(why) PROVE SurfaceInv'
  BY Zenon, <1>1, Reorder DEF CallerDrain, Older, RingHead, Age
<1>2. ASSUME CallNext \/ CallDrain("last") \/ CallDrain("unread") PROVE SurfaceInv'
  <2>1. /\ free' = free \cup {s \in shown : s \notin Held(slot) /\ ~DeferredRelease(s)}
        /\ shown' = {} /\ ready' = <<>>
        /\ UNCHANGED <<slot, fc, next, progress, active, cur>>
        /\ pc = "caller" /\ pc' \notin {"frame", "show"}
    BY Zenon, <1>2 DEF CallNext, CallDrain, ReleaseShown
  <2>2. \A c, d \in Contexts : Older(c, d)' <=> Older(c, d)
    BY Zenon, <2>1 DEF Older, RingHead, Age
  <2>3. ContextInv' /\ ActiveInv' /\ ReadyInv' /\ ProgressInv'
    BY SMTT(40), <2>1 DEF ContextInv, ActiveInv, ReadyInv, ProgressInv, Running, Held, InReady
  <2>4. ReleasedOnce'
    BY Zenon, <2>1 DEF ReleasedOnce, DeferredRelease, Held
  <2>5. TargetInv'
    BY SMTT(40), <2>1, <2>2 DEF TargetInv, Decoding, InReady
  <2>6. ParkedInv' /\ ReferenceInv'
    BY Zenon, <2>1, <2>2 DEF ParkedInv, ReferenceInv, Decoding, Held
  <2> QED
    BY Zenon, <2>3, <2>4, <2>5, <2>6
<1> QED
  BY Zenon, <1>1, <1>2 DEF Caller

LEMMA ThreadedInv ==
  ASSUME RingInv, Threaded
  PROVE  SurfaceInv'
<1> USE DEF RingInv
<1>0. TypeOK /\ next \in Contexts /\ cur \in Contexts
  BY Zenon DEF TypeInv, TypeOK
<1>1. ASSUME NEW kind \in {"frame", "show"}, TakeContext(kind) PROVE SurfaceInv'
  <2>1. RingHead' = RingHead
    BY Zenon, <1>1 DEF TakeContext, TakeEvent, RingHead
  <2> QED
    BY Zenon, <1>1, <2>1, Reorder DEF TakeContext, Older, Age
<1>2. CASE RetireTaken
  <2>1. /\ pc \in {"frame", "show"} /\ next = Succ(cur) /\ pc' \in {"reclaim", "park"}
        /\ UNCHANGED <<slot, progress, active, shown, next, cur>>
    BY Zenon, <1>2 DEF RetireTaken, ControlInv
  <2>2. \A c, d \in Contexts \ {cur} : Older(c, d)' <=> Older(c, d)
    BY Zenon, <1>0, <2>1, HeadMoves
  <2>3. CASE fc[cur].busy
    BY Zenon, <1>0, <1>2, <2>1, <2>2, <2>3, HeadOlder, RetireInv DEF RetireTaken
  <2>4. CASE ~fc[cur].busy
    BY Zenon, <1>2, <2>1, <2>2, <2>4, Reorder DEF RetireTaken
  <2> QED
    BY Zenon, <2>3, <2>4
<1>3. CASE ReclaimOldest
  <2>1. PICK c \in Contexts : IsOldest(c) /\ Retire(c)
    BY Zenon, <1>3 DEF ReclaimOldest
  <2>2. \A d, e \in Contexts : Older(d, e)' <=> Older(d, e)
    BY Zenon, <1>3 DEF ReclaimOldest, Older, RingHead, Age
  <2>3. \A d \in Contexts \ {c} : fc[d].busy => Older(c, d)
    BY Zenon, <1>0, <1>3, <2>1, OldestOlder DEF ReclaimOldest
  <2> QED
    BY Zenon, <1>3, <2>1, <2>2, <2>3, RetireInv DEF ReclaimOldest
<1>4. CASE PoolEmpty
  BY Zenon, <1>4, Reorder DEF PoolEmpty, Older, RingHead, Age
<1> QED
  BY Zenon, <1>1, <1>2, <1>3, <1>4, RunFrameInv, RunFrameFailsInv, ShowExistingInv DEF Threaded, RunFrames

LEMMA DecodeInv ==
  ASSUME RingInv, Decode
  PROVE  SurfaceInv'
<1> USE DEF RingInv
<1>0. TypeOK
  BY Zenon DEF TypeInv
<1>1. CASE Drain
  <2>1. PICK c \in Contexts : IsOldest(c) /\ Retire(c)
    BY Zenon, <1>1 DEF Drain
  <2>2. \A d, e \in Contexts : Older(d, e)' <=> Older(d, e)
    BY Zenon, <1>1 DEF Drain, Older, RingHead, Age
  <2>3. \A d \in Contexts \ {c} : fc[d].busy => Older(c, d)
    BY Zenon, <1>0, <1>1, <2>1, OldestOlder DEF Drain, Drains
  <2> QED
    BY Zenon, <1>1, <2>1, <2>2, <2>3, RetireInv DEF Drain
<1>2. CASE EndPayload \/ EndLast
  <2>1. /\ UNCHANGED <<free, slot, fc, next, progress, active, ready, cur>>
        /\ pc \in {"events", "last"} /\ pc' = "caller"
        /\ \A s \in shown' : InReady(s) /\ s \notin free
    BY Zenon, <1>2 DEF EndPayload, EndLast, Return, Tracked, Used
  <2>2. \A c, d \in Contexts : Older(c, d)' <=> Older(c, d)
    BY Zenon, <2>1 DEF Older, RingHead, Age
  <2>3. ContextInv' /\ ReadyInv' /\ ReleasedOnce' /\ ProgressInv'
    <3>1. ContextInv'
      BY Zenon, <2>1 DEF SurfaceInv, ContextInv
    <3>2. ReadyInv'
      BY Zenon, <2>1 DEF SurfaceInv, ReadyInv
    <3>3. ReleasedOnce'
      BY Zenon, <2>1 DEF SurfaceInv, ReleasedOnce, Held
    <3>4. ProgressInv'
      BY Zenon, <2>1 DEF SurfaceInv, ProgressInv, Running
    <3> QED
      BY Zenon, <3>1, <3>2, <3>3, <3>4
  <2>4. ActiveInv'
    BY Zenon, <2>1 DEF SurfaceInv, ActiveInv, InReady, Held
  <2>5. TargetInv'
    BY Zenon, <2>1, <2>2 DEF SurfaceInv, TargetInv, Decoding, InReady
  <2>6. ParkedInv' /\ ReferenceInv'
    BY Zenon, <2>1, <2>2 DEF SurfaceInv, ParkedInv, ReferenceInv, Decoding, Held
  <2> QED
    BY Zenon, <2>3, <2>4, <2>5, <2>6 DEF SurfaceInv
<1>3. CASE EndUnread \/ EventError \/ Close
  BY ZenonT(60), <1>3, Reorder DEF EndUnread, EventError, Close, Older, RingHead, Age
<1>4. CASE EndFailed
  <2>1. UNCHANGED <<free, slot, fc, progress, active, shown>> /\ ready' = <<>> /\ NoneBusy
    BY Zenon, <1>4 DEF EndFailed
  <2>2. ReadyInv' /\ (Held(slot) \cap free)' = {} /\ ProgressInv'
    BY <2>1 DEF SurfaceInv, ReadyInv, ReleasedOnce, ProgressInv, Running, Held
  <2>3. ActiveInv'
    BY <2>1 DEF SurfaceInv, ActiveInv, Held, InReady
  <2> QED
    BY Zenon, <2>1, <2>2, <2>3, QuietInv DEF SurfaceInv
<1>5. CASE Reset
  <2>1. /\ slot' = [i \in Slots |-> None] /\ active' = None /\ ready' = <<>> /\ fc' = fc /\ NoneBusy
        /\ progress' = [s \in Surfaces |-> "done"]
    BY Zenon, <1>5 DEF Reset
  <2>2. ActiveInv' /\ ReadyInv' /\ (Held(slot) \cap free)' = {} /\ ProgressInv'
    BY <2>1 DEF ActiveInv, ReadyInv, Held, ProgressInv
  <2> QED
    BY Zenon, <2>1, <2>2, QuietInv DEF SurfaceInv
<1> QED
  BY Zenon, <1>1, <1>2, <1>3, <1>4, <1>5 DEF Decode

\* The control point keeps what it says about the rest.
LEMMA ControlStep ==
  ASSUME RingInv, AllThreadable, Next
  PROVE  ControlInv'
<1> USE DEF RingInv
<1>0. cur \in Contexts /\ next \in Contexts /\ pc \in Controls
  BY Zenon DEF TypeInv, TypeOK
<1>1. ASSUME NEW c \in Contexts, TailStep(c) PROVE ControlInv'
  <2>1. /\ UNCHANGED <<next, active, ready, shown, pc, cur>>
        /\ \A d \in Contexts : fc'[d].busy = fc[d].busy
    <3>0. fc \in [Contexts -> Context] /\ fc[c] \in Context
      BY Zenon DEF TypeInv, TypeOK
    <3>1. ASSUME NEW s \in Surfaces, TailRead(c, s) PROVE <2>1!:
      BY Zenon, <3>0, <3>1 DEF TailRead, Context
    <3>2. CASE TailRows(c)
      BY Zenon, <3>2 DEF TailRows
    <3>3. ASSUME NEW ok \in BOOLEAN, TailEnd(c, ok) PROVE <2>1!:
      BY Zenon, <3>0, <3>3 DEF TailEnd, Context
    <3> QED
      BY Zenon, <1>1, <3>1, <3>2, <3>3 DEF TailStep, TailDone, TailFail
  <2> QED
    BY Zenon, <1>0, <2>1 DEF ControlInv, NoneBusy
<1>2. CASE Threaded
  <2>1. ASSUME NEW kind \in {"frame", "show"}, TakeContext(kind) PROVE ControlInv'
    BY Zenon, <2>1 DEF ControlInv, TakeContext, TakeEvent
  <2>2. CASE RetireTaken
    BY SMTT(40), <1>0, <2>2 DEF ControlInv, RetireTaken, Retire, Idle, TypeInv, TypeOK
  <2>3. CASE ReclaimOldest
    BY Zenon, <1>0, <2>3 DEF ControlInv, ReclaimOldest, Retire, Idle, TypeInv, TypeOK
  <2>4. CASE RunFrames
    BY Zenon, <2>4 DEF ControlInv, RunFrames, RunFrame
  <2>5. CASE RunFrameFails \/ PoolEmpty
    BY Zenon, <2>5 DEF ControlInv, RunFrameFails, PoolEmpty
  <2>6. ASSUME NEW i \in Slots, NEW key \in BOOLEAN, ShowExisting(i, key) PROVE ControlInv'
    BY Zenon, <2>6 DEF ControlInv, ShowExisting
  <2> QED
    BY Zenon, <1>2, <2>1, <2>2, <2>3, <2>4, <2>5, <2>6 DEF Threaded
<1>3. CASE Serial
  <2>1. CASE NeedsFinish
    BY Zenon, <2>1 DEF ControlInv, NeedsFinish, NoneBusy
  <2>2. ASSUME NEW refresh \in SUBSET Slots, NEW show \in BOOLEAN, SerialFinish(refresh, show) PROVE ControlInv'
    BY Zenon, <2>2 DEF ControlInv, SerialFinish
  <2>3. CASE TemporalDelimiter
    BY Zenon, <2>3 DEF ControlInv, TemporalDelimiter
  <2> QED
    BY Zenon, <1>3, <2>1, <2>2, <2>3 DEF Serial, AllThreadable, ControlInv, SerialBegin, SerialRefused, NewSequence, ShowExistingSerial
<1>4. CASE Caller
  BY Zenon, <1>4 DEF ControlInv, Caller, CallNext, CallDrain, CallerDrain, ReleaseShown, NoneBusy
<1>5. CASE Decode
  <2>1. CASE Drain
    <3>1. pc' = pc /\ pc \in Drains /\ shown' = shown /\ active' = active /\ ~NoneBusy
      BY Zenon, <2>1 DEF Drain, IsOldest, NoneBusy
    <3> QED
      BY Zenon, <3>1 DEF ControlInv, Drains
  <2>2. CASE EndPayload \/ EndLast
    BY Zenon, <2>2 DEF ControlInv, EndPayload, EndLast, Return, NoneBusy
  <2>3. CASE EndUnread \/ EventError \/ Close
    BY Zenon, <2>3 DEF ControlInv, EndUnread, EventError, Close, NoneBusy
  <2>4. CASE EndFailed \/ Reset
    BY Zenon, <2>4 DEF ControlInv, EndFailed, Reset, NoneBusy
  <2> QED
    BY Zenon, <1>5, <2>1, <2>2, <2>3, <2>4 DEF Decode
<1>6. CASE Closed
  BY Zenon, <1>6 DEF ControlInv, Closed, vars, NoneBusy
<1> QED
  BY Zenon, <1>1, <1>2, <1>3, <1>4, <1>5, <1>6 DEF Next

LEMMA InitInv == Init => RingInv
<1> SUFFICES ASSUME Init PROVE RingInv
  BY Zenon
<1>1. NoneBusy /\ \A c \in Contexts : ~fc[c].existing /\ fc[c].refs = {} /\ fc[c] = Idle
  BY Zenon DEF Init, NoneBusy, Idle
<1>2. ControlInv
  BY Zenon DEF Init, ControlInv
<1>3. ContextInv /\ TargetInv /\ ParkedInv /\ ReferenceInv
  BY Zenon, <1>1 DEF ContextInv, TargetInv, ParkedInv, ReferenceInv, Decoding, NoneBusy
<1>4. ActiveInv /\ ReadyInv /\ ProgressInv
  BY SMTT(40) DEF Init, ActiveInv, ReadyInv, ProgressInv
<1>5. ReleasedOnce
  BY Zenon, <1>1 DEF Init, ReleasedOnce, NoneBusy, Held
<1> QED
  BY Zenon, <1>2, <1>3, <1>4, <1>5, InitType DEF RingInv, SurfaceInv

LEMMA RingStep ==
  ASSUME AllThreadable
  PROVE  RingInv /\ [Next]_vars => RingInv'
<1> SUFFICES ASSUME RingInv, [Next]_vars PROVE RingInv'
  BY Zenon
<1>0. TypeInv /\ SurfaceInv /\ TypeInv'
  BY Zenon, TypeStep DEF RingInv
<1>1. CASE UNCHANGED vars \/ Closed
  <2>0. UNCHANGED vars
    BY Zenon, <1>1 DEF Closed
  <2>1. SurfaceInv'
    BY Zenon, <1>0, <2>0, Reorder DEF vars, Older, RingHead, Age
  <2>2. ControlInv'
    BY Zenon, <2>0 DEF vars, RingInv, ControlInv, NoneBusy
  <2> QED
    BY Zenon, <1>0, <2>1, <2>2 DEF RingInv
<1>2. CASE Next /\ ~Closed
  <2>1. SurfaceInv'
    BY Zenon, <1>0, <1>2, TailInv, ThreadedInv, SerialInv, CallerInv, DecodeInv DEF Next
  <2> QED
    BY Zenon, <1>0, <1>2, <2>1, ControlStep DEF RingInv
<1> QED
  BY Zenon, <1>1, <1>2

LEMMA RingSafe ==
  ASSUME AllThreadable
  PROVE  Spec => []RingInv
BY InitInv, RingStep, PTL DEF Spec

\* A dropped reference outlives every frame that may read it: runFrame leaves
\* it to the frame that dropped it, which retires after every reader.
THEOREM ReadsStaySafe ==
  ASSUME AllThreadable
  PROVE  Spec => []ReadsSafe
<1>1. RingInv => ReadsSafe
  <2> SUFFICES ASSUME RingInv, NEW c \in Contexts, Running(c), NEW s \in fc[c].refs
               PROVE  /\ s \notin free
                      /\ s # active
                      /\ \A d \in Contexts : Running(d) /\ fc[d].surface = s => Older(d, c)
    BY Zenon DEF ReadsSafe
  <2>1. TypeInv /\ SurfaceInv /\ ContextInv /\ ActiveInv /\ ReferenceInv
    BY Zenon DEF RingInv, SurfaceInv
  <2>2. s \notin free
    BY Zenon, <2>1, NeededUsed
  <2>3. fc[c].busy /\ s \in Surfaces
    BY Zenon, <2>1, BusyFacts DEF TypeInv, TypeOK, Context
  <2>4. s # active
    BY Zenon, <2>1, <2>3, RingFacts DEF ActiveInv
  <2>5. \A d \in Contexts : Running(d) => Decoding(d)
    BY Zenon, <2>1, BusyFacts
  <2> QED
    BY Zenon, <2>1, <2>2, <2>4, <2>5 DEF ReferenceInv
<1> QED
  BY <1>1, RingSafe, PTL

\* No surface has two writers, and none is written while it is in the pool.
THEOREM WritersAreAlone ==
  ASSUME AllThreadable
  PROVE  Spec => []OneWriter
<1>1. RingInv => OneWriter
  <2> SUFFICES ASSUME RingInv, NEW c \in Contexts, Running(c)
               PROVE  /\ fc[c].surface \notin free \cup {active}
                      /\ \A d \in Contexts \ {c} : Running(d) => fc[d].surface # fc[c].surface
    BY Zenon DEF OneWriter
  <2>1. TypeInv /\ ContextInv /\ ActiveInv /\ TargetInv
    BY Zenon DEF RingInv, SurfaceInv
  <2>2. \A d \in Contexts : Running(d) => Decoding(d) /\ fc[d].busy /\ fc[d].surface \in Surfaces
    BY Zenon, <2>1, BusyFacts DEF Decoding
  <2>3. fc[c].surface # active
    BY Zenon, <2>1, <2>2, RingFacts DEF ActiveInv
  <2> QED
    BY Zenon, <2>1, <2>2, <2>3 DEF TargetInv, Decoding
<1> QED
  BY <1>1, RingSafe, PTL

\* Every surface goes back to the pool once: slots, releases of the frames in
\* flight and the pool never share one.
THEOREM SurfacesReleasedOnce ==
  ASSUME AllThreadable
  PROVE  Spec => []ReleasedOnce
<1>1. RingInv => ReleasedOnce
  BY Zenon DEF RingInv, SurfaceInv
<1> QED
  BY <1>1, RingSafe, PTL

\* A tail waits only for older frames in flight, so waits are not circular.
THEOREM WaitsAreServed ==
  ASSUME AllThreadable
  PROVE  Spec => []WaitsServed
<1>1. RingInv => WaitsServed
  <2> SUFFICES ASSUME RingInv, NEW c \in Contexts, Running(c), NEW s \in fc[c].refs,
                      progress[s] \notin {"done", "error"}
               PROVE  \E d \in Contexts : Running(d) /\ fc[d].surface = s /\ Older(d, c)
    BY Zenon DEF WaitsServed
  <2>1. TypeInv /\ ContextInv /\ ReferenceInv /\ ProgressInv
    BY Zenon DEF RingInv, SurfaceInv
  <2>2. s \in Surfaces
    BY Zenon, <2>1 DEF TypeInv, TypeOK, Context
  <2>3. PICK d \in Contexts : Running(d) /\ fc[d].surface = s
    BY Zenon, <2>1, <2>2 DEF ProgressInv
  <2>4. Decoding(d)
    BY Zenon, <2>1, <2>3, BusyFacts
  <2> QED
    BY Zenon, <2>1, <2>3, <2>4 DEF ReferenceInv
<1> QED
  BY <1>1, RingSafe, PTL

\* The pictures a DecodeNext call returns are not overwritten before the next.
THEOREM BatchStaysIntact ==
  ASSUME AllThreadable
  PROVE  Spec => []BatchIntact
<1>1. RingInv => BatchIntact
  <2> SUFFICES ASSUME RingInv, NEW i \in DOMAIN ready
               PROVE  /\ ready[i] # active
                      /\ \A c \in Contexts : Running(c) => fc[c].surface # ready[i]
    BY Zenon DEF BatchIntact
  <2>1. TypeInv /\ ContextInv /\ ActiveInv /\ TargetInv
    BY Zenon DEF RingInv, SurfaceInv
  <2>2. InReady(ready[i]) /\ ready[i] \in Surfaces
    BY <2>1 DEF InReady, TypeInv, TypeOK
  <2>3. ready[i] # active
    BY Zenon, <2>1, <2>2, RingFacts DEF ActiveInv
  <2>4. \A c \in Contexts : Running(c) => Decoding(c)
    BY Zenon, <2>1, BusyFacts
  <2> QED
    BY Zenon, <2>1, <2>2, <2>3, <2>4 DEF TargetInv
<1> QED
  BY <1>1, RingSafe, PTL

-----------------------------------------------------------------------------
\* What the code's sizes ask of a payload: its pictures, with those in flight,
\* fit shownHeldBuf (decode_simple.go), and it has at most one event more than
\* there are contexts.
FitsBatch == N + MaxEvents <= 2 * (RefFrames + 1)
FitsPool == MaxEvents <= N + 1

-----------------------------------------------------------------------------
(* Counting.                                                               *)

\* The values of a function are no more than its arguments.
LEMMA ImageCardinality ==
  ASSUME NEW S, IsFiniteSet(S), NEW f, f = [x \in S |-> f[x]]
  PROVE  LET T == {f[x] : x \in S}
         IN IsFiniteSet(T) /\ Cardinality(T) <= Cardinality(S)
<1> DEFINE T == {f[x] : x \in S}
<1>1. f \in Surjection(S, T)
  BY Zenon DEF Surjection
<1> QED
  BY Zenon, <1>1, FS_Surjection

\* The surfaces behind the pictures of a call.
LEMMA ReadyCardinality ==
  ASSUME TypeInv
  PROVE  LET behind == {s \in Surfaces : InReady(s)}
         IN IsFiniteSet(behind) /\ Cardinality(behind) <= Len(ready)
<1> DEFINE behind == {s \in Surfaces : InReady(s)}
<1>1. ready \in Seq(Surfaces) /\ Len(ready) \in Nat /\ DOMAIN ready = 1 .. Len(ready)
  BY DEF TypeInv, TypeOK
<1>2. ready = [i \in 1 .. Len(ready) |-> ready[i]]
  BY <1>1
<1>3. IsFiniteSet(1 .. Len(ready)) /\ Cardinality(1 .. Len(ready)) = Len(ready)
  BY <1>1, FS_Interval
<1>4. behind = {ready[i] : i \in 1 .. Len(ready)}
  BY <1>1 DEF InReady
<1> QED
  BY <1>2, <1>3, <1>4, ImageCardinality

LEMMA HeldCardinality ==
  ASSUME TypeInv
  PROVE  IsFiniteSet(Held(slot)) /\ Cardinality(Held(slot)) <= RefFrames
<1>1. IsFiniteSet(Slots) /\ Cardinality(Slots) = RefFrames
  BY RingFacts, FS_Interval DEF Slots
<1>2. slot = [i \in Slots |-> slot[i]]
  BY Zenon DEF TypeInv, TypeOK
<1> DEFINE T == {slot[i] : i \in Slots}
<1>3. IsFiniteSet(T) /\ Cardinality(T) <= RefFrames
  BY Zenon, <1>1, <1>2, ImageCardinality
<1>4. Held(slot) \in SUBSET T
  BY Zenon DEF Held
<1>5. IsFiniteSet(Held(slot)) /\ Cardinality(Held(slot)) <= Cardinality(T)
  BY Zenon, <1>3, <1>4, FS_Subset
<1>6. Cardinality(T) \in Nat /\ Cardinality(Held(slot)) \in Nat
  BY Zenon, <1>3, <1>5, FS_CardinalityType
<1> QED
  BY <1>3, <1>5, <1>6, RingFacts

LEMMA BusyCardinality ==
  /\ IsFiniteSet(Busy)
  /\ Cardinality(Busy) \in 0 .. N
<1>1. IsFiniteSet(Contexts) /\ Cardinality(Contexts) = N
  BY RingFacts, FS_Interval DEF Contexts
<1>2. Busy \in SUBSET Contexts
  BY Zenon DEF Busy
<1> QED
  BY <1>1, <1>2, FS_Subset, FS_CardinalityType, RingFacts

LEMMA BusyNext == Cardinality(Busy') \in 0 .. N
<1>1. IsFiniteSet(Contexts) /\ Cardinality(Contexts) = N
  BY RingFacts, FS_Interval DEF Contexts
<1>2. Busy' \in SUBSET Contexts
  BY Zenon DEF Busy
<1> QED
  BY <1>1, <1>2, FS_Subset, FS_CardinalityType, RingFacts

-----------------------------------------------------------------------------
(* With nothing left to retire the slots and the pictures of this call     *)
(* leave a surface free.                                                   *)
LEMMA Sufficient ==
  ASSUME TypeInv, AccountsInv, FitsPool
  PROVE  PoolSufficient
<1> SUFFICES ASSUME pc = "reclaim", NoneBusy, free = {} PROVE FALSE
  BY Zenon DEF PoolSufficient
<1> DEFINE behind == {s \in Surfaces : InReady(s)}
<1>1. Busy = {}
  BY Zenon DEF Busy, NoneBusy
<1>2. Len(ready) + budget + 1 <= N + MaxEvents
  BY <1>1, FS_EmptySet DEF AccountsInv, BatchBound, Taken, Between, TypeInv, TypeOK
<1>3. Surfaces \in SUBSET (Held(slot) \cup behind)
  BY Zenon DEF AccountsInv, Accounted, NoneBusy, Used, Between
<1>4. /\ IsFiniteSet(Held(slot)) /\ IsFiniteSet(behind)
      /\ Cardinality(Held(slot)) <= RefFrames /\ Cardinality(behind) <= Len(ready)
  BY Zenon, HeldCardinality, ReadyCardinality
<1>5. /\ IsFiniteSet(Held(slot) \cup behind)
      /\ Cardinality(Held(slot) \cup behind) =
           Cardinality(Held(slot)) + Cardinality(behind) - Cardinality(Held(slot) \cap behind)
  BY Zenon, <1>4, FS_Union
<1>6. Cardinality(Surfaces) <= Cardinality(Held(slot) \cup behind)
  BY Zenon, <1>3, <1>5, FS_Subset
<1>7. IsFiniteSet(Held(slot) \cap behind)
  BY Zenon, <1>4, FS_Intersection
<1>8. /\ Cardinality(Held(slot)) \in Nat /\ Cardinality(behind) \in Nat
      /\ Cardinality(Held(slot) \cap behind) \in Nat
  BY Zenon, <1>4, <1>7, FS_CardinalityType
<1>9. Len(ready) \in Nat /\ budget \in Nat
  BY RingFacts DEF TypeInv, TypeOK
<1> QED
  BY <1>2, <1>4, <1>5, <1>6, <1>8, <1>9, RingFacts, SurfaceCount DEF FitsPool
-----------------------------------------------------------------------------
(* Steps.                                                                  *)

\* The batch a call returns is tracked as a whole.
LEMMA WholeBatch ==
  ASSUME TypeInv, AccountsInv, FitsBatch, pc \notin Between,
         NEW t \in SUBSET Surfaces, Tracked(t)
  PROVE  \A s \in Used : InReady(s) => s \in t
<1> DEFINE behind == {s \in Surfaces : InReady(s)}
           used == {s \in Used : InReady(s)}
<1>1. IsFiniteSet(behind) /\ Cardinality(behind) <= Len(ready)
  BY Zenon, ReadyCardinality
<1>2. used \in SUBSET behind /\ t \in SUBSET used
  BY Zenon DEF Tracked, Used
<1>3. IsFiniteSet(used) /\ Cardinality(used) <= Cardinality(behind)
  BY Zenon, <1>1, <1>2, FS_Subset
<1>4. Cardinality(t) <= Cardinality(used) /\ (Cardinality(used) = Cardinality(t) => used = t)
  BY Zenon, <1>2, <1>3, FS_Subset
<1>5. Len(ready) <= 2 * (RefFrames + 1)
  BY BusyCardinality, RingFacts DEF AccountsInv, BatchBound, FitsBatch, Taken, TypeInv, TypeOK
<1>6. IsFiniteSet(t)
  BY Zenon, <1>2, <1>3, FS_Subset
<1>7. Cardinality(used) \in Nat /\ Cardinality(t) \in Nat /\ Cardinality(behind) \in Nat
  BY Zenon, <1>1, <1>3, <1>6, FS_CardinalityType
<1>8. Len(ready) \in Nat
  BY DEF TypeInv, TypeOK
<1>9. t = used \/ Cardinality(t) = 2 * (RefFrames + 1)
  BY Zenon DEF Tracked
<1>10. t = used
  BY <1>1, <1>3, <1>4, <1>5, <1>7, <1>8, <1>9, RingFacts
<1> QED
  BY Zenon, <1>10

\* retire: what the frame accounted for goes back to the pool or is behind a
\* picture of this call, and the picture takes the frame's place in the count.
LEMMA RetireAccounts ==
  ASSUME TypeInv, AccountsInv, Clean, NEW c \in Contexts, Retire(c),
         UNCHANGED <<slot, shown>>
  PROVE  /\ ~err'
         /\ \A d \in Contexts : fc'[d].ok /\ (fc'[d].busy => fc[d].busy)
         /\ ~fc'[c].busy
         /\ \A s \in Used' : Accounted(s)'
         /\ \A s \in Surfaces : InReady(s) => InReady(s)'
         /\ Len(ready') + Cardinality(Busy') <= Len(ready) + Cardinality(Busy)
<1>1. /\ fc[c].busy /\ fc[c].ok /\ fc' = [fc EXCEPT ![c] = Idle]
      /\ free' = free \cup {s \in fc[c].releases : ~InReady(s)}
      /\ err' = err
      /\ ready' = IF fc[c].show THEN Append(ready, fc[c].surface) ELSE ready
  BY Zenon DEF Retire, AccountsInv, Clean
<1>2. ready \in Seq(Surfaces) /\ fc \in [Contexts -> Context] /\ free \subseteq Surfaces
  BY Zenon DEF TypeInv, TypeOK
<1>3. fc[c].surface \in Surfaces
  BY Zenon, <1>1, <1>2 DEF TypeInv, OutputInv, Context
<1>4. ~err'
  BY Zenon, <1>1 DEF AccountsInv
<1>5. ~fc'[c].busy /\ fc'[c].ok /\ \A d \in Contexts \ {c} : fc'[d] = fc[d]
  BY Zenon, <1>1, <1>2 DEF Idle
<1>6. \A d \in Contexts : fc'[d].ok /\ (fc'[d].busy => fc[d].busy)
  BY Zenon, <1>5 DEF AccountsInv
<1>7. /\ \A s \in Surfaces : InReady(s) => InReady(s)'
      /\ fc[c].show => \A s \in Surfaces : s = fc[c].surface => InReady(s)'
      /\ Len(ready') <= Len(ready) + 1
  <2>1. CASE fc[c].show
    <3>1. ready' = Append(ready, fc[c].surface)
      BY Zenon, <2>1, <1>1
    <3>2. Len(ready') = Len(ready) + 1 /\ Len(ready) \in Nat
      BY <3>1, <1>2, <1>3
    <3>3. \A s : InReady(s)' <=> s = fc[c].surface \/ InReady(s)
      BY <3>1, <1>2, <1>3, AppendReady DEF InReady
    <3> QED
      BY <3>2, <3>3
  <2>2. CASE ~fc[c].show
    BY <2>2, <1>1, <1>2 DEF InReady
  <2> QED
    BY Zenon, <2>1, <2>2
<1>8. \A s \in Used' : Accounted(s)'
  <2> SUFFICES ASSUME NEW s \in Surfaces, s \notin free' PROVE Accounted(s)'
    BY Zenon DEF Used
  <2>1. s \notin free /\ Accounted(s)
    BY Zenon, <1>1 DEF AccountsInv, Used
  <2>2. CASE s \in Held(slot) \cup shown \/ InReady(s)
    BY Zenon, <2>2, <1>7 DEF Accounted, Held
  <2>3. CASE \E d \in Contexts : fc[d].busy /\ (s \in fc[d].releases \/ (fc[d].show /\ fc[d].surface = s))
    <3>1. PICK d \in Contexts : fc[d].busy /\ (s \in fc[d].releases \/ (fc[d].show /\ fc[d].surface = s))
      BY Zenon, <2>3
    <3>2. CASE d = c
      <4>1. InReady(s)'
        <5>1. CASE s \in fc[c].releases
          BY Zenon, <5>1, <1>1, <1>7
        <5>2. CASE fc[c].show /\ fc[c].surface = s
          BY Zenon, <5>2, <1>7
        <5> QED
          BY Zenon, <3>1, <3>2, <5>1, <5>2
      <4> QED
        BY Zenon, <4>1 DEF Accounted
    <3>3. CASE d # c
      <4>1. fc'[d] = fc[d]
        BY Zenon, <1>5, <3>3
      <4> QED
        BY Zenon, <3>1, <4>1 DEF Accounted
    <3> QED
      BY Zenon, <3>2, <3>3
  <2> QED
    BY Zenon, <2>1, <2>2, <2>3 DEF Accounted
<1>9. Busy' = Busy \ {c} /\ c \in Busy
  BY Zenon, <1>1, <1>5 DEF Busy
<1>10. Cardinality(Busy') = Cardinality(Busy) - 1
  BY Zenon, <1>9, BusyCardinality, FS_RemoveElement
<1> QED
  BY <1>2, <1>4, <1>5, <1>6, <1>7, <1>8, <1>10, BusyCardinality

\* A tail changes neither who accounts for a surface nor how many are busy.
LEMMA TailAccounts ==
  ASSUME TypeInv, AccountsInv, Clean, NEW c \in Contexts, TailStep(c)
  PROVE  AccountsInv'
<1> DEFINE Same == /\ \A d \in Contexts : /\ fc'[d].busy = fc[d].busy
                                          /\ fc'[d].releases = fc[d].releases
                                          /\ fc'[d].show = fc[d].show
                                          /\ fc'[d].surface = fc[d].surface
                                          /\ fc'[d].ok
                   /\ \A s \in Surfaces : progress'[s] # "error"
<1>1. fc \in [Contexts -> Context] /\ progress \in [Surfaces -> Progress]
  BY Zenon DEF TypeInv, TypeOK
<1>2. UNCHANGED <<free, slot, active, ready, err, shown, pc, cur, budget>>
  BY Zenon DEF TailStep, TailRead, TailRows, TailDone, TailFail, TailEnd
<1>3. Same
  <2>1. ASSUME NEW s \in Surfaces, TailRead(c, s) PROVE Same
    BY Zenon, <1>1, <2>1 DEF TailRead, AccountsInv, Context
  <2>2. CASE TailRows(c)
    BY Zenon, <1>1, <2>2 DEF TailRows, AccountsInv
  <2>3. CASE TailDone(c)
    <3>1. /\ progress' = [progress EXCEPT ![fc[c].surface] = "done"]
          /\ fc' = [fc EXCEPT ![c] = [@ EXCEPT !.phase = "done", !.refs = {}, !.ok = TRUE]]
      BY Zenon, <2>3 DEF TailDone, TailEnd
    <3> QED
      BY Zenon, <1>1, <3>1 DEF AccountsInv, Context
  <2>4. ~TailFail(c)
    BY Zenon, <1>1 DEF TailFail, AccountsInv, Clean, Context
  <2> QED
    BY Zenon, <2>1, <2>2, <2>3, <2>4 DEF TailStep
<1> HIDE DEF Same
<1>4. Busy' = Busy
  BY Zenon, <1>3 DEF Busy, Same
<1>5. \A s : InReady(s)' <=> InReady(s)
  BY Zenon, <1>2 DEF InReady
<1>6. \A s : Accounted(s) => Accounted(s)'
  BY Zenon, <1>2, <1>3, <1>5 DEF Accounted, Held, Same
<1>7. \A s \in Used' : Accounted(s)'
  BY Zenon, <1>2, <1>6 DEF AccountsInv, Used
<1>8. BatchBound'
  BY Zenon, <1>2, <1>4 DEF AccountsInv, BatchBound, Taken
<1>9. cur \in Contexts /\ (err' <=> err)
  BY Zenon, <1>2 DEF TypeInv, TypeOK
<1> QED
  BY Zenon, <1>2, <1>3, <1>5, <1>7, <1>8, <1>9 DEF AccountsInv, Used, Same

\* A step that moves only the control point and what it counts.
LEMMA StillAccounts ==
  ASSUME AccountsInv, UNCHANGED <<free, slot, fc, ready, shown>>
  PROVE  Busy' = Busy /\ \A s \in Used' : Accounted(s)'
BY DEF AccountsInv, Used, Accounted, Held, InReady, Busy

\* Both ways runFrame and showExisting fill the context they took.
LEMMA FillAccounts ==
  ASSUME TypeInv, AccountsInv, pc \in {"reclaim", "park"}, pc' = "events",
         NEW s \in Surfaces, free' \in {free, free \ {s}},
         UNCHANGED <<ready, err, shown, active, budget, cur>>,
         \A x \in Surfaces : progress'[x] # "error",
         \A d \in Contexts \ {cur} : fc'[d] = fc[d],
         fc'[cur].busy, fc'[cur].ok, fc'[cur].surface = s,
         fc'[cur].releases = Held(slot) \ Held(slot'),
         fc'[cur].show \/ s \in Held(slot')
  PROVE  AccountsInv'
<1>1. /\ cur \in Contexts /\ budget \in Nat /\ Len(ready) \in Nat /\ Cardinality(Busy) \in Nat
      /\ pc \notin Between /\ ~fc[cur].busy /\ shown = {} /\ Held(slot)' = Held(slot')
  BY BusyCardinality, RingFacts DEF TypeInv, TypeOK, AccountsInv, Between, Held
<1>2. Busy' = Busy \cup {cur} /\ cur \notin Busy
  BY Zenon, <1>1 DEF Busy
<1>3. Cardinality(Busy') = Cardinality(Busy) + 1
  BY Zenon, <1>2, BusyCardinality, FS_AddElement
<1>4. BatchBound'
  BY <1>1, <1>3 DEF AccountsInv, BatchBound, Taken, Between
<1>5. \A x \in Used' : Accounted(x)'
  <2> SUFFICES ASSUME NEW x \in Surfaces, x \notin free' PROVE Accounted(x)'
    BY Zenon DEF Used
  <2>0. InReady(x)' <=> InReady(x)
    BY Zenon DEF InReady
  <2>1. CASE x = s
    BY Zenon, <1>1, <2>1 DEF Accounted
  <2>2. CASE x # s
    <3>1. Accounted(x)
      BY Zenon, <2>2 DEF AccountsInv, Used
    <3>2. CASE x \in Held(slot)
      BY Zenon, <3>2, <1>1 DEF Accounted
    <3>3. CASE InReady(x)
      BY Zenon, <3>3, <2>0 DEF Accounted
    <3>4. ASSUME NEW d \in Contexts, fc[d].busy, x \in fc[d].releases \/ (fc[d].show /\ fc[d].surface = x)
          PROVE  Accounted(x)'
      <4>1. fc'[d] = fc[d]
        BY Zenon, <3>4, <1>1
      <4> QED
        BY Zenon, <3>4, <4>1 DEF Accounted
    <3> QED
      BY Zenon, <1>1, <3>1, <3>2, <3>3, <3>4 DEF Accounted
  <2> QED
    BY Zenon, <2>1, <2>2
<1>6. \A d \in Contexts : fc'[d].ok
  BY Zenon, <1>1 DEF AccountsInv
<1>7. active' = None /\ ~err'
  BY Zenon DEF AccountsInv
<1> QED
  BY Zenon, <1>1, <1>4, <1>5, <1>6, <1>7 DEF AccountsInv, Between

LEMMA ThreadedAccounts ==
  ASSUME TypeInv, AccountsInv, Clean, FitsPool, Threaded
  PROVE  AccountsInv'
<1>0. /\ fc \in [Contexts -> Context] /\ cur \in Contexts /\ next \in Contexts
      /\ slot \in [Slots -> Surfaces \cup {None}] /\ progress \in [Surfaces -> Progress]
      /\ budget \in Nat /\ Len(ready) \in Nat /\ Cardinality(Busy) \in Nat
  BY BusyCardinality, RingFacts DEF TypeInv, TypeOK
<1>1. ASSUME NEW kind \in {"frame", "show"}, TakeContext(kind) PROVE AccountsInv'
  <2>1. /\ UNCHANGED <<free, slot, fc, progress, active, ready, err, shown>>
        /\ pc = "events" /\ budget > 0 /\ budget' = budget - 1 /\ pc' \in {"frame", "show"}
    BY Zenon, <1>1 DEF TakeContext, TakeEvent
  <2>2. Busy' = Busy /\ \A s \in Used' : Accounted(s)'
    BY Zenon, <2>1, StillAccounts
  <2>3. BatchBound'
    BY <1>0, <2>1, <2>2, RingFacts DEF AccountsInv, BatchBound, Taken, Between
  <2>4. err' <=> err
    BY Zenon, <2>1
  <2> QED
    BY Zenon, <2>1, <2>2, <2>3, <2>4 DEF AccountsInv, Between
<1>2. CASE RetireTaken
  <2>0. /\ UNCHANGED <<slot, next, progress, active, shown, cur, budget>>
        /\ pc \in {"frame", "show"} /\ pc' \in {"reclaim", "park"}
    BY Zenon, <1>2 DEF RetireTaken
  <2>1. CASE fc[cur].busy
    <3>1. Retire(cur)
      BY Zenon, <1>2, <2>1 DEF RetireTaken
    <3>2. Len(ready') \in Nat /\ Cardinality(Busy') \in Nat
      BY <3>1, <1>0, RetireType, BusyNext, RingFacts
    <3>3. BatchBound'
      BY <2>0, <3>1, <3>2, <1>0, RetireAccounts, RingFacts DEF AccountsInv, BatchBound, Taken, Between
    <3> QED
      BY Zenon, <2>0, <3>1, <3>3, <1>0, RetireAccounts DEF AccountsInv, Between
  <2>2. CASE ~fc[cur].busy
    <3>1. UNCHANGED <<free, fc, ready, err>>
      BY Zenon, <1>2, <2>2 DEF RetireTaken
    <3>2. Busy' = Busy /\ \A s \in Used' : Accounted(s)'
      BY Zenon, <2>0, <3>1, StillAccounts
    <3>3. BatchBound'
      BY Zenon, <2>0, <3>1, <3>2 DEF AccountsInv, BatchBound, Taken, Between
    <3>4. err' <=> err
      BY Zenon, <3>1
    <3> QED
      BY Zenon, <2>0, <2>2, <3>1, <3>2, <3>3, <3>4 DEF AccountsInv, Between
  <2> QED
    BY Zenon, <2>1, <2>2
<1>3. CASE ReclaimOldest
  <2>0. /\ UNCHANGED <<slot, next, progress, active, shown, pc, cur, budget>>
        /\ pc = "reclaim"
    BY Zenon, <1>3 DEF ReclaimOldest
  <2>1. PICK c \in Contexts : Retire(c)
    BY Zenon, <1>3 DEF ReclaimOldest
  <2>2. Len(ready') \in Nat /\ Cardinality(Busy') \in Nat
    BY <2>1, RetireType, BusyNext, RingFacts
  <2>3. BatchBound'
    BY <2>0, <2>1, <2>2, <1>0, RetireAccounts, RingFacts DEF AccountsInv, BatchBound, Taken, Between
  <2> QED
    BY Zenon, <2>0, <2>1, <2>3, <1>0, RetireAccounts DEF AccountsInv, Between
<1>4. ASSUME NEW reads \in SUBSET Slots, NEW refresh \in SUBSET Slots, NEW show \in BOOLEAN,
             RunFrame(reads, refresh, show)
      PROVE  AccountsInv'
  <2>1. PICK s \in Surfaces :
          /\ free' = free \ {s}
          /\ progress' = [progress EXCEPT ![s] = "none"]
          /\ slot' = Refresh(refresh, s)
          /\ fc' = [fc EXCEPT ![cur] =
               [Idle EXCEPT !.busy = TRUE, !.surface = s, !.refs = {slot[i] : i \in reads},
                            !.releases = Dropped(Refresh(refresh, s)), !.show = show, !.phase = "run"]]
    BY Zenon, <1>4 DEF RunFrame, Plan
  <2>2. /\ \A d \in Contexts \ {cur} : fc'[d] = fc[d]
        /\ fc'[cur].busy /\ fc'[cur].ok /\ fc'[cur].surface = s /\ fc'[cur].show = show
        /\ fc'[cur].releases = Held(slot) \ Held(slot')
    BY Zenon, <1>0, <2>1 DEF Idle, Dropped
  <2>3. show \/ refresh # {}
    BY Zenon, <1>4 DEF RunFrame, Admissible, Clean
  <2>4. refresh # {} => s \in Held(slot')
    BY Zenon, <2>1, RingFacts DEF Refresh, Held
  <2>5. \A x \in Surfaces : progress'[x] # "error"
    BY Zenon, <1>0, <2>1 DEF AccountsInv
  <2>6. pc = "reclaim" /\ pc' = "events" /\ UNCHANGED <<ready, err, shown, active, budget, cur>>
    BY Zenon, <1>4 DEF RunFrame
  <2> QED
    BY Zenon, <2>1, <2>2, <2>3, <2>4, <2>5, <2>6, FillAccounts
<1>5. ~RunFrameFails /\ ~PoolEmpty
  <2>1. ~RunFrameFails
    BY Zenon DEF RunFrameFails, Clean
  <2>2. ~PoolEmpty
    BY Zenon, Sufficient DEF PoolEmpty, PoolSufficient
  <2> QED
    BY Zenon, <2>1, <2>2
<1>6. ASSUME NEW i \in Slots, NEW key \in BOOLEAN, ShowExisting(i, key) PROVE AccountsInv'
  <2> DEFINE slots == IF key THEN Refresh(Slots, slot[i]) ELSE slot
  <2>1. /\ slot[i] # None /\ slot' = slots
        /\ fc' = [fc EXCEPT ![cur] =
             [Idle EXCEPT !.busy = TRUE, !.existing = TRUE, !.surface = slot[i],
                          !.releases = Dropped(slots), !.show = TRUE]]
        /\ pc = "park" /\ pc' = "events"
        /\ UNCHANGED <<free, progress, ready, err, shown, active, budget, cur>>
    BY Zenon, <1>6 DEF ShowExisting
  <2> HIDE DEF slots
  <2>2. /\ \A d \in Contexts \ {cur} : fc'[d] = fc[d]
        /\ fc'[cur].busy /\ fc'[cur].ok /\ fc'[cur].surface = slot[i] /\ fc'[cur].show
        /\ fc'[cur].releases = Held(slot) \ Held(slot')
    BY Zenon, <1>0, <2>1 DEF Idle, Dropped
  <2>3. slot[i] \in Surfaces /\ \A x \in Surfaces : progress'[x] # "error"
    BY Zenon, <1>0, <2>1 DEF AccountsInv
  <2> QED
    BY Zenon, <2>1, <2>2, <2>3, FillAccounts
<1> QED
  BY Zenon, <1>1, <1>2, <1>3, <1>4, <1>5, <1>6 DEF Threaded, RunFrames

LEMMA SerialAccounts ==
  ASSUME TypeInv, AccountsInv, Clean, Serial
  PROVE  AccountsInv'
<1>0. /\ budget \in Nat /\ Len(ready) \in Nat /\ Cardinality(Busy) \in Nat
  BY BusyCardinality, RingFacts DEF TypeInv, TypeOK
<1>1. NeedsDrain("newseq") \/ NewSequence
  <2>1. ~("serial" \in Inputs)
    BY Zenon DEF Clean
  <2>2. ~NeedsFinish /\ ~SerialRefused /\ ~TemporalDelimiter
    BY Zenon DEF AccountsInv, NeedsFinish, SerialRefused, TemporalDelimiter
  <2>3. \A reads : ~SerialBegin(reads)
    BY Zenon DEF AccountsInv, SerialBegin
  <2>4. \A refresh, show : ~SerialFinish(refresh, show)
    BY Zenon DEF AccountsInv, SerialFinish
  <2>5. \A i, key : ~ShowExistingSerial(i, key)
    BY Zenon DEF AccountsInv, ShowExistingSerial
  <2> QED
    BY Zenon, <2>1, <2>2, <2>3, <2>4, <2>5 DEF Serial
<1>2. CASE NeedsDrain("newseq")
  <2>1. /\ UNCHANGED <<free, slot, fc, progress, active, ready, err, shown>>
        /\ pc = "events" /\ budget > 0 /\ budget' = budget - 1 /\ pc' = "newseq"
    BY Zenon, <1>2 DEF NeedsDrain, TakeEvent
  <2>2. Busy' = Busy /\ \A s \in Used' : Accounted(s)'
    BY Zenon, <2>1, StillAccounts
  <2>3. BatchBound'
    BY <1>0, <2>1, <2>2, RingFacts DEF AccountsInv, BatchBound, Taken, Between
  <2>4. err' <=> err
    BY Zenon, <2>1
  <2> QED
    BY Zenon, <2>1, <2>2, <2>3, <2>4 DEF AccountsInv, Between
<1>3. CASE NewSequence
  <2>1. /\ UNCHANGED <<fc, progress, ready, err, shown, budget>>
        /\ pc = "newseq" /\ pc' = "events" /\ active' = None
        /\ Held(slot) \subseteq free' /\ free \subseteq free'
    BY Zenon, <1>3 DEF NewSequence
  <2>2. \A s \in Used' : Accounted(s)'
    BY Zenon, <2>1 DEF AccountsInv, Used, Accounted, InReady
  <2>3. BatchBound'
    BY Zenon, <2>1 DEF AccountsInv, BatchBound, Taken, Between, Busy
  <2>4. err' <=> err
    BY Zenon, <2>1
  <2> QED
    BY Zenon, <2>1, <2>2, <2>3, <2>4 DEF AccountsInv, Between
<1> QED
  BY Zenon, <1>1, <1>2, <1>3

LEMMA CallerAccounts ==
  ASSUME TypeInv, AccountsInv, Clean, Caller
  PROVE  AccountsInv'
<1>0. /\ Cardinality(Busy) \in 0 .. N /\ budget \in 0 .. MaxEvents
      /\ pc = "caller" /\ UNCHANGED <<slot, fc, progress, active, err>>
  BY Zenon, BusyCardinality, RingFacts DEF TypeInv, TypeOK, Caller, CallNext, CallDrain, CallerDrain
<1>1. ASSUME ReleaseShown, ready' = <<>>, pc' \in {"events", "last"}, budget' \in 0 .. MaxEvents
      PROVE  AccountsInv'
  <2>1. /\ free' = free \cup {s \in shown : s \notin Held(slot) /\ ~DeferredRelease(s)}
        /\ shown' = {}
    BY Zenon, <1>1 DEF ReleaseShown
  <2>2. \A s \in Used' : Accounted(s)'
    <3> SUFFICES ASSUME NEW s \in Surfaces, s \notin free' PROVE Accounted(s)'
      BY Zenon DEF Used
    <3>1. s \notin free /\ (s \in shown => s \in Held(slot) \/ DeferredRelease(s))
      BY Zenon, <2>1
    <3>2. Accounted(s) /\ (InReady(s) => s \in shown)
      BY Zenon, <3>1, <1>0 DEF AccountsInv, Used
    <3>3. Held(slot)' = Held(slot)
      BY Zenon, <1>0 DEF Held
    <3> QED
      BY Zenon, <3>1, <3>2, <3>3, <1>0 DEF Accounted, DeferredRelease
  <2>3. BatchBound'
    <3>1. Len(ready') = 0 /\ Busy' = Busy /\ Taken' = 0
      BY Zenon, <1>0, <1>1 DEF Busy, Taken
    <3> QED
      BY <3>1, <1>0, <1>1, RingFacts DEF BatchBound
  <2>4. err' <=> err
    BY Zenon, <1>0
  <2> QED
    BY Zenon, <1>0, <1>1, <2>1, <2>2, <2>3, <2>4 DEF AccountsInv, Between
<1>2. CASE CallNext
  BY <1>1, <1>2, RingFacts DEF CallNext
<1>3. CASE CallDrain("last")
  BY Zenon, <1>0, <1>1, <1>3 DEF CallDrain
<1>4. ~("error" \in Inputs)
  BY Zenon DEF Clean
<1>5. ASSUME NEW why \in {"reset", "close"}, CallerDrain(why) PROVE AccountsInv'
  <2>1. UNCHANGED <<free, slot, fc, progress, active, ready, err, shown>> /\ pc' \in {"reset", "close"}
    BY Zenon, <1>5 DEF CallerDrain
  <2>2. \A s \in Used' : Accounted(s)'
    BY Zenon, <2>1, StillAccounts
  <2>3. err' <=> err
    BY Zenon, <2>1
  <2> QED
    BY Zenon, <1>0, <2>1, <2>2, <2>3 DEF AccountsInv, Between, BatchBound
<1> QED
  BY Zenon, <1>2, <1>3, <1>4, <1>5 DEF Caller

LEMMA DecodeAccounts ==
  ASSUME TypeInv, AccountsInv, Clean, FitsBatch, Decode
  PROVE  AccountsInv'
<1>0. /\ fc \in [Contexts -> Context] /\ cur \in Contexts
      /\ budget \in Nat /\ Len(ready) \in Nat /\ Cardinality(Busy) \in Nat
  BY BusyCardinality, RingFacts DEF TypeInv, TypeOK
<1>1. CASE Drain
  <2>0. /\ UNCHANGED <<slot, next, progress, active, shown, pc, cur, budget>>
        /\ pc \in Drains
    BY Zenon, <1>1 DEF Drain
  <2>1. PICK c \in Contexts : Retire(c)
    BY Zenon, <1>1 DEF Drain
  <2>2. Len(ready') \in Nat /\ Cardinality(Busy') \in Nat
    BY <2>1, RetireType, BusyNext, RingFacts
  <2>3. BatchBound'
    BY <2>0, <2>1, <2>2, <1>0, RetireAccounts, RingFacts DEF AccountsInv, BatchBound, Taken, Between
  <2> QED
    BY Zenon, <2>0, <2>1, <2>3, <1>0, RetireAccounts DEF AccountsInv, Between, Drains
<1>2. CASE EndPayload \/ EndLast
  <2>1. /\ pc \notin Between /\ pc' = "caller" /\ ~err'
        /\ UNCHANGED <<free, slot, fc, progress, active, ready>>
    BY Zenon, <1>2 DEF EndPayload, EndLast, Return, Between
  <2>2. PICK t \in SUBSET Surfaces : Tracked(t) /\ shown' = t
    BY Zenon, <1>2 DEF EndPayload, EndLast, Return, AccountsInv
  <2>3. \A s \in Used : InReady(s) => s \in t
    BY Zenon, <2>1, <2>2, WholeBatch
  <2>4. shown = {}
    BY Zenon, <2>1 DEF AccountsInv
  <2>5. \A s \in Used' : Accounted(s)'
    BY <2>1, <2>4 DEF AccountsInv, Used, Accounted, Held, InReady
  <2>6. \A s \in Used' : InReady(s)' => s \in shown'
    BY Zenon, <2>1, <2>2, <2>3 DEF Used, InReady
  <2> QED
    BY Zenon, <2>1, <2>5, <2>6 DEF AccountsInv, Between, BatchBound
<1>3. ~EndUnread /\ ~EndFailed /\ ~EventError
  BY Zenon DEF EndUnread, EndFailed, EventError, AccountsInv, Clean
<1>4. CASE Reset
  <2>1. /\ free' = Surfaces /\ UNCHANGED fc /\ progress' = [s \in Surfaces |-> "done"] /\ active' = None
        /\ ~err' /\ pc' = "caller"
    BY Zenon, <1>4 DEF Reset
  <2>2. \A s \in Surfaces : progress'[s] # "error"
    BY Zenon, <2>1
  <2>3. Used' = {}
    BY Zenon, <2>1 DEF Used
  <2> QED
    BY Zenon, <2>1, <2>2, <2>3 DEF AccountsInv, Between, BatchBound
<1>5. CASE Close
  <2>1. UNCHANGED <<free, slot, fc, progress, active, ready, err, shown>> /\ pc' = "closed"
    BY Zenon, <1>5 DEF Close
  <2>2. \A s \in Used' : Accounted(s)'
    BY Zenon, <2>1, StillAccounts
  <2>3. err' <=> err
    BY Zenon, <2>1
  <2> QED
    BY Zenon, <2>1, <2>2, <2>3 DEF AccountsInv, Between, BatchBound
<1> QED
  BY Zenon, <1>1, <1>2, <1>3, <1>4, <1>5 DEF Decode

LEMMA InitAccounts == Init => AccountsInv
<1> SUFFICES ASSUME Init PROVE AccountsInv
  BY Zenon
<1>1. /\ Used = {} /\ pc = "caller" /\ active = None /\ ~err
      /\ progress = [s \in Surfaces |-> "done"] /\ fc = [c \in Contexts |-> Idle]
  BY Zenon DEF Init, Used
<1>2. /\ \A s \in Surfaces : progress[s] # "error"
      /\ \A c \in Contexts : fc[c].ok
  BY Zenon, <1>1 DEF Idle
<1> QED
  BY Zenon, <1>1, <1>2 DEF AccountsInv, BatchBound, Between

LEMMA AccountsStep ==
  ASSUME TypeInv, AccountsInv, Clean, FitsBatch, FitsPool, [Next]_vars
  PROVE  AccountsInv'
<1>1. CASE UNCHANGED vars
  <2>1. UNCHANGED <<free, slot, fc, progress, active, ready, shown, pc, cur, budget>> /\ (err' <=> err)
    BY Zenon, <1>1 DEF vars
  <2>2. Busy' = Busy /\ \A s \in Used' : Accounted(s)'
    BY Zenon, <2>1, StillAccounts
  <2> QED
    BY Zenon, <2>1, <2>2 DEF AccountsInv, BatchBound, Taken, Used, InReady
<1>2. CASE Closed
  BY Zenon, <1>1, <1>2 DEF Closed
<1> QED
  BY Zenon, <1>1, <1>2, TailAccounts, ThreadedAccounts, SerialAccounts, CallerAccounts, DecodeAccounts DEF Next

LEMMA AccountsKept ==
  ASSUME Clean, FitsBatch, FitsPool
  PROVE  Spec => [](TypeInv /\ AccountsInv)
<1>1. Init => TypeInv /\ AccountsInv
  BY Zenon, InitType, InitAccounts
<1>2. (TypeInv /\ AccountsInv) /\ [Next]_vars => (TypeInv /\ AccountsInv)'
  BY Zenon, TypeStep, AccountsStep
<1> QED
  BY <1>1, <1>2, PTL DEF Spec

-----------------------------------------------------------------------------
(* The theorems.                                                           *)

\* Every surface that is not in the pool is on its way back to it: a slot, a
\* frame in flight, the batch or the shown pictures account for it.  shownHeldBuf
\* has room for the pictures a call returns (trackShownSurfaces drops the rest):
\* the payload's and those in flight.
THEOREM NothingLost ==
  ASSUME Clean, FitsBatch, FitsPool
  PROVE  Spec => []NoLeak
<1>1. TypeInv /\ AccountsInv => NoLeak
  <2> SUFFICES ASSUME AccountsInv, NEW s \in Used
               PROVE  s \in Held(slot) \cup shown \cup {active} \cup {x \in Surfaces : InReady(x)}
                        \cup UNION {fc[c].releases \cup {fc[c].surface} : c \in {d \in Contexts : fc[d].busy}}
    BY Zenon DEF NoLeak
  <2>1. Accounted(s) /\ s \in Surfaces
    BY Zenon DEF AccountsInv, Used
  <2> QED
    BY <2>1 DEF Accounted
<1> QED
  BY <1>1, AccountsKept, PTL

\* runFrame never runs out of surfaces: once it has retired what it could, one
\* is free, for payloads of at most one event more than the ring has contexts.
THEOREM PoolLargeEnough ==
  ASSUME Clean, FitsBatch, FitsPool
  PROVE  Spec => []PoolSufficient
<1>1. TypeInv /\ AccountsInv => PoolSufficient
  BY Zenon, Sufficient
<1> QED
  BY <1>1, AccountsKept, PTL
=============================================================================
