--------------------------- MODULE FramePipeline ---------------------------
(***************************************************************************)
(* The frame-threaded decode ring of decode_frame_thread.go with the       *)
(* surfaces it shares between frames: the frame pool, the reference slots, *)
(* the releases an in-flight frame defers, the batch a DecodeNext call     *)
(* returns and the shown-surface bookkeeping that frees it one call later. *)
(*                                                                         *)
(* One process is the decode goroutine: it runs DecodeNext, takes ring     *)
(* contexts, retires the frames they held, plans and publishes new frames, *)
(* decodes serial frames and drains.  The others are the tail goroutines,  *)
(* one per context, which read reference surfaces and publish the pixel    *)
(* progress of their target.  Pixels are abstracted to the ownership of    *)
(* surfaces; the pool is the abstract pool that SurfacePool implements:    *)
(* any free surface may be handed out.                                     *)
(***************************************************************************)
EXTENDS Integers, FiniteSets, Sequences

CONSTANTS
  RefFrames,   \* number of reference slots (parser.RefFrames)
  N,           \* frame contexts in the ring (decoderFrameContextCount)
  Surfaces,    \* the pool's surfaces
  None,        \* an empty reference slot; no surface
  MaxEvents,   \* frames, shown pictures and new sequences of a payload (bound)
  Inputs       \* the events and faults the streams of a run contain

Slots == 0 .. RefFrames - 1
Contexts == 0 .. N - 1

\* "unref": a hidden frame that refreshes no slot; "serial": a frame that is
\* not frame-threadable; "newseq": a sequence header that starts a new coded
\* video sequence; "error": a payload or event error; "tailerr": a frame whose
\* own decode or film grain fails; "reset", "close": the caller's Reset and Close.
InputKinds == {"unref", "show", "serial", "newseq", "error", "tailerr", "reset", "close"}

ASSUME RingAssumption ==
  /\ RefFrames \in Nat \ {0}
  /\ N \in Nat \ {0}
  /\ MaxEvents \in Nat
  /\ None \notin Surfaces
  /\ Inputs \subseteq InputKinds

\* surfaceCount: RefFrames+1 surfaces, and two more for every frame context.
ASSUME SurfaceCount ==
  /\ IsFiniteSet(Surfaces)
  /\ Cardinality(Surfaces) = RefFrames + 1 + 2 * N

VARIABLES
  free,      \* the pool's free surfaces
  slot,      \* SurfaceReferences.slots
  fc,        \* decoderFramePipeline.fcs
  next,      \* decoderFramePipeline.next
  progress,  \* decoderFramePipeline.progress
  active,    \* surface of the begun, unfinished frame of FrameWorkState
  ready,     \* decoderFramePipeline.ready: the surfaces behind the pictures
             \* of this call; between calls, of the last one
  err,       \* decoderFramePipeline.err # nil
  shown,     \* Decoder.shownHeld
  pc,        \* control point of the decode goroutine
  cur,       \* the context runFrame or showExisting took
  budget     \* such events the current payload may still have

vars == <<free, slot, fc, next, progress, active, ready, err, shown, pc, cur, budget>>

-----------------------------------------------------------------------------
\* FrameProgress: no row, some rows, FrameProgressDone, FrameProgressError.
Progress == {"none", "rows", "done", "error"}

Idle == [busy |-> FALSE, existing |-> FALSE, surface |-> None, refs |-> {},
         releases |-> {}, show |-> FALSE, phase |-> "idle", ok |-> TRUE]

Context == [busy : BOOLEAN, existing : BOOLEAN, surface : Surfaces \cup {None},
            refs : SUBSET Surfaces, releases : SUBSET Surfaces, show : BOOLEAN,
            phase : {"idle", "run", "done"}, ok : BOOLEAN]

\* Why the decode goroutine drains: what it does once no frame is in flight.
Drains == {"serial", "finish", "newseq", "showserial", "unread", "failed", "last", "reset", "close"}
Controls == {"caller", "events", "frame", "reclaim", "show", "park", "closed"} \cup Drains

Used == Surfaces \ free
InReady(s) == \E i \in DOMAIN ready : ready[i] = s
Held(slots) == {slots[i] : i \in Slots} \ {None}

\* p.next++ with its wrap.
Succ(k) == IF k + 1 = N THEN 0 ELSE k + 1

\* Context c is fcs[(head + Age(c, head)) % n].
Age(c, head) == IF c >= head THEN c - head ELSE c + N - head

\* Mutant of IsOldest: the scan starts at fcs[0] instead of at p.next.
IsOldestFromZero(c) == fc[c].busy /\ \A d \in Contexts : fc[d].busy => c <= d

\* The busy context drain and retireOldest reach first.
IsOldest(c) == fc[c].busy /\ \A d \in Contexts : fc[d].busy => Age(c, next) <= Age(d, next)

NoneBusy == \A c \in Contexts : ~fc[c].busy

\* deferredRelease: an in-flight frame returns the surface when it retires.
DeferredRelease(s) == \E c \in Contexts : fc[c].busy /\ s \in fc[c].releases

\* SurfaceReferences.Refresh: the refreshed slots, and what they let go.
Refresh(flags, s) == [i \in Slots |-> IF i \in flags THEN s ELSE slot[i]]
Dropped(slots) == Held(slot) \ Held(slots)

\* Mutant of Tracked: only the first picture of the batch is tracked.
TrackedFirst(t) == t = {s \in Used : ready # <<>> /\ ready[1] = s}

\* trackShownSurfaces: the pool surfaces behind a batch, up to shownHeldBuf.
Tracked(t) ==
  LET behind == {s \in Used : InReady(s)}
  IN  /\ t \subseteq behind
      /\ t = behind \/ Cardinality(t) = 2 * (RefFrames + 1)

-----------------------------------------------------------------------------
\* Mutant of Init: the pool of a decoder without frame threading.
InitSerialPool ==
  /\ free = CHOOSE S \in SUBSET Surfaces : Cardinality(S) = RefFrames + 1
  /\ slot = [i \in Slots |-> None]
  /\ fc = [c \in Contexts |-> Idle]
  /\ next = 0 /\ cur = 0 /\ budget = 0
  /\ progress = [s \in Surfaces |-> "done"]
  /\ active = None /\ ready = <<>> /\ err = FALSE /\ shown = {} /\ pc = "caller"

Init ==
  /\ free = Surfaces
  /\ slot = [i \in Slots |-> None]
  /\ fc = [c \in Contexts |-> Idle]
  /\ next = 0
  /\ progress = [s \in Surfaces |-> "done"]
  /\ active = None
  /\ ready = <<>>
  /\ err = FALSE
  /\ shown = {}
  /\ pc = "caller"
  /\ cur = 0
  /\ budget = 0

-----------------------------------------------------------------------------
(* The tail goroutine of context c.                                        *)

\* A lane waits until the rows of s it predicts from are published; this is
\* the tail's last read of s.
TailRead(c, s) ==
  /\ fc[c].phase = "run"
  /\ s \in fc[c].refs
  /\ progress[s] \in {"rows", "done"}
  /\ fc' = [fc EXCEPT ![c].refs = @ \ {s}]
  /\ UNCHANGED <<free, slot, next, progress, active, ready, err, shown, pc, cur, budget>>

\* The post-filter publishes the first finished rows of the target.
TailRows(c) ==
  /\ fc[c].phase = "run"
  /\ \A s \in fc[c].refs : progress[s] \in {"rows", "done"}
  /\ progress[fc[c].surface] = "none"
  /\ progress' = [progress EXCEPT ![fc[c].surface] = "rows"]
  /\ UNCHANGED <<free, slot, fc, next, active, ready, err, shown, pc, cur, budget>>

\* Mutants of TailEnd: the final progress is not published, or not on failure.
TailEndUnpublished(c, ok) ==
  /\ progress' = [progress EXCEPT ![fc[c].surface] = "rows"]
  /\ fc' = [fc EXCEPT ![c] = [@ EXCEPT !.phase = "done", !.refs = {}, !.ok = ok]]
  /\ UNCHANGED <<free, slot, next, active, ready, err, shown, pc, cur, budget>>
TailEndSilentFailure(c, ok) ==
  /\ progress' = [progress EXCEPT ![fc[c].surface] = IF ok THEN "done" ELSE @]
  /\ fc' = [fc EXCEPT ![c] = [@ EXCEPT !.phase = "done", !.refs = {}, !.ok = ok]]
  /\ UNCHANGED <<free, slot, next, active, ready, err, shown, pc, cur, budget>>

\* The tail publishes the surface final, records its error and offers done.
TailEnd(c, ok) ==
  /\ progress' = [progress EXCEPT ![fc[c].surface] = IF ok THEN "done" ELSE "error"]
  /\ fc' = [fc EXCEPT ![c] = [@ EXCEPT !.phase = "done", !.refs = {}, !.ok = ok]]
  /\ UNCHANGED <<free, slot, next, active, ready, err, shown, pc, cur, budget>>

TailDone(c) ==
  /\ fc[c].phase = "run"
  /\ fc[c].refs = {}
  /\ TailEnd(c, TRUE)

\* A wait on a failed reference reports false, or the frame's own entropy
\* pass, a lane or the post-filter fails.
TailFail(c) ==
  /\ fc[c].phase = "run"
  /\ "tailerr" \in Inputs \/ \E s \in fc[c].refs : progress[s] = "error"
  /\ TailEnd(c, FALSE)

-----------------------------------------------------------------------------
(* The decode goroutine.                                                   *)

\* Mutant of Retire: surfaces behind a picture of this call are returned too.
RetireShown(c) ==
  /\ fc[c].busy
  /\ fc[c].existing \/ fc[c].phase = "done"
  /\ free' = free \cup fc[c].releases
  /\ fc' = [fc EXCEPT ![c] = Idle]
  /\ ready' = IF fc[c].ok /\ fc[c].show THEN Append(ready, fc[c].surface) ELSE ready
  /\ err' = (err \/ ~fc[c].ok)

\* retire: wait for the frame, return the surfaces it dropped except those
\* behind a picture this call returns, and queue its output, or the error of
\* its decode or of the film grain applied to its output.
Retire(c) ==
  /\ fc[c].busy
  /\ fc[c].existing \/ fc[c].phase = "done"
  /\ free' = free \cup {s \in fc[c].releases : ~InReady(s)}
  /\ fc' = [fc EXCEPT ![c] = Idle]
  /\ \/ /\ fc[c].ok
        /\ ready' = IF fc[c].show THEN Append(ready, fc[c].surface) ELSE ready
        /\ UNCHANGED err
     \/ /\ ~fc[c].ok \/ (fc[c].show /\ "tailerr" \in Inputs)
        /\ err' = TRUE
        /\ UNCHANGED ready

\* releaseShownSurfaces, run first by every DecodeNext.
ReleaseShown ==
  /\ free' = free \cup {s \in shown : s \notin Held(slot) /\ ~DeferredRelease(s)}
  /\ shown' = {}

\* DecodeNext with a payload left; its events follow.
CallNext ==
  /\ pc = "caller"
  /\ ReleaseShown
  /\ ready' = <<>>
  /\ pc' = "events"
  /\ budget' = MaxEvents
  /\ UNCHANGED <<slot, fc, next, progress, active, err, cur>>

\* DecodeNext after the last payload, or with a payload that cannot be read.
CallDrain(why) ==
  /\ pc = "caller"
  /\ ReleaseShown
  /\ ready' = <<>>
  /\ pc' = why
  /\ UNCHANGED <<slot, fc, next, progress, active, err, cur, budget>>

\* drain retires every in-flight frame, oldest first.
Drain ==
  /\ pc \in Drains
  /\ \E c \in Contexts : IsOldest(c) /\ Retire(c)
  /\ UNCHANGED <<slot, next, progress, active, shown, pc, cur, budget>>

\* publishFrameThreadedOutputs, or the error takeErr finds.
Return ==
  /\ IF err THEN shown' = {} ELSE \E t \in SUBSET Surfaces : Tracked(t) /\ shown' = t
  /\ err' = FALSE
  /\ pc' = "caller"
  /\ budget' = 0
  /\ UNCHANGED <<free, slot, fc, next, progress, active, ready, cur>>

EndPayload == pc = "events" /\ Return
EndLast == pc = "last" /\ NoneBusy /\ Return

\* The payload could not be read: the drained frames' error stays pending.
EndUnread ==
  /\ pc = "unread"
  /\ NoneBusy
  /\ pc' = "caller"
  /\ UNCHANGED <<free, slot, fc, next, progress, active, ready, err, shown, cur, budget>>

\* The runner failed: the drained outputs and their error are discarded.
EndFailed ==
  /\ pc = "failed"
  /\ NoneBusy
  /\ ready' = <<>>
  /\ err' = FALSE
  /\ pc' = "caller"
  /\ budget' = 0
  /\ UNCHANGED <<free, slot, fc, next, progress, active, shown, cur>>

\* An event of the payload fails and leaves everything as it is.
EventError ==
  /\ pc \in {"events", "reclaim", "park", "serial", "finish", "showserial"}
  /\ "error" \in Inputs
  /\ pc' = "failed"
  /\ UNCHANGED <<free, slot, fc, next, progress, active, ready, err, shown, cur, budget>>

\* runEvents reaches an event of the payload that changes frame state.
TakeEvent ==
  /\ pc = "events"
  /\ budget > 0
  /\ budget' = budget - 1

\* The stream shows a slot here; an empty one is an error of the event.
Showable ==
  /\ "show" \in Inputs
  /\ Held(slot) # {} \/ "error" \in Inputs

\* runFrame and showExisting take the context at p.next ...
TakeContext(kind) ==
  /\ TakeEvent
  /\ active = None
  /\ kind = "show" => Showable
  /\ pc' = kind
  /\ cur' = next
  /\ next' = Succ(next)
  /\ UNCHANGED <<free, slot, fc, progress, active, ready, err, shown>>

\* ... and retire the frame it held.
RetireTaken ==
  /\ pc \in {"frame", "show"}
  /\ IF fc[cur].busy THEN Retire(cur) ELSE UNCHANGED <<free, fc, ready, err>>
  /\ pc' = IF pc = "frame" THEN "reclaim" ELSE "park"
  /\ UNCHANGED <<slot, next, progress, active, shown, cur, budget>>

\* runFrame goes on retiring while the pool is empty.
ReclaimOldest ==
  /\ pc = "reclaim"
  /\ free = {}
  /\ \E c \in Contexts : IsOldest(c) /\ Retire(c)
  /\ UNCHANGED <<slot, next, progress, active, shown, pc, cur, budget>>

\* PlanEvent: a frame that reads the slots in reads acquires a target.
Plan(reads, s) ==
  /\ s \in free
  /\ \A i \in reads : slot[i] # None
  /\ free' = free \ {s}

\* A frame the stream may contain.
Admissible(refresh, show) == show \/ refresh # {} \/ "unref" \in Inputs

\* Mutant of RunFrame: what the slots drop is returned at once, as for a
\* serial frame.
RunFrameReleases(reads, refresh, show) ==
  /\ pc = "reclaim"
  /\ Admissible(refresh, show)
  /\ \E s \in free :
       /\ \A i \in reads : slot[i] # None
       /\ free' = (free \ {s}) \cup Dropped(Refresh(refresh, s))
       /\ progress' = [progress EXCEPT ![s] = "none"]
       /\ slot' = Refresh(refresh, s)
       /\ fc' = [fc EXCEPT ![cur] =
            [Idle EXCEPT !.busy = TRUE, !.surface = s, !.refs = {slot[i] : i \in reads},
                         !.show = show, !.phase = "run"]]
  /\ pc' = "events"
  /\ UNCHANGED <<next, active, ready, err, shown, cur, budget>>

\* The rest of runFrame: plan, reset the target's progress, publish the
\* slots (keeping what they dropped for retire) and start the tail.
RunFrame(reads, refresh, show) ==
  /\ pc = "reclaim"
  /\ Admissible(refresh, show)
  /\ \E s \in Surfaces :
       /\ Plan(reads, s)
       /\ progress' = [progress EXCEPT ![s] = "none"]
       /\ slot' = Refresh(refresh, s)
       /\ fc' = [fc EXCEPT ![cur] =
            [Idle EXCEPT !.busy = TRUE, !.surface = s, !.refs = {slot[i] : i \in reads},
                         !.releases = Dropped(Refresh(refresh, s)), !.show = show, !.phase = "run"]]
  /\ pc' = "events"
  /\ UNCHANGED <<next, active, ready, err, shown, cur, budget>>

\* Mutant of RunFrameFails: the target is returned but stays the active frame's.
RunFrameFailsReleased ==
  /\ pc = "reclaim"
  /\ "error" \in Inputs
  /\ active' \in free
  /\ pc' = "failed"
  /\ UNCHANGED <<free, slot, fc, next, progress, ready, err, shown, cur, budget>>

\* runFrame fails once PlanEvent acquired the target.  The frame stays
\* active, with the error published when its publication was what failed; a
\* Begin that fails after the acquisition leaves nobody the surface.
RunFrameFails ==
  /\ pc = "reclaim"
  /\ "error" \in Inputs
  /\ \E s \in free :
       /\ free' = free \ {s}
       /\ active' \in {None, s}
       /\ \/ UNCHANGED progress
          \/ active' = s /\ progress' = [progress EXCEPT ![s] = "error"]
  /\ pc' = "failed"
  /\ UNCHANGED <<slot, fc, next, ready, err, shown, cur, budget>>

\* PlanEvent finds the pool empty although nothing is left to retire.
PoolEmpty ==
  /\ pc = "reclaim"
  /\ free = {}
  /\ NoneBusy
  /\ pc' = "failed"
  /\ UNCHANGED <<free, slot, fc, next, progress, active, ready, err, shown, cur, budget>>

\* The rest of showExisting: park the shown picture in the context; a key
\* frame takes every slot and what they dropped is kept for retire.
ShowExisting(i, key) ==
  LET slots == IF key THEN Refresh(Slots, slot[i]) ELSE slot
  IN  /\ pc = "park"
      /\ slot[i] # None
      /\ slot' = slots
      /\ fc' = [fc EXCEPT ![cur] =
           [Idle EXCEPT !.busy = TRUE, !.existing = TRUE, !.surface = slot[i],
                        !.releases = Dropped(slots), !.show = TRUE]]
      /\ pc' = "events"
      /\ UNCHANGED <<free, next, progress, active, ready, err, shown, cur, budget>>

-----------------------------------------------------------------------------
(* Events off the frame-threaded path drain the ring first.                *)

\* An event that needs the ring drained: a serial frame, a sequence header
\* starting a new sequence, or a slot shown while a frame is active.
NeedsDrain(why) ==
  /\ TakeEvent
  /\ why = "showserial" => active # None /\ Showable
  /\ pc' = why
  /\ UNCHANGED <<free, slot, fc, next, progress, active, ready, err, shown, cur>>

\* The final tile group of the active frame drains the ring as well.
NeedsFinish ==
  /\ pc = "events"
  /\ active # None
  /\ pc' = "finish"
  /\ UNCHANGED <<free, slot, fc, next, progress, active, ready, err, shown, cur, budget>>

\* FrameWorkState.Begin of a serial frame.
SerialBegin(reads) ==
  /\ pc = "serial"
  /\ NoneBusy
  /\ active = None
  /\ \E s \in Surfaces : Plan(reads, s) /\ active' = s
  /\ pc' = "events"
  /\ UNCHANGED <<slot, fc, next, progress, ready, err, shown, cur, budget>>

\* Begin of a serial frame fails: a frame is active, or the pool is empty.
SerialRefused ==
  /\ pc = "serial"
  /\ NoneBusy
  /\ active # None \/ free = {}
  /\ pc' = "failed"
  /\ UNCHANGED <<free, slot, fc, next, progress, active, ready, err, shown, cur, budget>>

\* The final tile group of the active frame ran: FrameWorkState.Finish
\* returns the dropped surfaces at once, and runEvents queues the output.
SerialFinish(refresh, show) ==
  /\ pc = "finish"
  /\ NoneBusy
  /\ Admissible(refresh, show)
  /\ slot' = Refresh(refresh, active)
  /\ free' = free \cup Dropped(slot')
  /\ ready' = IF show THEN Append(ready, active) ELSE ready
  /\ active' = None
  /\ pc' = "events"
  /\ UNCHANGED <<fc, next, progress, err, shown, cur, budget>>

\* AbortIfEventDropsFrameWork at a temporal delimiter, which needs no drain.
TemporalDelimiter ==
  /\ pc = "events"
  /\ active # None
  /\ free' = free \cup {active}
  /\ active' = None
  /\ UNCHANGED <<slot, fc, next, progress, ready, err, shown, pc, cur, budget>>

\* A sequence header starting a new coded video sequence aborts the active
\* frame, empties the slots and returns their surfaces at once.
NewSequence ==
  /\ pc = "newseq"
  /\ NoneBusy
  /\ free' = free \cup Held(slot) \cup ({active} \ {None})
  /\ slot' = [i \in Slots |-> None]
  /\ active' = None
  /\ pc' = "events"
  /\ UNCHANGED <<fc, next, progress, ready, err, shown, cur, budget>>

\* FrameWorkState.ShowExisting, off the ring because a frame is active.
ShowExistingSerial(i, key) ==
  /\ pc = "showserial"
  /\ NoneBusy
  /\ slot[i] # None
  /\ slot' = IF key THEN Refresh(Slots, slot[i]) ELSE slot
  /\ free' = free \cup Dropped(slot') \cup ({active} \ {None})
  /\ active' = None
  /\ ready' = Append(ready, slot[i])
  /\ pc' = "events"
  /\ UNCHANGED <<fc, next, progress, err, shown, cur, budget>>

-----------------------------------------------------------------------------
(* Decoder.Reset and Decoder.Close, between calls.                         *)
CallerDrain(why) ==
  /\ pc = "caller"
  /\ pc' = why
  /\ UNCHANGED <<free, slot, fc, next, progress, active, ready, err, shown, cur, budget>>

Reset ==
  /\ pc = "reset"
  /\ NoneBusy
  /\ free' = Surfaces
  /\ slot' = [i \in Slots |-> None]
  /\ next' = 0
  /\ progress' = [s \in Surfaces |-> "done"]
  /\ active' = None
  /\ ready' = <<>>
  /\ err' = FALSE
  /\ shown' = {}
  /\ pc' = "caller"
  /\ UNCHANGED <<fc, cur, budget>>

Close ==
  /\ pc = "close"
  /\ NoneBusy
  /\ pc' = "closed"
  /\ UNCHANGED <<free, slot, fc, next, progress, active, ready, err, shown, cur, budget>>

\* After Close the decoder must not be used.
Closed == pc = "closed" /\ UNCHANGED vars

-----------------------------------------------------------------------------
TailStep(c) ==
  \/ \E s \in Surfaces : TailRead(c, s)
  \/ TailRows(c)
  \/ TailDone(c)
  \/ TailFail(c)

RunFrames == \E reads, refresh \in SUBSET Slots, show \in BOOLEAN : RunFrame(reads, refresh, show)

Threaded ==
  \/ \E kind \in {"frame", "show"} : TakeContext(kind)
  \/ RetireTaken
  \/ ReclaimOldest
  \/ RunFrames
  \/ RunFrameFails
  \/ PoolEmpty
  \/ \E i \in Slots, key \in BOOLEAN : ShowExisting(i, key)

Serial ==
  \/ "newseq" \in Inputs /\ NeedsDrain("newseq")
  \/ "serial" \in Inputs /\ \E why \in {"serial", "showserial"} : NeedsDrain(why)
  \/ NeedsFinish
  \/ \E reads \in SUBSET Slots : SerialBegin(reads)
  \/ SerialRefused
  \/ \E refresh \in SUBSET Slots, show \in BOOLEAN : SerialFinish(refresh, show)
  \/ TemporalDelimiter
  \/ NewSequence
  \/ \E i \in Slots, key \in BOOLEAN : ShowExistingSerial(i, key)

Caller ==
  \/ CallNext
  \/ CallDrain("last")
  \/ "error" \in Inputs /\ CallDrain("unread")
  \/ \E why \in Inputs \cap {"reset", "close"} : CallerDrain(why)

Decode ==
  \/ Drain
  \/ EndPayload
  \/ EndLast
  \/ EndUnread
  \/ EndFailed
  \/ EventError
  \/ Reset
  \/ Close

Next ==
  \/ \E c \in Contexts : TailStep(c)
  \/ Threaded
  \/ Serial
  \/ Caller
  \/ Decode
  \/ Closed

Spec == Init /\ [][Next]_vars

-----------------------------------------------------------------------------
(* Fairness: the scheduler runs every goroutine, and a wait on progress     *)
(* that is final returns.                                                   *)
TailGoesOn(c) ==
  \/ \E s \in Surfaces : progress[s] = "done" /\ TailRead(c, s)
  \/ TailDone(c)
  \/ TailFail(c)

DecodeGoesOn ==
  \/ Threaded
  \/ Serial
  \/ Decode

FairSpec ==
  /\ Spec
  /\ \A c \in Contexts : WF_vars(TailGoesOn(c))
  /\ WF_vars(DecodeGoesOn)

-----------------------------------------------------------------------------
TypeOK ==
  /\ free \subseteq Surfaces
  /\ slot \in [Slots -> Surfaces \cup {None}]
  /\ fc \in [Contexts -> Context]
  /\ next \in Contexts
  /\ progress \in [Surfaces -> Progress]
  /\ active \in Surfaces \cup {None}
  /\ ready \in Seq(Surfaces)
  /\ err \in BOOLEAN
  /\ shown \subseteq Surfaces
  /\ pc \in Controls
  /\ cur \in Contexts
  /\ budget \in 0 .. MaxEvents

\* The context runFrame or showExisting took is the oldest until it retired.
RingHead == IF pc \in {"frame", "show"} THEN cur ELSE next
Older(d, c) == Age(d, RingHead) < Age(c, RingHead)
Running(c) == fc[c].phase = "run"

\* A surface an in-flight frame still predicts from is not in the pool, and
\* no frame submitted after it, threaded or serial, decodes into it: dropped
\* references outlive every frame that may read them (FrameThreadFrame.Releases).
ReadsSafe ==
  \A c \in Contexts : Running(c) => \A s \in fc[c].refs :
    /\ s \notin free
    /\ s # active
    /\ \A d \in Contexts : Running(d) /\ fc[d].surface = s => Older(d, c)

\* No two frames in decode, threaded or serial, write the same surface, and
\* none writes one the pool could hand out again.
OneWriter ==
  \A c \in Contexts : Running(c) =>
    /\ fc[c].surface \notin free \cup {active}
    /\ \A d \in Contexts \ {c} : Running(d) => fc[d].surface # fc[c].surface

\* Every surface is returned to the pool at most once: what a slot holds is
\* not free, what a frame will release when it retires is in use, in no slot
\* and in no other frame's releases.
ReleasedOnce ==
  /\ Held(slot) \cap free = {}
  /\ \A c \in Contexts : fc[c].busy =>
       /\ fc[c].releases \cap (free \cup Held(slot)) = {}
       /\ \A d \in Contexts \ {c} : fc[d].busy => fc[c].releases \cap fc[d].releases = {}

\* No tail waits for rows nobody will publish: the reference is final, or an
\* older frame in flight is producing it (the ring cannot deadlock).
WaitsServed ==
  \A c \in Contexts : Running(c) => \A s \in fc[c].refs :
    \/ progress[s] \in {"done", "error"}
    \/ \E d \in Contexts : Running(d) /\ fc[d].surface = s /\ Older(d, c)

\* The pixels of a picture this call returns stay what they are until the
\* next call: no frame in decode writes the surface behind it.
BatchIntact ==
  \A i \in DOMAIN ready :
    /\ ready[i] # active
    /\ \A c \in Contexts : Running(c) => fc[c].surface # ready[i]

\* runFrame always finds a surface once it has retired what it could, with
\* no more frames in a payload than the ring has contexts.
PoolSufficient == pc = "reclaim" /\ NoneBusy => free # {}

\* Without failing frames or payloads every surface in use is on its way
\* back to the pool: a slot, a frame in flight, the active frame or the shown
\* pictures account for it.
NoLeak ==
  Used \subseteq Held(slot) \cup shown \cup {active} \cup {s \in Surfaces : InReady(s)}
    \cup UNION {fc[c].releases \cup {fc[c].surface} : c \in {d \in Contexts : fc[d].busy}}

\* A surface retire left to the shown-surface bookkeeping, or one only this
\* call's batch still needs, is tracked when the call returns.
ReadyTracked ==
  pc = "caller" => \A s \in Used : InReady(s) =>
    s \in Held(slot) \cup shown \/ DeferredRelease(s)

\* A serial frame that was decoded and published in the slots is final for
\* the frames that predict from it ("Surfaces not owned by an in-flight frame
\* stay at FrameProgressDone").
SerialFinal == [][pc = "finish" /\ pc' = "events" => progress[active] = "done"]_vars

\* The pictures in flight, in ring order from the oldest context.
Pending ==
  LET ring == [k \in 1 .. N |-> (RingHead + k - 1) % N]
      showing == SelectSeq(ring, LAMBDA c : fc[c].busy /\ fc[c].show)
  IN  [k \in DOMAIN showing |-> fc[showing[k]].surface]

Output == INSTANCE OutputOrder WITH Pictures <- Surfaces, pending <- Pending, out <- ready

\* Frame threading changes when a picture is returned, never the order:
\* the ring implements the queue of OutputOrder ("Order and pixels are
\* unchanged", DecodeNext).
InOrder == Output!Spec

\* Every frame in flight finishes, whatever the frames it waits for do.
TailsFinish == \A c \in Contexts : Running(c) ~> ~Running(c)

\* Every DecodeNext, Reset and Close returns.
CallsReturn == pc \notin {"caller", "closed"} ~> pc \in {"caller", "closed"}
=============================================================================
