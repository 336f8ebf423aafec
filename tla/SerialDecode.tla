---------------------------- MODULE SerialDecode -----------------------------
(***************************************************************************)
(* A Decoder without frame threading.  One call (DecodeNext,               *)
(* DecodeRTPPayload) takes one payload: the Stream parses ALL its units    *)
(* into events, and changes its own reference state as it does; only then  *)
(* are the events run, one by one, on the FrameWorkState, the              *)
(* SurfaceReferences and the frame pool; at the end the surfaces behind    *)
(* the frames returned are noted, and the next call returns those to the   *)
(* pool that no reference slot holds.  Any unit may fail to parse and any  *)
(* event may fail to run; the call then returns where it stands.           *)
(*                                                                         *)
(* The pool is the set of free surfaces that SurfacePool implements.       *)
(***************************************************************************)
EXTENDS Integers, Sequences, FiniteSets, Functions

CONSTANTS
  Slots,      \* the AV1 reference slots, 0 .. RefFrames-1
  Surfaces,   \* the pool's frames: one more than there are slots
  None,       \* no surface, no reference
  Templates,  \* the frames that may be sent: [key, inter, show, refresh, refs]
  Tiles,      \* the tiles of a frame
  MaxUnits,   \* units of a payload (bound)
  MaxFrames   \* frames sent (bound)

ASSUME SerialAssumption ==
  /\ IsFiniteSet(Slots) /\ IsFiniteSet(Surfaces)
  /\ Cardinality(Surfaces) = Cardinality(Slots) + 1
  /\ None \notin Surfaces \cup Slots
  /\ Tiles \in Nat \ {0} /\ MaxUnits \in Nat /\ MaxFrames \in Nat
  /\ Templates \subseteq [key : BOOLEAN, inter : BOOLEAN, show : BOOLEAN, refresh : SUBSET Slots, refs : SUBSET Slots]
  /\ \A f \in Templates :
       /\ f.inter <=> f.refs # {}
       /\ f.key /\ f.show => f.refresh = Slots
       /\ f.key => ~f.inter

\* Every frame is shown or kept for reference.  Finish returns the surfaces the
\* slots drop and the next call those that were shown, so a frame that is
\* neither would keep its surface until Reset.
NoOrphans == \A f \in Templates : f.show \/ f.refresh # {}

VARIABLES
  phase,    \* "idle" between calls, "parse" or "run" within one
  stream,   \* Stream: [have, header, frame, next, refs]
  events,   \* r.Events: parsed, not yet run
  work,     \* FrameWorkState: [active, surface, inter, parts], parts is what
            \* was decoded into the surface: pairs of a frame and a tile
  slots,    \* SurfaceReferences.slots
  unused,   \* the pool's free surfaces
  content,  \* the frame whose pixels a surface holds; negated when it was
            \* published with too few tiles or tiles of others; 0: none
  shown,    \* Decoder.shownHeld
  out,      \* the frames output by this call: [surface, frame]
  result,   \* how the call ended
  pushed,   \* the units of the call's payload
  sent,     \* frames sent so far
  tainted   \* has a call failed, or a frame been dropped unfinished?

vars == <<phase, stream, events, work, slots, unused, content, shown, out,
          result, pushed, sent, tainted>>

decoder == <<work, slots, unused, content, shown, out>>

NoFrame == [id |-> 0, key |-> FALSE, inter |-> FALSE, show |-> FALSE, refresh |-> {}, refs |-> {}]
NoRef == [id |-> 0, key |-> FALSE, showable |-> FALSE]
EmptyStream == [have |-> FALSE, header |-> FALSE, frame |-> NoFrame, next |-> 1,
                refs |-> [s \in Slots |-> NoRef]]
Idle == [active |-> FALSE, surface |-> None, inter |-> FALSE, parts |-> {}]

Init ==
  /\ phase = "idle"
  /\ stream = EmptyStream
  /\ events = <<>>
  /\ work = Idle
  /\ slots = [s \in Slots |-> None]
  /\ unused = Surfaces
  /\ content = [s \in Surfaces |-> 0]
  /\ shown = {} /\ out = {}
  /\ result = "ok"
  /\ pushed = <<>> /\ sent = 0 /\ tainted = FALSE

Used == Surfaces \ unused
Held == Range(slots) \ {None}

\* releaseShownSurfaces.  A slot that is free already is tolerated.
releaseShownSurfaces ==
  /\ unused' = unused \cup ((shown \cap Used) \ Held)
  /\ shown' = {}

\* DecodeNext, decodeExternalRTPPayload
Call ==
  /\ phase = "idle"
  /\ releaseShownSurfaces
  /\ phase' = "parse"
  /\ events' = <<>> /\ pushed' = <<>> /\ out' = {} /\ result' = "ok"
  /\ UNCHANGED <<stream, work, slots, content, sent, tainted>>

\* The call returns an error, where it stands; shownHeld is empty.
Fail(how) ==
  /\ phase' = "idle"
  /\ result' = how
  /\ out' = {}
  /\ tainted' = TRUE

-----------------------------------------------------------------------------
(* Stream.PushUnitInto                                                     *)

Unit(kind, last) == [kind |-> kind, last |-> last]

Event(kind, frame, tiles, slot, new) ==
  [kind |-> kind, frame |-> frame, tiles |-> tiles, slot |-> slot, new |-> new]

Cleared(s) == [s EXCEPT !.header = FALSE, !.frame = NoFrame, !.next = 1]

Push(u, s, e) ==
  /\ phase = "parse"
  /\ Len(pushed) < MaxUnits
  /\ pushed' = Append(pushed, u)
  /\ stream' = s
  /\ events' = Append(events, e)
  /\ tainted' = (tainted \/ (stream.header /\ u.kind # "tiles" /\ s.frame # stream.frame))
  /\ UNCHANGED <<phase, decoder, result>>

\* A unit does not parse: nothing of the payload is run.
Refuse(u) ==
  /\ phase = "parse"
  /\ Len(pushed) < MaxUnits
  /\ pushed' = Append(pushed, u)
  /\ Fail("unparsed")
  /\ UNCHANGED <<stream, events, work, slots, unused, content, shown>>

Shows(e) == e.kind = "existing" \/ (e.frame.show /\ Tiles \in e.tiles)

\* A payload is a temporal unit of one spatial layer: nothing but a corrupt
\* unit follows the frame it shows.
MayFollow == ~\E k \in DOMAIN events : Shows(events[k])

PushSequenceHeader(new) ==
  LET fresh == new \/ ~stream.have
  IN  /\ Push(Unit("sequence", fresh),
              IF fresh THEN [EmptyStream EXCEPT !.have = TRUE] ELSE stream,
              Event("sequence", NoFrame, {}, None, fresh))
      /\ UNCHANGED sent

PushTemporalDelimiter ==
  /\ Push(Unit("delimiter", FALSE), Cleared(stream), Event("delimiter", NoFrame, {}, None, FALSE))
  /\ UNCHANGED sent

\* ReferenceState.UpdateWithDecodeState
Updated(refs, f) ==
  [s \in Slots |-> IF s \in f.refresh
                   THEN [id |-> f.id, key |-> f.key, showable |-> ~(f.key /\ f.show)]
                   ELSE refs[s]]

\* ParseFrameHeaderPrefix to ParseFilmGrainParams need a sequence header and
\* the references of the frame.
Parses(f) == stream.have /\ \A s \in f.refs : stream.refs[s].id # 0

Sent(f) == [id |-> sent + 1, key |-> f.key, inter |-> f.inter, show |-> f.show,
            refresh |-> f.refresh, refs |-> f.refs]

\* acceptFrameHeader, without show_existing_frame
acceptFrameHeader(kind, f) ==
  IF Parses(f)
  THEN Push(Unit(kind, FALSE),
            [stream EXCEPT !.refs = Updated(@, f), !.next = 1, !.frame = f, !.header = TRUE],
            Event(kind, f, {}, None, FALSE))
  ELSE Refuse(Unit(kind, FALSE))

PushFrameHeader(f) == acceptFrameHeader("header", f) /\ sent' = sent + 1

\* A copy of the header of the frame under way is ignored; one that comes
\* without the header it copies is taken for it.
PushRedundantFrameHeader(f) ==
  IF stream.header
  THEN Push(Unit("redundant", FALSE), stream, Event("ignored", NoFrame, {}, None, FALSE)) /\ UNCHANGED sent
  ELSE acceptFrameHeader("redundant", f) /\ sent' = sent + 1

\* OBU_FRAME: a header and the tiles up to last
PushFrame(f, last) ==
  /\ IF Parses(f)
     THEN Push(Unit(IF f.key THEN "key" ELSE "frame", last = Tiles),
               LET s == [stream EXCEPT !.refs = Updated(@, f), !.next = last + 1, !.frame = f, !.header = TRUE]
               IN  IF last = Tiles THEN Cleared(s) ELSE s,
               Event("frame", f, 1 .. last, None, FALSE))
     ELSE Refuse(Unit("frame", last = Tiles))
  /\ sent' = sent + 1

\* ParseTileGroupHeader wants the tile that is next.
TileGroupParses(first) == stream.header /\ first = stream.next

PushTileGroup(first, last) ==
  /\ IF TileGroupParses(first)
     THEN Push(Unit("tiles", last = Tiles),
               IF last = Tiles THEN Cleared(stream) ELSE [stream EXCEPT !.next = last + 1],
               Event("tiles", stream.frame, first .. last, None, FALSE))
     ELSE Refuse(Unit("tiles", FALSE))
  /\ UNCHANGED sent

\* acceptExistingFrame
PushExistingFrame(s) ==
  LET ref == stream.refs[s]
  IN  /\ IF stream.have /\ ref.id # 0 /\ ref.showable
         THEN Push(Unit("existing", FALSE),
                   [Cleared(stream) EXCEPT !.refs =
                      IF ref.key THEN [t \in Slots |-> [ref EXCEPT !.showable = FALSE]] ELSE @],
                   Event("existing", [NoFrame EXCEPT !.id = ref.id, !.key = ref.key], {}, s, FALSE))
         ELSE Refuse(Unit("existing", FALSE))
      /\ UNCHANGED sent

\* A unit that no parser accepts.
PushCorrupt == Refuse(Unit("corrupt", FALSE)) /\ UNCHANGED sent

PushUnitInto ==
  \/ PushCorrupt
  \/ /\ MayFollow
     /\ \/ \E new \in BOOLEAN : PushSequenceHeader(new)
        \/ PushTemporalDelimiter
        \/ \E first \in 1 .. Tiles : \E last \in first .. Tiles : PushTileGroup(first, last)
        \/ \E s \in Slots : PushExistingFrame(s)
        \/ /\ sent < MaxFrames
           /\ \E f \in Templates :
                \/ PushFrameHeader(Sent(f))
                \/ PushRedundantFrameHeader(Sent(f))
                \/ \E last \in 1 .. Tiles : PushFrame(Sent(f), last)

\* The iterator is at the end of the payload: runParsedEvents.
RunParsedEvents ==
  /\ phase = "parse"
  /\ phase' = "run"
  /\ UNCHANGED <<stream, events, decoder, result, pushed, sent, tainted>>

-----------------------------------------------------------------------------
(* RunDecoderFrameWorkEventWithResidualRunner: PlanEvent, the tile work,   *)
(* and FinishIfEventCompletesFrameWork.  d is what they change, [ok, work, *)
(* slots, unused, content, out].                                           *)

Now == [ok |-> TRUE, work |-> work, slots |-> slots, unused |-> unused, content |-> content, out |-> out]
Error(d) == [d EXCEPT !.ok = FALSE]

\* Pool.ReleaseMany: all of them or, when one is free, an error.
Freed(d, released) ==
  IF released \cap d.unused # {} THEN Error(d) ELSE [d EXCEPT !.unused = @ \cup released]

\* Mutant: the surface stays with nobody.
AbortKeeps(d) == IF d.work.active THEN [d EXCEPT !.work = Idle] ELSE d

\* FrameWorkState.Abort, where there is active work.
Abort(d) ==
  IF ~d.work.active THEN d
  ELSE LET r == Freed(d, {d.work.surface})
       IN  IF r.ok THEN [r EXCEPT !.work = Idle] ELSE r

\* SurfaceReferences.apply and the release behind it: the slots take their
\* new surfaces, and those that no slot holds any more leave.
Apply(d, next) ==
  LET r == Freed(d, (Range(d.slots) \ Range(next)) \ {None})
  IN  IF r.ok THEN [r EXCEPT !.slots = next] ELSE r

\* ResetFrameSurfaceReferences
ResetFrameSurfaceReferences(d) == Apply(d, [s \in Slots |-> None])

\* Mutant: one refreshed slot keeps its frame.
RefreshedLess(d, f, surface) ==
  [s \in Slots |-> IF s \in f.refresh /\ s # (CHOOSE t \in Slots : TRUE) THEN surface ELSE d.slots[s]]

\* SurfaceReferences.Refresh
Refreshed(d, f, surface) == [s \in Slots |-> IF s \in f.refresh THEN surface ELSE d.slots[s]]

\* FrameWorkState.Finish
Finish(d, f) ==
  LET whole == d.work.parts = {<<f.id, t>> : t \in 1 .. Tiles}
      r == Apply(d, Refreshed(d, f, d.work.surface))
  IN  IF r.ok
      THEN [r EXCEPT !.work = Idle,
                     !.content[d.work.surface] = IF whole THEN f.id ELSE -f.id,
                     !.out = IF f.show THEN @ \cup {[surface |-> d.work.surface, frame |-> IF whole THEN f.id ELSE -f.id]} ELSE @]
      ELSE r

\* The tile work of an event and, behind the last tile, Finish.  The work is
\* done for the references of the event; their number is that of the frame
\* that was begun.
Decode(d, e) ==
  IF ~d.work.active \/ d.work.inter # e.frame.inter THEN Error(d)
  ELSE LET r == [d EXCEPT !.work.parts = @ \cup {<<e.frame.id, t>> : t \in e.tiles}]
       IN  IF Tiles \in e.tiles THEN Finish(r, e.frame) ELSE r

\* FrameWorkState.Begin with the surface that the pool has on top
Begin(d, e, surface) ==
  IF d.work.active \/ \E s \in e.frame.refs : d.slots[s] = None THEN Error(d)
  ELSE [d EXCEPT !.work = [active |-> TRUE, surface |-> surface, inter |-> e.frame.inter, parts |-> {}],
                 !.unused = @ \ {surface},
                 !.content[surface] = 0]

\* FrameWorkState.ShowExisting
ShowExisting(d, e) ==
  LET surface == d.slots[e.slot]
      r == Abort(d)
      k == IF e.frame.key THEN Apply(r, [s \in Slots |-> surface]) ELSE r
  IN  IF surface = None THEN Error(d)
      ELSE IF ~r.ok \/ ~k.ok THEN Error(r)
      ELSE [k EXCEPT !.out = @ \cup {[surface |-> surface, frame |-> k.content[surface]]}]

\* Mutant: only a temporal delimiter drops the frame under way.
DropAtDelimiter(d, e) == IF e.new THEN ResetFrameSurfaceReferences(d) ELSE Abort(d)

\* AbortIfEventDropsFrameWork and, for a new sequence, the reference reset
Drop(d, e) ==
  LET r == Abort(d)
  IN  IF r.ok /\ e.new THEN ResetFrameSurfaceReferences(r) ELSE r

\* What a run of event e comes to, if its tile work succeeds.
Ran(e, surface) ==
  CASE e.kind = "existing" -> ShowExisting(Now, e)
    [] e.kind = "delimiter" \/ e.new -> Drop(Now, e)
    [] e.kind = "header" -> Begin(Now, e, surface)
    [] e.kind = "frame" -> LET b == Begin(Now, e, surface) IN IF b.ok THEN Decode(b, e) ELSE b
    [] e.kind = "tiles" -> Decode(Now, e)
    [] OTHER -> Now

Begins(e) == e.kind \in {"header", "frame"}
Becomes(d) ==
  /\ work' = d.work /\ slots' = d.slots /\ unused' = d.unused /\ content' = d.content

Run ==
  /\ phase = "run"
  /\ events # <<>>
  /\ LET e == Head(events)
     IN  \E surface \in IF Begins(e) /\ unused # {} THEN unused ELSE {None} :
           LET d == Ran(e, surface)
           IN  \/ /\ Begins(e) /\ surface = None
                  /\ Fail(IF work.active \/ \E s \in e.frame.refs : slots[s] = None THEN "refused" ELSE "empty")
                  /\ UNCHANGED <<events, work, slots, unused, content>>
               \/ /\ ~(Begins(e) /\ surface = None)
                  /\ d.ok
                  /\ Becomes(d)
                  /\ out' = d.out
                  /\ events' = Tail(events)
                  /\ UNCHANGED <<phase, result, tainted>>
               \/ /\ ~(Begins(e) /\ surface = None)
                  /\ ~d.ok
                  /\ Becomes(d)
                  /\ Fail("refused")
                  /\ UNCHANGED events
  /\ UNCHANGED <<stream, shown, pushed, sent>>

\* The tile work or a post filter fails: the frame stays under way.
RunFails ==
  /\ phase = "run"
  /\ events # <<>>
  /\ LET e == Head(events)
     IN  /\ e.kind \in {"frame", "tiles"}
         /\ \E surface \in IF e.kind = "frame" THEN unused ELSE {None} :
              LET d == IF e.kind = "frame" THEN Begin(Now, e, surface) ELSE Now
              IN  /\ d.ok /\ d.work.active
                  /\ Becomes(d)
  /\ Fail("failed")
  /\ UNCHANGED <<stream, events, shown, pushed, sent>>

\* trackShownSurfaces: the surfaces in use behind the frames returned
trackShownSurfaces(frames) == {o.surface : o \in frames} \cap Used

Return ==
  /\ phase = "run"
  /\ events = <<>>
  /\ phase' = "idle"
  /\ shown' = trackShownSurfaces(out)
  /\ UNCHANGED <<stream, events, work, slots, unused, content, out, result, pushed, sent, tainted>>

ResetStream == stream' = EmptyStream

\* Decoder.Reset
Reset ==
  /\ phase = "idle"
  /\ ResetStream
  /\ work' = Idle /\ slots' = [s \in Slots |-> None]
  /\ unused' = Surfaces /\ shown' = {} /\ out' = {}
  /\ result' = "ok" /\ pushed' = <<>> /\ events' = <<>> /\ tainted' = FALSE
  /\ UNCHANGED <<phase, content, sent>>

Next == Call \/ PushUnitInto \/ RunParsedEvents \/ Run \/ RunFails \/ Return \/ Reset

Spec == Init /\ [][Next]_vars

-----------------------------------------------------------------------------
\* Of NothingLeaks: no reference slot and no frame under way has a surface that
\* the pool may hand out, and a frame is never decoded into a surface it could
\* refer to, whatever failed before.
SurfacesHeld ==
  /\ Held \cap unused = {}
  /\ work.active => work.surface \notin unused \cup Held

\* Of NothingLeaks: between calls every surface in use is in a reference slot,
\* under way or noted for release: "the next decode call returns them to their
\* pool when no reference still holds them" (shownHeld).
InReach ==
  phase = "idle" => Used \subseteq Held \cup shown \cup (IF work.active THEN {work.surface} ELSE {})

\* Of NothingLeaks: a surface for every slot and one more are enough, no frame
\* is refused for want of one.
PoolSuffices == result # "empty"

\* Whatever fails, no surface is lost and none has two owners: between calls
\* each is free, in a reference slot, under way or noted for release
\* (releaseShownSurfaces, SurfaceReferences.apply, FrameWorkState.Abort).
NothingLeaks == SurfacesHeld /\ InReach /\ PoolSuffices

Restart == /\ Len(pushed) = 2
           /\ pushed[1].kind = "sequence" /\ pushed[1].last
           /\ pushed[2].kind = "key" /\ pushed[2].last

\* A payload with a new sequence header and a key frame is decoded from any
\* state earlier failures left, if its own tile work does not fail.
KeyRecovers == Restart => result \notin {"refused", "empty"}

\* Of ReferencesAgree: the parser and the surfaces mean the same frames by the
\* reference slots whenever no frame is under way, although the parser updates
\* its slots when it sees a header and the surfaces are updated when the last
\* tile is done.
SameReferences ==
  (phase = "idle" /\ ~tainted /\ ~stream.header) =>
    \A s \in Slots : IF stream.refs[s].id = 0 THEN slots[s] = None
                     ELSE slots[s] # None /\ content[slots[s]] = stream.refs[s].id

Published == Held \cup {o.surface : o \in out}

\* Of ReferencesAgree: a published frame has all its tiles and no other
\* frame's.
PublishedWhole == ~tainted => \A s \in Published : content[s] >= 0

\* As long as no call failed and no frame was dropped, a reference slot stands
\* for the same, whole frame in the Stream, which parses all units of a payload
\* first, and in the SurfaceReferences.
ReferencesAgree == SameReferences /\ PublishedWhole
=============================================================================
