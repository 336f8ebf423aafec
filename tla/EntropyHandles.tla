--------------------------- MODULE EntropyHandles ---------------------------
(***************************************************************************)
(* The reference-counted entropy state of FrameWorkState and the progress  *)
(* the frame-thread ring keeps for each handle (decode_frame_thread.go):   *)
(* saved CDF entries and MV_REF grids (decoder/work.go), segmentation maps *)
(* (decoder/segmap.go).  The three pools have the same life cycle and meet *)
(* only in the entropy pass, which fails when any of them fails it; a      *)
(* behaviour follows one of them, kind.                                    *)
(*                                                                         *)
(* The planning goroutine names a frame's outputs in the reference slots   *)
(* before the frame's entropy pass runs; the pass, on the goroutine of the *)
(* frame's context, waits for the handles it reads, and ends the handle it *)
(* writes.  A frame holds its handles until it is retired.                 *)
(***************************************************************************)
EXTENDS Integers, Sequences, FiniteSetsExt

CONSTANTS
  Slots,       \* the reference slots
  NoRef,       \* PRIMARY_REF_NONE
  InterRefs,   \* references a frame may project motion from
  MaxFrames,   \* contexts of the ring
  MaxErrors    \* bound: no pass fails by itself with so many handles in error

RefFrames == Cardinality(Slots)

\* A reference count is a uint8, and the ring and the slots are far smaller.
ASSUME HandleAssumption ==
  /\ IsFiniteSet(Slots) /\ NoRef \notin Slots
  /\ InterRefs \in Nat \ {0} /\ MaxFrames \in Nat \ {0} /\ MaxErrors \in Nat
  /\ RefFrames + (InterRefs + 2) * MaxFrames < 256

None == 0      \* no handle
Done == 1
Error == -1

VARIABLES
  kind,   \* "cdf", "mv" or "seg"
  refs,   \* the reference count of each handle
  slot,   \* the handle each reference slot names
  prog,   \* the progress of each handle
  ring    \* the frames in flight, oldest first

vars == <<kind, refs, slot, prog, ring>>

\* Mutant: the pool without the holds of the frames in flight.
SizeOfSlots == RefFrames + IF kind = "cdf" THEN 2 ELSE 1

\* frameWorkCDFPoolEntries, frameWorkMVGrids, frameWorkSegMaps.
Size ==
  CASE kind = "cdf" -> RefFrames + 2 + 2 * MaxFrames
    [] kind = "mv" -> RefFrames + 1 + (1 + InterRefs) * MaxFrames
    [] kind = "seg" -> RefFrames + 1 + 2 * MaxFrames

Init ==
  /\ kind \in {"cdf", "mv", "seg"}
  /\ refs = [h \in 1 .. Size |-> 0]
  /\ slot = [s \in Slots |-> None]
  /\ prog = [h \in 1 .. Size |-> Done]
  /\ ring = <<>>

(***************************************************************************)
(* Handles.                                                                *)
(***************************************************************************)
Free(r) == {h \in 1 .. Size : r[h] = 0}

\* acquireTileResidualCDFEntry, acquireMVGrid and SegmentMapStore.acquire take
\* the lowest free handle.
Lowest(r) == Min(Free(r))
Retain(r, h) == IF h = None THEN r ELSE [r EXCEPT ![h] = @ + 1]
Times(hs, h) == Cardinality({j \in DOMAIN hs : hs[j] = h})
RetainAll(r, hs) == [h \in 1 .. Size |-> r[h] + Times(hs, h)]

\* releaseMVGrid does not test the uint8 it decrements; the others stop at 0.
ReleaseAll(r, hs) ==
  [h \in 1 .. Size |-> IF kind = "mv" THEN (r[h] - Times(hs, h)) % 256
                       ELSE IF r[h] > Times(hs, h) THEN r[h] - Times(hs, h) ELSE 0]

\* Every refreshed slot drops its handle and takes h: finishTileResidualCDFs,
\* publishTemporalMotionFrame, SegmentMapStore.publish.
Refresh(r, slots, h) ==
  [x \in 1 .. Size |-> r[x] - Cardinality({s \in slots : slot[s] = x})
                            + IF x = h THEN Cardinality(slots) ELSE 0]
Renamed(slots, h) == [s \in Slots |-> IF s \in slots THEN h ELSE slot[s]]

(***************************************************************************)
(* What Begin and PublishFrameThreaded give a frame, from its header: the  *)
(* handles it reads, the one it writes, all it holds, and the one its      *)
(* refreshed slots name.                                                   *)
(***************************************************************************)
Given(reads, writes, holds, named) ==
  [reads |-> reads, writes |-> writes, holds |-> holds, named |-> named]

\* acquireInitialTileResidualCDFs: the primary reference's entry, shared, or a
\* free one set to the defaults.  A second free one takes the adapted contexts
\* when refresh_frame_context and the CDF updates are on.
PlanCDF(primary, retain) ==
  LET shared == primary # NoRef /\ slot[primary] # None
      in == IF shared THEN slot[primary] ELSE Lowest(refs)
      out == Lowest(Retain(refs, in))
  IN Given(<<in>>, IF retain THEN out ELSE None, <<in, out>>, IF retain THEN out ELSE in)
CDFPlans == {PlanCDF(p, r) : p \in Slots \cup {NoRef}, r \in BOOLEAN}

\* prepareTemporalMotionField and the holds on the reference grids: an intra
\* frame takes no grid, one with use_ref_frame_mvs reads its references'.
MVPlans ==
  LET grid == Lowest(refs)
      From(f) == [i \in 1 .. InterRefs |-> slot[f[i]]]
  IN {Given(<<>>, None, <<>>, None), Given(<<>>, grid, <<grid>>, grid)}
     \cup {Given(From(f), grid, <<grid>> \o From(f), grid) : f \in [1 .. InterRefs -> Slots]}

\* Mutant: the previous map is not held.
PlanSegUnheld(prev, update) ==
  LET cur == IF update THEN Lowest(Retain(refs, prev)) ELSE prev
  IN Given(<<prev>>, IF update THEN cur ELSE None, <<cur>>, cur)

\* segMapFrame.prepare: the previous map, when it is needed and has the frame's
\* size; the current one is a free map, or the previous one if not updated.
PlanSeg(prev, update) ==
  LET cur == IF update THEN Lowest(Retain(refs, prev)) ELSE prev
  IN Given(<<prev>>, IF update THEN cur ELSE None, <<cur, prev>>, cur)
SegPlans == {PlanSeg(p, u) : p \in {slot[s] : s \in Slots} \cup {None}, u \in BOOLEAN}

Plans == CASE kind = "cdf" -> CDFPlans [] kind = "mv" -> MVPlans [] kind = "seg" -> SegPlans

(***************************************************************************)
(* The planning goroutine.                                                 *)
(***************************************************************************)
\* The context the frame takes has been retired.
Room == Len(ring) < MaxFrames

\* runFrame.  An error between Begin and the hand-off releases what Begin took
\* and leaves no trace here.
Submit(g, refresh) ==
  /\ refs' = Refresh(RetainAll(refs, g.holds), refresh, g.named)
  /\ slot' = Renamed(refresh, g.named)
  /\ prog' = IF g.writes = None THEN prog ELSE [prog EXCEPT ![g.writes] = 0]
  /\ ring' = Append(ring, [reads |-> g.reads, writes |-> g.writes, holds |-> g.holds,
                           pc |-> IF kind = "mv" THEN "parse" ELSE "wait"])

\* A frame the ring does not take is decoded with the ring drained; Finish
\* publishes it and resetActive drops what it holds.  The progress is left
\* alone.  A failed one is aborted and names nothing.
Serial(g, refresh) ==
  /\ ring = <<>>
  /\ refs' = ReleaseAll(Refresh(RetainAll(refs, g.holds), refresh, g.named), g.holds)
  /\ slot' = Renamed(refresh, g.named)
  /\ UNCHANGED <<prog, ring>>

\* showExistingKey: every other slot takes the shown key frame's state, and no
\* MV_REF grid.  The output takes a context of the ring and holds nothing.
ShowExistingKey(shown) ==
  /\ Room
  /\ LET h == IF kind = "mv" THEN None ELSE slot[shown]
     IN /\ refs' = Refresh(refs, Slots \ {shown}, h)
        /\ slot' = Renamed(Slots \ {shown}, h)
  /\ ring' = Append(ring, [reads |-> <<>>, writes |-> None, holds |-> <<>>, pc |-> "ok"])
  /\ UNCHANGED prog

Ended(f) == f.pc \in {"ok", "failed"}

\* Mutant: the holds of a retired frame are dropped twice.
RetireTwice ==
  /\ ring # <<>> /\ Ended(Head(ring))
  /\ refs' = ReleaseAll(ReleaseAll(refs, Head(ring).holds), Head(ring).holds)
  /\ ring' = Tail(ring)
  /\ UNCHANGED <<slot, prog>>

\* retire: ReleaseFrameThreadHolds.
Retire ==
  /\ ring # <<>> /\ Ended(Head(ring))
  /\ refs' = ReleaseAll(refs, Head(ring).holds)
  /\ ring' = Tail(ring)
  /\ UNCHANGED <<slot, prog>>

\* resetReferenceState, at a new coded video sequence.
NewSequence ==
  /\ ring = <<>>
  /\ refs' = Refresh(refs, Slots, None)
  /\ slot' = Renamed(Slots, None)
  /\ UNCHANGED <<prog, ring>>

\* Decoder.Reset, with the ring drained: everything is dropped, and final.
Reset ==
  /\ ring = <<>>
  /\ refs' = [h \in 1 .. Size |-> 0]
  /\ slot' = [s \in Slots |-> None]
  /\ prog' = [h \in 1 .. Size |-> Done]
  /\ UNCHANGED ring

(***************************************************************************)
(* The entropy pass of the frame at place i: parseFrame and tailLoop.      *)
(***************************************************************************)
ReadProgress(i) == {prog[h] : h \in Range(ring[i].reads) \ {None}}

\* Mutant: a failed pass ends without a word to those that wait.
EndsSilently(i, v) ==
  /\ prog' = IF ring[i].writes = None \/ v = Error THEN prog ELSE [prog EXCEPT ![ring[i].writes] = v]
  /\ ring' = [ring EXCEPT ![i].pc = IF v = Done THEN "ok" ELSE "failed"]
  /\ UNCHANGED <<refs, slot>>

\* The pass ends, and with it what it writes.
Ends(i, v) ==
  /\ prog' = IF ring[i].writes = None THEN prog ELSE [prog EXCEPT ![ring[i].writes] = v]
  /\ ring' = [ring EXCEPT ![i].pc = IF v = Done THEN "ok" ELSE "failed"]
  /\ UNCHANGED <<refs, slot>>

\* The wait for the initial CDFs, or the previous segmentation map.
Wait(i) ==
  /\ ring[i].pc = "wait"
  /\ 0 \notin ReadProgress(i)
  /\ IF Error \in ReadProgress(i)
     THEN Ends(i, Error)
     ELSE ring' = [ring EXCEPT ![i].pc = "parse"] /\ UNCHANGED <<refs, slot, prog>>

\* The context update tile saves the adapted CDFs before the pass ends.
SaveCDF(i) ==
  /\ kind = "cdf"
  /\ ring[i].pc = "parse"
  /\ ring[i].writes # None /\ prog[ring[i].writes] = 0
  /\ prog' = [prog EXCEPT ![ring[i].writes] = Done]
  /\ UNCHANGED <<refs, slot, ring>>

\* A pass that ends well has saved its CDFs, and read every row of the grids it
\* projects from.
ParseEnd(i) ==
  /\ ring[i].pc = "parse"
  /\ kind = "cdf" /\ ring[i].writes # None => prog[ring[i].writes] = Done
  /\ kind = "mv" => ReadProgress(i) \subseteq {Done}
  /\ Ends(i, Done)

\* The wait for a grid's rows reports that its frame failed.
GridFailed(i) ==
  /\ ring[i].pc = "parse"
  /\ kind = "mv" /\ Error \in ReadProgress(i)
  /\ Ends(i, Error)

\* The pass fails for a reason of its own, or in another pool.
ParseFail(i) ==
  /\ ring[i].pc = "parse"
  /\ Cardinality({h \in 1 .. Size : prog[h] = Error}) < MaxErrors
  /\ Ends(i, Error)

Pass(i) == Wait(i) \/ SaveCDF(i) \/ ParseEnd(i) \/ GridFailed(i)
Next ==
  /\ \/ /\ Room
        /\ \E g \in Plans, refresh \in SUBSET Slots : Submit(g, refresh) \/ Serial(g, refresh)
     \/ \E s \in Slots : ShowExistingKey(s)
     \/ Retire \/ NewSequence \/ Reset
     \/ \E i \in 1 .. Len(ring) : Pass(i) \/ ParseFail(i)
  /\ UNCHANGED kind

Spec == Init /\ [][Next]_vars

(***************************************************************************)
(* Properties                                                              *)
(***************************************************************************)
\* The holds on h: the place of the frame in the ring, the place in its holds.
InFlight(h) ==
  {p \in (1 .. Len(ring)) \X (1 .. InterRefs + 2) :
     p[2] \in DOMAIN ring[p[1]].holds /\ ring[p[1]].holds[p[2]] = h}

\* Every reference count is the number of slots and of holds in flight that
\* name the handle: nothing leaks and nothing is released twice, whatever order
\* frames are published, shown again, retired and dropped in.
CountsExact ==
  \A h \in 1 .. Size :
    refs[h] = Cardinality({s \in Slots : slot[s] = h}) + Cardinality(InFlight(h))

\* "The pool is sized so exhaustion is impossible" (work.go:485-486): when the
\* planner may begin a frame, it finds the handles it acquires.
NeverExhausted ==
  Room => Cardinality(Free(refs)) >= IF kind = "cdf" THEN 2 ELSE 1

\* No frame is given a handle to write that a frame submitted before it still
\* reads or writes.  So a frame past its waits reads nothing that is still being
\* written, and one that succeeded read no map or grid of a frame that failed.
\* (CDFs saved before their frame failed are good.)
InputsStable ==
  /\ \A i, j \in 1 .. Len(ring) : i < j /\ ring[j].writes # None =>
       ring[j].writes \notin Range(ring[i].reads) \cup {ring[i].writes}
  /\ \A i \in 1 .. Len(ring) :
       /\ ring[i].pc = "parse" /\ kind # "mv" => 0 \notin ReadProgress(i)
       /\ ring[i].pc = "ok" => ReadProgress(i) \subseteq IF kind = "cdf" THEN {Done, Error} ELSE {Done}

\* What a frame waits for is written by a frame submitted before it and still
\* running, so the ring never waits for itself.
WaitsOlder ==
  \A i \in 1 .. Len(ring) : \A h \in Range(ring[i].reads) \ {None} : prog[h] = 0 =>
    \E j \in 1 .. i - 1 : ring[j].writes = h /\ ~Ended(ring[j])
=============================================================================
