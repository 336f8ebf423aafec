--------------------------- MODULE EncoderPipeline ---------------------------
(***************************************************************************)
(* The throughput pipelining of VideoEncoder (video_pipeline.go): one      *)
(* source is held back so that a droppable leaf of the two-layer pattern   *)
(* is coded on a worker of its own while the caller codes the next base    *)
(* frame.  The in-loop filters of a reference frame run on a third         *)
(* goroutine behind the caller.                                            *)
(*                                                                         *)
(* A temporal unit is represented by what its bytes are computed from: the *)
(* source, the temporal layer, the frame counter, the reconstruction,      *)
(* symbol context and search source it reads.  The ghost "serial" is the   *)
(* encoder without pipelining fed with the same calls, "expected" what it  *)
(* returns.                                                                *)
(*                                                                         *)
(* Configuration: no rate control, no golden reference, one tile, eight    *)
(* bits 4:2:0, no padding, no screen content (whose zero-motion exit a     *)
(* leaf on the worker does not arm), one to three temporal layers.         *)
(***************************************************************************)
EXTENDS Integers, Sequences

CONSTANTS
  Modes,   \* the configurations: temporal layers, do filters run on the
           \* filter worker (~singleThread), may computeLeafTU return an
           \* error, and the bound on the sources submitted
  None

Buffers == {"key", "base0", "base1", "t1", "t2", "leaf"}

ASSUME PipelineAssumption ==
  /\ Modes \subseteq [layers : 1 .. 3, background : BOOLEAN, leafMayFail : BOOLEAN, frames : Nat]
  /\ None \notin Buffers

VARIABLES
  mode,      \* the encoder's configuration
  enc,       \* committed encoder state
  planes,    \* reconstruction buffer -> [src, state]
  sources,   \* pipeSrcBuf
  srcIdx,    \* pipeSrcIdx
  held,      \* pipeHeld, pipeHeldKey, pipeHeldTID, the buffer of pipeHeldSrc
  heldDone,  \* pipeHeldDone, pipeHeldRecon; pipeHeldTU is scratch.main
  scratch,   \* tuScratch, leafTuScratch: the temporal unit in them
  filter,    \* filterPending with the state of the pass, filterParams.out
  lazy,      \* lazyCDEF: the buffer of the pending pass
  lastRecon, \* lastRecon
  leaf,      \* the leaf worker: its state and leafJob
  caller, call,             \* where the caller is, in which call
  sent, emitted, returned,  \* ghost: sources taken, units returned, the buffer of the last
  serial, expected, seen    \* ghost: the serial encoder, its units, the last Recon()

own == <<enc, planes, sources, srcIdx, held, heldDone, scratch, filter, lazy, lastRecon, leaf, caller, call>>
pipeVars == <<mode, own, sent, emitted, returned, serial, expected, seen>>

-----------------------------------------------------------------------------
Picture(src) == [src |-> src, state |-> "filtered"]
Half(src) == [src |-> src, state |-> "partial"]
Raw(src) == [src |-> src, state |-> "raw"]

\* TemporalID: L1T2 is T0 T1, L1T3 is T0 T2 T1 T2.
TemporalID(e) ==
  IF ~e.haveKey \/ mode.layers = 1 THEN 0
  ELSE IF mode.layers = 2 THEN e.index % 2
  ELSE <<0, 2, 1, 2>>[(e.index % 4) + 1]

Referenced(tid) == tid = 0 \/ (mode.layers = 3 /\ tid = 1)
AfterT1(e, tid) == mode.layers = 3 /\ tid = 2 /\ e.last = 1

\* What the bytes of a frame are computed from.
KeyUnit(src) ==
  [src |-> src, tid |-> 0, index |-> 0, ref |-> Picture(0), ctx |-> 0, hme |-> 0]
InterUnit(src, tid, index, ref, ctx, hme) ==
  [src |-> src, tid |-> tid, index |-> index, ref |-> ref, ctx |-> ctx, hme |-> hme]

\* encodeKeyWithSequenceMax: the key replaces every reference.
AfterKey(e, src, recon) ==
  [e EXCEPT !.haveKey = TRUE, !.index = 1, !.last = 0, !.recon = recon,
            !.ctx = src, !.ctxT1 = src, !.hme = [slot \in 0 .. 1 |-> src]]

\* The references encodePReusing refreshes.
Refreshed(e, src, tid, recon) ==
  IF tid = 0 THEN [e EXCEPT !.recon = recon, !.ctx = src, !.hme[0] = src, !.idx = 1 - @]
  ELSE IF Referenced(tid) THEN [e EXCEPT !.ctxT1 = src, !.hme[1] = src]
  ELSE e

\* The frame counter behind an inter frame (EncodeWithTemporalID).
Counted(e, tid) == [e EXCEPT !.index = @ + 1, !.last = tid]

\* encodePReusing: the buffer of the frame.
OutBuffer(e, tid) ==
  IF tid = 0 THEN IF e.idx = 0 THEN "base0" ELSE "base1"
  ELSE IF mode.layers = 3 /\ tid = 2 THEN "t2" ELSE "t1"

RefBuffer(e, tid) == IF AfterT1(e, tid) THEN "t1" ELSE e.recon
Context(e, tid) == IF AfterT1(e, tid) THEN e.ctxT1 ELSE e.ctx
SearchSource(e, tid) == e.hme[IF AfterT1(e, tid) THEN 1 ELSE 0]

Fresh == [haveKey |-> FALSE, index |-> 0, last |-> 0, recon |-> "key", idx |-> 0,
          ctx |-> 0, ctxT1 |-> 0, hme |-> [slot \in 0 .. 1 |-> 0]]

\* The serial encoder: Encode(src, key); its reconstructions are the numbers
\* of their sources, filtered by the time they are read.
SerialUnit(s, src, key) ==
  LET tid == TemporalID(s.e)
  IN IF key \/ ~s.e.haveKey THEN KeyUnit(src)
     ELSE InterUnit(src, tid, s.e.index, Picture(s.pictures[RefBuffer(s.e, tid)]),
                    Context(s.e, tid), SearchSource(s.e, tid))

SerialStep(s, src, key) ==
  LET tid == TemporalID(s.e)
      out == OutBuffer(s.e, tid)
  IN IF key \/ ~s.e.haveKey
     THEN [e |-> AfterKey(s.e, src, "key"), pictures |-> [s.pictures EXCEPT !["key"] = src]]
     ELSE [e |-> Counted(Refreshed(s.e, src, tid, out), tid), pictures |-> [s.pictures EXCEPT ![out] = src]]

-----------------------------------------------------------------------------
Idle == [state |-> "idle", buf |-> 0, ref |-> "key", before |-> Picture(0), ctx |-> 0, hme |-> 0, index |-> 0,
         failed |-> FALSE]
NoCall == [kind |-> "none", src |-> 0, key |-> FALSE, tid |-> 0]
NothingHeld == [on |-> FALSE, key |-> FALSE, tid |-> 0, buf |-> 0]

PipeInit ==
  /\ mode \in Modes
  /\ enc = Fresh
  /\ planes = [b \in Buffers |-> Picture(0)]
  /\ sources = [i \in 0 .. 1 |-> 0] /\ srcIdx = 0
  /\ held = NothingHeld /\ heldDone = [on |-> FALSE, recon |-> "key"]
  /\ scratch = [main |-> None, leaf |-> None]
  /\ filter = [state |-> "off", out |-> "key"] /\ lazy = None /\ lastRecon = None
  /\ leaf = Idle /\ caller = "idle" /\ call = NoCall
  /\ sent = 0 /\ emitted = <<>> /\ returned = None
  /\ serial = [e |-> Fresh, pictures |-> [b \in Buffers |-> 0]] /\ expected = <<>> /\ seen = None

\* holdSource; the temporal layer is that of the state e behind the call.
Hold(src, key, e) ==
  /\ sources' = [sources EXCEPT ![srcIdx] = src]
  /\ srcIdx' = 1 - srcIdx
  /\ held' = [on |-> TRUE, key |-> key, tid |-> TemporalID(e), buf |-> srcIdx]

Return(which) == emitted' = Append(emitted, scratch'[which]) /\ returned' = which

\* overlapEligible, and a leaf is held.
OverlapEligible(key) == ~key /\ enc.haveKey /\ mode.layers = 2

\* The base frame of an earlier overlap is returned.
EmitDone ==
  /\ heldDone.on /\ heldDone' = [heldDone EXCEPT !.on = FALSE]
  /\ lastRecon' = heldDone.recon
  /\ UNCHANGED scratch
  /\ Return("main")

\* EncodeThroughput(src, key), up to the work it waits for.
EncodeThroughput(key) ==
  /\ caller = "idle" /\ sent < mode.frames
  /\ sent' = sent + 1 /\ seen' = None /\ UNCHANGED mode
  /\ expected' = Append(expected, SerialUnit(serial, sent + 1, key))
  /\ serial' = SerialStep(serial, sent + 1, key)
  /\ \/ /\ EmitDone /\ Hold(sent + 1, key, enc)
        /\ UNCHANGED <<enc, planes, filter, lazy, leaf, caller, call>>
     \/ /\ ~heldDone.on /\ ~held.on /\ Hold(sent + 1, key, enc)
        /\ returned' = None
        /\ UNCHANGED <<enc, planes, heldDone, scratch, filter, lazy, lastRecon, leaf, caller, call, emitted>>
     \/ /\ ~heldDone.on /\ held.on /\ caller' = "join" /\ returned' = None
        /\ IF OverlapEligible(key) /\ held.tid > 0 /\ ~held.key
           THEN /\ call' = [kind |-> "overlap", src |-> sent + 1, key |-> FALSE, tid |-> 0]
                /\ UNCHANGED held
           ELSE /\ call' = [kind |-> "held", src |-> sent + 1, key |-> key, tid |-> held.tid]
                /\ held' = [held EXCEPT !.on = FALSE]
        /\ UNCHANGED <<enc, planes, sources, srcIdx, heldDone, scratch, filter, lazy, lastRecon, leaf, emitted>>

\* Drain
Drain ==
  /\ caller = "idle" /\ seen' = None
  /\ \/ /\ EmitDone
        /\ UNCHANGED <<enc, planes, sources, srcIdx, held, filter, lazy, leaf, caller, call>>
     \/ /\ ~heldDone.on /\ held.on
        /\ held' = [held EXCEPT !.on = FALSE]
        /\ caller' = "join" /\ call' = [kind |-> "drain", src |-> 0, key |-> FALSE, tid |-> held.tid]
        /\ returned' = None
        /\ UNCHANGED <<enc, planes, sources, srcIdx, heldDone, scratch, filter, lazy, lastRecon, leaf, emitted>>
  /\ UNCHANGED <<mode, sent, serial, expected>>

\* Mutant: the overlap does not wait for the filters of the last base.
JoinFilterNot == filter' = filter

\* joinFilter: waits while a pass is pending.
JoinFilter == filter.state # "running" /\ filter' = [filter EXCEPT !.state = "off"]

\* The start of encodePReusing, encodeKeyWithSequenceMax or encodeOverlap,
\* which takes the leaf's inputs and wakes the worker.
Join ==
  /\ caller = "join" /\ JoinFilter /\ caller' = "code"
  /\ leaf' = IF call.kind # "overlap" THEN leaf
             ELSE [Idle EXCEPT !.state = "woken", !.buf = held.buf, !.ref = enc.recon, !.ctx = enc.ctx,
                               !.hme = enc.hme[0], !.index = enc.index]
  /\ UNCHANGED <<enc, planes, sources, srcIdx, held, heldDone, scratch, lazy, lastRecon, call>>
  /\ UNCHANGED <<mode, sent, emitted, returned, serial, expected, seen>>

\* The frame the caller codes.
Source == IF call.kind = "overlap" THEN call.src ELSE sources[held.buf]
CodesKey == call.kind # "overlap" /\ (held.key \/ ~enc.haveKey)
Out == IF CodesKey THEN "key" ELSE OutBuffer(enc, call.tid)

\* Tiles write the reconstruction.
Code ==
  /\ caller = "code" /\ caller' = "coding"
  /\ planes' = [planes EXCEPT ![Out] = Half(Source)]
  /\ lazy' = None
  /\ UNCHANGED <<enc, sources, srcIdx, held, heldDone, scratch, filter, lastRecon, leaf, call>>
  /\ UNCHANGED <<mode, sent, emitted, returned, serial, expected, seen>>

\* lpd1FrameBias: the base of an overlap is coded before its leaf is counted.
BaseIndex == enc.index + (IF call.kind = "overlap" THEN 1 ELSE 0)

Unit ==
  IF CodesKey THEN KeyUnit(Source)
  ELSE InterUnit(Source, call.tid, BaseIndex, planes[RefBuffer(enc, call.tid)], Context(enc, call.tid),
                 SearchSource(enc, call.tid))

Committed ==
  IF CodesKey THEN AfterKey(enc, Source, "key")
  ELSE IF call.kind = "overlap" THEN Refreshed(enc, Source, 0, Out)
  ELSE Counted(Refreshed(enc, Source, call.tid, Out), call.tid)

\* The filters of a reference go to the worker, those of a leaf wait for
\* Recon (lazyCDEF), those of a key run at once.
Filters ==
  CASE CodesKey -> /\ planes' = [planes EXCEPT ![Out] = Picture(Source)]
                   /\ lazy' = None /\ UNCHANGED filter
    [] ~CodesKey /\ ~Referenced(call.tid) -> /\ planes' = [planes EXCEPT ![Out] = Raw(Source)]
                                             /\ lazy' = Out /\ UNCHANGED filter
    [] ~CodesKey /\ Referenced(call.tid) /\ mode.background -> /\ planes' = [planes EXCEPT ![Out] = Raw(Source)]
                                                          /\ filter' = [state |-> "running", out |-> Out]
                                                          /\ lazy' = None
    [] OTHER -> /\ planes' = [planes EXCEPT ![Out] = Picture(Source)]
                /\ lazy' = None /\ UNCHANGED filter

\* The tiles are finished: the rest of the frame, and of the call but for the
\* overlap, which waits for the leaf.
Finish ==
  /\ caller = "coding" /\ Filters
  /\ scratch' = [scratch EXCEPT !.main = Unit]
  /\ enc' = Committed /\ lastRecon' = Out
  /\ IF call.kind = "overlap"
     THEN caller' = "wait" /\ UNCHANGED <<sources, srcIdx, held, call, emitted, returned>>
     ELSE /\ caller' = "idle" /\ call' = NoCall /\ Return("main")
          /\ IF call.kind = "held" THEN Hold(call.src, call.key, enc') ELSE UNCHANGED <<sources, srcIdx, held>>
  /\ UNCHANGED <<heldDone, leaf, mode, sent, serial, expected, seen>>

\* Mutant: the leaf stays held.
CollectKeeps ==
  /\ caller = "wait" /\ leaf.state = "done"
  /\ caller' = "idle" /\ call' = NoCall /\ leaf' = Idle
  /\ enc' = [enc EXCEPT !.index = @ + 2, !.last = 0]
  /\ lastRecon' = "leaf"
  /\ UNCHANGED <<scratch, heldDone, held>>
  /\ Return("leaf")
  /\ UNCHANGED <<planes, sources, srcIdx, filter, lazy, mode, sent, serial, expected, seen>>

\* encodeOverlap behind <-leafDone
Collect ==
  /\ caller = "wait" /\ leaf.state = "done"
  /\ caller' = "idle" /\ call' = NoCall /\ leaf' = Idle
  /\ UNCHANGED scratch
  /\ IF leaf.failed THEN UNCHANGED <<enc, lastRecon, heldDone, held, emitted, returned>>
     ELSE /\ enc' = [enc EXCEPT !.index = @ + 2, !.last = 0]
          /\ lastRecon' = "leaf"
          /\ heldDone' = [on |-> TRUE, recon |-> enc.recon]
          /\ held' = [held EXCEPT !.on = FALSE]
          /\ Return("leaf")
  /\ UNCHANGED <<planes, sources, srcIdx, filter, lazy, mode, sent, serial, expected, seen>>

-----------------------------------------------------------------------------
\* computeLeafTU, on the worker
LeafStart ==
  /\ leaf.state = "woken"
  /\ leaf' = [leaf EXCEPT !.state = "coding", !.before = planes[leaf.ref]]
  /\ planes' = [planes EXCEPT !["leaf"] = Half(sources[leaf.buf])]
  /\ UNCHANGED <<enc, sources, srcIdx, held, heldDone, scratch, filter, lazy, lastRecon, caller, call>>
  /\ UNCHANGED <<mode, sent, emitted, returned, serial, expected, seen>>

\* Mutant: the worker does not answer.
LeafSignalNever == leaf
LeafSignal == [leaf EXCEPT !.state = "done"]

\* The leaf was coded from the reference as long as nobody wrote it.
LeafEnd ==
  /\ leaf.state = "coding" /\ leaf' = LeafSignal
  /\ planes' = [planes EXCEPT !["leaf"] = Picture(sources[leaf.buf])]
  /\ scratch' = [scratch EXCEPT !.leaf =
       InterUnit(sources[leaf.buf], 1, leaf.index,
                 IF planes[leaf.ref] = leaf.before THEN leaf.before ELSE Half(leaf.before.src),
                 leaf.ctx, leaf.hme)]
  /\ UNCHANGED <<enc, sources, srcIdx, held, heldDone, filter, lazy, lastRecon, caller, call>>
  /\ UNCHANGED <<mode, sent, emitted, returned, serial, expected, seen>>

LeafFails ==
  /\ mode.leafMayFail /\ leaf.state = "coding"
  /\ leaf' = [leaf EXCEPT !.state = "done", !.failed = TRUE]
  /\ UNCHANGED <<enc, planes, sources, srcIdx, held, heldDone, scratch, filter, lazy, lastRecon, caller, call>>
  /\ UNCHANGED <<mode, sent, emitted, returned, serial, expected, seen>>

\* The filter worker (applyInLoopFilters).
FilterEnd ==
  /\ filter.state = "running" /\ filter' = [filter EXCEPT !.state = "done"]
  /\ planes' = [planes EXCEPT ![filter.out] = Picture(@.src)]
  /\ UNCHANGED <<enc, sources, srcIdx, held, heldDone, scratch, lazy, lastRecon, leaf, caller, call>>
  /\ UNCHANGED <<mode, sent, emitted, returned, serial, expected, seen>>

\* Recon(), with finishLazyCDEF.
Recon ==
  /\ caller = "idle" /\ lastRecon # None /\ emitted # <<>>
  /\ JoinFilter
  /\ planes' = IF lazy # None /\ lazy = lastRecon THEN [planes EXCEPT ![lazy] = Picture(@.src)] ELSE planes
  /\ lazy' = None /\ seen' = planes'[lastRecon]
  /\ UNCHANGED <<enc, sources, srcIdx, held, heldDone, scratch, lastRecon, leaf, caller, call>>
  /\ UNCHANGED <<mode, sent, emitted, returned, serial, expected>>

PipeNext ==
  \/ \E key \in BOOLEAN : EncodeThroughput(key)
  \/ Drain \/ Join \/ Code \/ Finish \/ Collect \/ Recon
  \/ LeafStart \/ LeafEnd \/ LeafFails \/ FilterEnd

\* The goroutines run; the caller finishes what it calls.
PipeFairness ==
  /\ WF_pipeVars(Join) /\ WF_pipeVars(Code) /\ WF_pipeVars(Finish) /\ WF_pipeVars(Collect)
  /\ WF_pipeVars(LeafStart) /\ WF_pipeVars(LeafEnd) /\ WF_pipeVars(FilterEnd)

PipeSpec == PipeInit /\ [][PipeNext]_pipeVars /\ PipeFairness

-----------------------------------------------------------------------------
\* What is returned is what Encode returns for the same sources, in order.
Identical == \A k \in DOMAIN emitted : k \in DOMAIN expected /\ emitted[k] = expected[k]

\* One frame of latency: between calls all sources but the last were
\* returned or wait as a finished unit, and Drain empties the pipeline.
OneBehind ==
  caller = "idle" => Len(emitted) + (IF held.on \/ heldDone.on THEN 1 ELSE 0) = sent

\* Recon() shows the finished reconstruction of the unit returned last.
ReconOfReturned == seen # None => seen = Picture(emitted[Len(emitted)].src)

\* Pipelining changes no byte and costs one frame of latency, and Recon() is
\* that of the unit returned last (video_pipeline.go:16-18, "encode(leaf N) can
\* run concurrently with encode(base N+1) with BYTE-IDENTICAL output").
SameBytes == ~mode.leafMayFail => Identical /\ OneBehind /\ ReconOfReturned

\* The returned slice is not written before the next call.
ReturnedStays == (caller = "idle" /\ returned # None) => scratch[returned] = emitted[Len(emitted)]

\* What later frames refer to was returned, or is about to be.
BaseReturned ==
  (caller = "idle" /\ enc.haveKey) =>
    LET base == planes[enc.recon].src
    IN (\E k \in DOMAIN emitted : emitted[k].src = base) \/ (heldDone.on /\ scratch.main.src = base)

\* Later frames refer to frames that were returned: the overlap changes "never
\* the logical encode order or the shared-state chain" (video_pipeline.go:25-26).
\* A returned unit is not written before the next call, whatever fails.
ReferenceReturned == ReturnedStays /\ (~mode.leafMayFail => BaseReturned)

\* A call returns.
CallsReturn == (caller # "idle") ~> (caller = "idle")
==============================================================================
