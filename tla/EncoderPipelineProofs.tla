------------------------ MODULE EncoderPipelineProofs ------------------------
(***************************************************************************)
(* EncoderPipeline: the pipelined encoder returns the units the serial one *)
(* returns, for every number of frames and every configuration.            *)
(***************************************************************************)
EXTENDS EncoderPipeline, SequenceTheorems, TLAPS

Encs ==
  [haveKey : BOOLEAN, index : Nat, last : 0 .. 2, recon : Buffers, idx : 0 .. 1,
   ctx : Nat, ctxT1 : Nat, hme : [0 .. 1 -> Nat]]
Pictures == [src : Nat, state : {"filtered", "partial", "raw"}]
Units == [src : Nat, tid : 0 .. 2, index : Nat, ref : Pictures, ctx : Nat, hme : Nat]
Serials == [e : Encs, pictures : [Buffers -> Nat]]
Leaves ==
  [state : {"idle", "woken", "coding", "done"}, buf : 0 .. 1, ref : Buffers, before : Pictures,
   ctx : Nat, hme : Nat, index : Nat, failed : BOOLEAN]
Calls == [kind : {"none", "held", "drain", "overlap"}, src : Nat, key : BOOLEAN, tid : 0 .. 2]
Helds == [on : BOOLEAN, key : BOOLEAN, tid : 0 .. 2, buf : 0 .. 1]

EncoderType ==
  /\ mode \in Modes
  /\ enc \in Encs
  /\ planes \in [Buffers -> Pictures]
  /\ sources \in [0 .. 1 -> Nat] /\ srcIdx \in 0 .. 1
  /\ held \in Helds
  /\ heldDone \in [on : BOOLEAN, recon : Buffers]
  /\ scratch \in [main : Units \cup {None}, leaf : Units \cup {None}]
CallType ==
  /\ filter \in [state : {"off", "running", "done"}, out : Buffers]
  /\ lazy \in Buffers \cup {None} /\ lastRecon \in Buffers \cup {None}
  /\ leaf \in Leaves
  /\ caller \in {"idle", "join", "code", "coding", "wait"}
  /\ call \in Calls
GhostType ==
  /\ sent \in Nat
  /\ serial \in Serials
  /\ expected \in Seq(Units)
PipeType == EncoderType /\ CallType /\ GhostType

\* Which worker runs during which call.
Quiet ==
  /\ leaf.state # "idle" => call.kind = "overlap" /\ caller \in {"code", "coding", "wait"}
  /\ caller = "idle" <=> call.kind = "none"
  /\ caller = "wait" => call.kind = "overlap"
  /\ caller # "idle" => returned = None /\ seen = None
  /\ heldDone.on => caller = "idle" /\ ~held.on
  /\ ReturnedStays

\* What the held source and the call in progress have fixed.
Progress ==
  /\ call.kind = "overlap" =>
       held.on /\ held.tid = 1 /\ ~held.key /\ mode.layers = 2 /\ enc.haveKey /\ call.tid = 0 /\ ~call.key
  /\ call.kind \in {"held", "drain"} => ~held.on /\ call.tid = held.tid
  /\ (held.on \/ call.kind # "none") /\ caller # "wait" => held.tid = TemporalID(enc)
  /\ caller \in {"code", "coding"} => filter.state # "running"

-----------------------------------------------------------------------------
Base == {"key", "base0", "base1"}
\* The buffers that frames refer to.
Kept == IF mode.layers = 3 THEN Base \cup {"t1"} ELSE Base
\* The buffer the tiles are writing.
Written == IF caller = "coding" THEN {Out} ELSE {}

\* The serial encoder s stands where the pipelined one does.
Agrees(s) ==
  /\ s \in Serials /\ s.e = enc
  /\ \A b \in Kept \ Written : s.pictures[b] = planes[b].src

One(s, src, key) ==
  /\ serial = SerialStep(s, src, key)
  /\ expected = Append(emitted, SerialUnit(s, src, key))
Two(s, src, key, src2, key2) ==
  LET t == SerialStep(s, src, key)
  IN /\ serial = SerialStep(t, src2, key2)
     /\ expected = Append(Append(emitted, SerialUnit(s, src, key)), SerialUnit(t, src2, key2))

HeldSource == sources[held.buf]
\* The unit the leaf worker is to make.
LeafUnit == InterUnit(HeldSource, 1, leaf.index, planes[leaf.ref], leaf.ctx, leaf.hme)

\* How far the serial encoder is ahead.
Ahead ==
  /\ call.kind = "none" /\ ~held.on => 
       /\ Agrees(serial)
       /\ expected = IF heldDone.on THEN Append(emitted, scratch.main) ELSE emitted
  /\ (call.kind = "none" /\ held.on) \/ call.kind = "drain" =>
       \E s \in Serials : Agrees(s) /\ One(s, HeldSource, held.key)
  /\ call.kind = "held" \/ (call.kind = "overlap" /\ caller # "wait") =>
       \E s \in Serials : Agrees(s) /\ Two(s, HeldSource, held.key, call.src, call.key)
  /\ caller = "wait" =>
       /\ serial.e = [enc EXCEPT !.index = @ + 2, !.last = 0]
       /\ \A b \in Kept : serial.pictures[b] = planes[b].src
       /\ expected = Append(Append(emitted, LeafUnit), scratch.main)

\* The references are finished, but for the one the filter worker holds.
Filtered(b) == planes[b].state = "filtered" \/ (filter.state = "running" /\ filter.out = b)
Ready ==
  /\ enc.recon \in {"key", IF enc.idx = 0 THEN "base1" ELSE "base0"}
  /\ \A b \in ({enc.recon} \cup (Kept \ Base)) \ Written : Filtered(b)

LeafInv ==
  /\ ~leaf.failed
  /\ leaf.state # "idle" =>
       /\ leaf.buf = held.buf /\ leaf.ref \in Base /\ planes[leaf.ref].state = "filtered"
       /\ filter.state = "running" => filter.out # leaf.ref
       /\ caller # "wait" => leaf.ref = enc.recon /\ leaf.ctx = enc.ctx /\ leaf.hme = enc.hme[0] /\ leaf.index = enc.index
  /\ leaf.state = "coding" => leaf.before = planes[leaf.ref]
  /\ leaf.state = "done" => scratch.leaf = LeafUnit /\ planes["leaf"] = Picture(HeldSource)
  /\ call.kind = "overlap" /\ caller \in {"code", "coding", "wait"} => leaf.state # "idle"

\* The picture of the unit returned last, and of the base held back.
LastInv ==
  /\ caller = "idle" /\ emitted # <<>> =>
       /\ lastRecon \in Buffers /\ planes[lastRecon].src = emitted[Len(emitted)].src
       /\ Filtered(lastRecon) \/ lazy = lastRecon
  /\ heldDone.on \/ caller = "wait" => scratch.main.src = planes[enc.recon].src /\ lazy = None
  /\ heldDone.on => heldDone.recon = enc.recon

\* The base is a frame that was returned, or is about to be.
BaseInv ==
  enc.haveKey =>
    \/ \E k \in DOMAIN emitted : emitted[k].src = planes[enc.recon].src
    \/ heldDone.on \/ caller = "wait"
    \/ caller = "coding" /\ CodesKey

Counts == Len(expected) = sent

BytesInv == Progress /\ Ahead /\ Ready /\ LeafInv /\ LastInv /\ BaseInv /\ Counts /\ ReconOfReturned
PipeInv == PipeType /\ emitted \in Seq(Units \cup {None}) /\ Quiet /\ (~mode.leafMayFail => BytesInv)

-----------------------------------------------------------------------------
LEMMA ModeFacts ==
  ASSUME mode \in Modes
  PROVE  mode.layers \in 1 .. 3 /\ mode.background \in BOOLEAN /\ mode.leafMayFail \in BOOLEAN
BY PipelineAssumption

LEMMA Temporal ==
  ASSUME mode \in Modes, NEW e \in Encs
  PROVE  /\ TemporalID(e) \in 0 .. 2
         /\ mode.layers = 1 => TemporalID(e) = 0
         /\ mode.layers = 2 => TemporalID(e) \in 0 .. 1
<1>1. e.index \in Nat /\ mode.layers \in 1 .. 3
  BY ModeFacts DEF Encs
<1>2. e.index % 2 \in 0 .. 1 /\ e.index % 4 \in 0 .. 3
  BY <1>1
<1>3. \A i \in 0 .. 3 : <<0, 2, 1, 2>>[i + 1] \in 0 .. 2
  OBVIOUS
<1>4. <<0, 2, 1, 2>>[(e.index % 4) + 1] \in 0 .. 2
  BY <1>2, <1>3
<1> QED
  BY <1>1, <1>2, <1>4 DEF TemporalID

LEMMA OutFacts ==
  ASSUME NEW e \in Encs, NEW tid \in 0 .. 2
  PROVE  /\ OutBuffer(e, tid) \in Buffers \ {"key", "leaf"}
         /\ tid = 0 => OutBuffer(e, tid) = IF e.idx = 0 THEN "base0" ELSE "base1"
         /\ tid # 0 => OutBuffer(e, tid) \in {"t1", "t2"}
         /\ mode.layers = 3 /\ tid = 2 => OutBuffer(e, tid) = "t2"
BY DEF OutBuffer, Buffers, Encs

LEMMA EncShapes ==
  ASSUME NEW e \in Encs, NEW src \in Nat, NEW tid \in 0 .. 2, NEW r \in Buffers
  PROVE  /\ AfterKey(e, src, r) = [haveKey |-> TRUE, index |-> 1, last |-> 0, recon |-> r, idx |-> e.idx,
                                   ctx |-> src, ctxT1 |-> src, hme |-> [slot \in 0 .. 1 |-> src]]
         /\ tid = 0 => Refreshed(e, src, tid, r) =
              [haveKey |-> e.haveKey, index |-> e.index, last |-> e.last, recon |-> r, idx |-> 1 - e.idx,
               ctx |-> src, ctxT1 |-> e.ctxT1, hme |-> [e.hme EXCEPT ![0] = src]]
         /\ tid # 0 /\ Referenced(tid) => Refreshed(e, src, tid, r) =
              [haveKey |-> e.haveKey, index |-> e.index, last |-> e.last, recon |-> e.recon, idx |-> e.idx,
               ctx |-> e.ctx, ctxT1 |-> src, hme |-> [e.hme EXCEPT ![1] = src]]
         /\ tid # 0 /\ ~Referenced(tid) => Refreshed(e, src, tid, r) = e
         /\ Counted(e, tid) = [haveKey |-> e.haveKey, index |-> e.index + 1, last |-> tid, recon |-> e.recon,
                               idx |-> e.idx, ctx |-> e.ctx, ctxT1 |-> e.ctxT1, hme |-> e.hme]
<1>1. AfterKey(e, src, r) = [haveKey |-> TRUE, index |-> 1, last |-> 0, recon |-> r, idx |-> e.idx,
                             ctx |-> src, ctxT1 |-> src, hme |-> [slot \in 0 .. 1 |-> src]]
  <2> DEFINE x == AfterKey(e, src, r)
  <2>1. /\ DOMAIN x = {"haveKey", "index", "last", "recon", "idx", "ctx", "ctxT1", "hme"}
        /\ x = [f \in DOMAIN x |-> x[f]]
    BY DEF Encs, AfterKey
  <2>2. /\ x.haveKey = TRUE /\ x.index = 1 /\ x.last = 0 /\ x.recon = r /\ x.idx = e.idx
        /\ x.ctx = src /\ x.ctxT1 = src /\ x.hme = [slot \in 0 .. 1 |-> src]
    BY DEF Encs, AfterKey
  <2> HIDE DEF x
  <2>3. x = [haveKey |-> TRUE, index |-> 1, last |-> 0, recon |-> r, idx |-> e.idx,
             ctx |-> src, ctxT1 |-> src, hme |-> [slot \in 0 .. 1 |-> src]]
    BY <2>1, <2>2
  <2> QED
    BY <2>3 DEF x
<1>2. tid = 0 => Refreshed(e, src, tid, r) =
        [haveKey |-> e.haveKey, index |-> e.index, last |-> e.last, recon |-> r, idx |-> 1 - e.idx,
         ctx |-> src, ctxT1 |-> e.ctxT1, hme |-> [e.hme EXCEPT ![0] = src]]
  BY DEF Refreshed, Encs
<1>3. /\ tid # 0 /\ Referenced(tid) => Refreshed(e, src, tid, r) =
           [haveKey |-> e.haveKey, index |-> e.index, last |-> e.last, recon |-> e.recon, idx |-> e.idx,
            ctx |-> e.ctx, ctxT1 |-> src, hme |-> [e.hme EXCEPT ![1] = src]]
      /\ tid # 0 /\ ~Referenced(tid) => Refreshed(e, src, tid, r) = e
  <2>1. tid # 0 /\ ~Referenced(tid) => Refreshed(e, src, tid, r) = e
    BY Zenon DEF Refreshed
  <2>2. tid # 0 /\ Referenced(tid) => Refreshed(e, src, tid, r) = [e EXCEPT !.ctxT1 = src, !.hme[1] = src]
    BY Zenon DEF Refreshed
  <2> DEFINE x == [e EXCEPT !.ctxT1 = src, !.hme[1] = src]
  <2>3. x = [haveKey |-> e.haveKey, index |-> e.index, last |-> e.last, recon |-> e.recon, idx |-> e.idx,
             ctx |-> e.ctx, ctxT1 |-> src, hme |-> [e.hme EXCEPT ![1] = src]]
    <3>1. /\ DOMAIN x = {"haveKey", "index", "last", "recon", "idx", "ctx", "ctxT1", "hme"}
          /\ x = [f \in DOMAIN x |-> x[f]]
      BY DEF Encs
    <3>2. /\ x.haveKey = e.haveKey /\ x.index = e.index /\ x.last = e.last /\ x.recon = e.recon /\ x.idx = e.idx
          /\ x.ctx = e.ctx /\ x.ctxT1 = src /\ x.hme = [e.hme EXCEPT ![1] = src]
      BY DEF Encs
    <3> HIDE DEF x
    <3> QED
      BY <3>1, <3>2
  <2> QED
    BY Zenon, <2>1, <2>2, <2>3
<1>4. Counted(e, tid) = [haveKey |-> e.haveKey, index |-> e.index + 1, last |-> tid, recon |-> e.recon,
                         idx |-> e.idx, ctx |-> e.ctx, ctxT1 |-> e.ctxT1, hme |-> e.hme]
  <2> DEFINE x == [e EXCEPT !.index = @ + 1, !.last = tid]
  <2>1. /\ DOMAIN x = {"haveKey", "index", "last", "recon", "idx", "ctx", "ctxT1", "hme"}
        /\ x = [f \in DOMAIN x |-> x[f]]
    BY DEF Encs
  <2>2. /\ x.haveKey = e.haveKey /\ x.index = e.index + 1 /\ x.last = tid /\ x.recon = e.recon /\ x.idx = e.idx
        /\ x.ctx = e.ctx /\ x.ctxT1 = e.ctxT1 /\ x.hme = e.hme
    BY DEF Encs
  <2> HIDE DEF x
  <2>3. x = [haveKey |-> e.haveKey, index |-> e.index + 1, last |-> tid, recon |-> e.recon,
             idx |-> e.idx, ctx |-> e.ctx, ctxT1 |-> e.ctxT1, hme |-> e.hme]
    BY <2>1, <2>2
  <2> QED
    BY <2>3 DEF Counted, x
<1> QED
  BY <1>1, <1>2, <1>3, <1>4

LEMMA EncTypes ==
  ASSUME NEW e \in Encs, NEW src \in Nat, NEW tid \in 0 .. 2, NEW r \in Buffers
  PROVE  AfterKey(e, src, r) \in Encs /\ Refreshed(e, src, tid, r) \in Encs /\ Counted(e, tid) \in Encs
<1>0. /\ e.haveKey \in BOOLEAN /\ e.index \in Nat /\ e.last \in 0 .. 2 /\ e.recon \in Buffers /\ e.idx \in 0 .. 1
      /\ e.ctx \in Nat /\ e.ctxT1 \in Nat /\ e.hme \in [0 .. 1 -> Nat]
  BY DEF Encs
<1>1. AfterKey(e, src, r) \in Encs
  <2>1. AfterKey(e, src, r) = [haveKey |-> TRUE, index |-> 1, last |-> 0, recon |-> r, idx |-> e.idx,
                               ctx |-> src, ctxT1 |-> src, hme |-> [slot \in 0 .. 1 |-> src]]
    BY EncShapes
  <2> QED
    BY <1>0, <2>1 DEF Encs
<1>2. Refreshed(e, src, tid, r) \in Encs
  <2>1. 1 - e.idx \in 0 .. 1 /\ [e.hme EXCEPT ![0] = src] \in [0 .. 1 -> Nat] /\ [e.hme EXCEPT ![1] = src] \in [0 .. 1 -> Nat]
    BY <1>0
  <2>2. CASE tid = 0
    <3>1. Refreshed(e, src, tid, r) =
            [haveKey |-> e.haveKey, index |-> e.index, last |-> e.last, recon |-> r, idx |-> 1 - e.idx,
             ctx |-> src, ctxT1 |-> e.ctxT1, hme |-> [e.hme EXCEPT ![0] = src]]
      BY <2>2, EncShapes
    <3> QED
      BY <1>0, <2>1, <3>1 DEF Encs
  <2>3. CASE tid # 0
    <3>1. Refreshed(e, src, tid, r) = e \/ Refreshed(e, src, tid, r) =
            [haveKey |-> e.haveKey, index |-> e.index, last |-> e.last, recon |-> e.recon, idx |-> e.idx,
             ctx |-> e.ctx, ctxT1 |-> src, hme |-> [e.hme EXCEPT ![1] = src]]
      BY <2>3, EncShapes
    <3> QED
      BY <1>0, <2>1, <3>1 DEF Encs
  <2> QED
    BY <2>2, <2>3
<1>3. Counted(e, tid) \in Encs
  <2>1. Counted(e, tid) = [haveKey |-> e.haveKey, index |-> e.index + 1, last |-> tid, recon |-> e.recon,
                           idx |-> e.idx, ctx |-> e.ctx, ctxT1 |-> e.ctxT1, hme |-> e.hme]
    BY EncShapes
  <2> QED
    BY <1>0, <2>1 DEF Encs
<1> QED
  BY <1>1, <1>2, <1>3

LEMMA BufferFacts ==
  ASSUME NEW e \in Encs, NEW tid \in 0 .. 2
  PROVE  /\ RefBuffer(e, tid) \in Buffers /\ RefBuffer(e, tid) = IF AfterT1(e, tid) THEN "t1" ELSE e.recon
         /\ Context(e, tid) \in Nat /\ SearchSource(e, tid) \in Nat
BY DEF RefBuffer, Context, SearchSource, Encs, Buffers

LEMMA UnitTypes ==
  ASSUME NEW src \in Nat, NEW tid \in 0 .. 2, NEW index \in Nat, NEW ref \in Pictures, NEW ctx \in Nat, NEW hme \in Nat
  PROVE  KeyUnit(src) \in Units /\ InterUnit(src, tid, index, ref, ctx, hme) \in Units
BY DEF KeyUnit, InterUnit, Units, Pictures, Picture

LEMMA PictureTypes ==
  ASSUME NEW src \in Nat
  PROVE  /\ Picture(src) \in Pictures /\ Half(src) \in Pictures /\ Raw(src) \in Pictures
         /\ Picture(src).src = src /\ Half(src).src = src /\ Raw(src).src = src
         /\ Picture(src).state = "filtered"
BY DEF Picture, Half, Raw, Pictures

LEMMA SerialTypes ==
  ASSUME mode \in Modes, NEW s \in Serials, NEW src \in Nat, NEW key \in BOOLEAN
  PROVE  SerialStep(s, src, key) \in Serials /\ SerialUnit(s, src, key) \in Units
<1>1. s.e \in Encs /\ s.pictures \in [Buffers -> Nat] /\ TemporalID(s.e) \in 0 .. 2
  BY Temporal DEF Serials
<1> DEFINE tid == TemporalID(s.e)
           out == OutBuffer(s.e, tid)
<1>2. out \in Buffers /\ "key" \in Buffers
  BY <1>1, OutFacts DEF Buffers
<1>3. [e |-> AfterKey(s.e, src, "key"), pictures |-> [s.pictures EXCEPT !["key"] = src]] \in Serials
  BY <1>1, <1>2, EncTypes DEF Serials
<1>4. Refreshed(s.e, src, tid, out) \in Encs
  BY <1>1, <1>2, EncTypes
<1>5. Counted(Refreshed(s.e, src, tid, out), tid) \in Encs
  BY <1>1, <1>2, <1>4, EncTypes
<1>6. [e |-> Counted(Refreshed(s.e, src, tid, out), tid), pictures |-> [s.pictures EXCEPT ![out] = src]] \in Serials
  BY <1>1, <1>2, <1>5 DEF Serials
<1>7. SerialStep(s, src, key) \in Serials
  BY <1>3, <1>6 DEF SerialStep
<1>8. RefBuffer(s.e, tid) \in Buffers /\ Context(s.e, tid) \in Nat /\ SearchSource(s.e, tid) \in Nat /\ s.e.index \in Nat
  BY <1>1, BufferFacts DEF Encs
<1>9. Picture(s.pictures[RefBuffer(s.e, tid)]) \in Pictures
  BY <1>1, <1>8, PictureTypes
<1>10. SerialUnit(s, src, key) \in Units
  BY <1>1, <1>8, <1>9, UnitTypes DEF SerialUnit
<1> QED
  BY <1>7, <1>10

\* The serial encoder is the same encoder throughout: mode does not change.
LEMMA SameEncoder ==
  ASSUME mode' = mode, NEW CONSTANT s, NEW CONSTANT src, NEW CONSTANT key
  PROVE  SerialStep(s, src, key)' = SerialStep(s, src, key) /\ SerialUnit(s, src, key)' = SerialUnit(s, src, key)
BY DEF SerialStep, SerialUnit, TemporalID, OutBuffer, RefBuffer, Context, SearchSource, AfterT1, Referenced,
       Refreshed, Counted, AfterKey

LEMMA OneKept ==
  ASSUME mode' = mode, emitted' = emitted, serial' = serial, expected' = expected,
         NEW CONSTANT s, NEW CONSTANT src, NEW CONSTANT key
  PROVE  One(s, src, key)' = One(s, src, key)
BY SameEncoder DEF One

LEMMA TwoKept ==
  ASSUME mode' = mode, emitted' = emitted, serial' = serial, expected' = expected,
         NEW CONSTANT s, NEW CONSTANT src, NEW CONSTANT key, NEW CONSTANT src2, NEW CONSTANT key2
  PROVE  Two(s, src, key, src2, key2)' = Two(s, src, key, src2, key2)
<1>1. PICK t : t = SerialStep(s, src, key)
  OBVIOUS
<1>2. SerialStep(s, src, key)' = t /\ SerialUnit(s, src, key)' = SerialUnit(s, src, key)
  BY <1>1, SameEncoder
<1>3. SerialStep(t, src2, key2)' = SerialStep(t, src2, key2) /\ SerialUnit(t, src2, key2)' = SerialUnit(t, src2, key2)
  BY SameEncoder
<1> QED
  BY <1>1, <1>2, <1>3 DEF Two

\* A step of a worker, or of the call, that leaves what the units are made of.
PlanesKept == \A b \in Kept \ Written' : b \notin Written /\ planes'[b].src = planes[b].src
StateKept ==
  /\ UNCHANGED <<mode, enc, sources, held, heldDone, call, emitted, serial, expected>>
  /\ scratch'.main = scratch.main
  /\ caller' = "wait" <=> caller = "wait"

LEMMA AgreesKept ==
  ASSUME mode' = mode, enc' = enc, PlanesKept, NEW CONSTANT s
  PROVE  Agrees(s) => Agrees(s)'
<1>1. Kept' = Kept
  BY DEF Kept
<1>2. \A b \in Kept \ Written' : b \in Kept \ Written /\ planes'[b].src = planes[b].src
  BY DEF PlanesKept
<1> SUFFICES ASSUME Agrees(s) PROVE Agrees(s)'
  OBVIOUS
<1>3. s \in Serials /\ s.e = enc' /\ \A b \in Kept \ Written' : s.pictures[b] = planes'[b].src
  BY Zenon, <1>2 DEF Agrees
<1> QED
  BY Zenon, <1>1, <1>3 DEF Agrees

LEMMA AheadKept ==
  ASSUME Ahead, StateKept, PlanesKept, caller = "wait" => LeafUnit' = LeafUnit /\ Written' = {}
  PROVE  Ahead'
<1>0. /\ mode' = mode /\ enc' = enc /\ sources' = sources /\ held' = held /\ heldDone' = heldDone /\ call' = call
      /\ emitted' = emitted /\ serial' = serial /\ expected' = expected /\ scratch'.main = scratch.main
      /\ (caller' = "wait" <=> caller = "wait") /\ HeldSource' = HeldSource /\ Kept' = Kept
  BY Zenon DEF StateKept, HeldSource, Kept
<1>1. PICK h, k, c, d : h = HeldSource /\ k = held.key /\ c = call.src /\ d = call.key
  BY Zenon
<1>2. ASSUME call.kind = "none", ~held.on
      PROVE  Agrees(serial)' /\ expected' = IF heldDone'.on THEN Append(emitted', scratch'.main) ELSE emitted'
  <2>1. PICK s : s = serial
    BY Zenon
  <2>2. Agrees(s) /\ expected = IF heldDone.on THEN Append(emitted, scratch.main) ELSE emitted
    BY Zenon, <1>2, <2>1 DEF Ahead
  <2>3. Agrees(s)'
    BY Zenon, <1>0, <2>2, AgreesKept
  <2>4. serial' = s
    BY Zenon, <1>0, <2>1
  <2>5. Agrees(serial)'
    BY Zenon, <2>3, <2>4 DEF Agrees
  <2> QED
    BY Zenon, <1>0, <2>2, <2>5
<1>3. ASSUME (call.kind = "none" /\ held.on) \/ call.kind = "drain"
      PROVE  \E s \in Serials : Agrees(s)' /\ One(s, HeldSource, held.key)'
  <2>1. PICK s \in Serials : Agrees(s) /\ One(s, h, k)
    BY Zenon, <1>1, <1>3 DEF Ahead
  <2>2. Agrees(s)' /\ One(s, h, k)'
    BY Zenon, <1>0, <2>1, AgreesKept, OneKept
  <2>3. One(s, HeldSource, held.key)'
    BY Zenon, <1>0, <1>1, <2>2 DEF One
  <2> QED
    BY Zenon, <2>2, <2>3
<1>4. ASSUME call.kind = "held" \/ (call.kind = "overlap" /\ caller # "wait")
      PROVE  \E s \in Serials : Agrees(s)' /\ Two(s, HeldSource, held.key, call.src, call.key)'
  <2>1. PICK s \in Serials : Agrees(s) /\ Two(s, h, k, c, d)
    BY Zenon, <1>1, <1>4 DEF Ahead
  <2>2. Agrees(s)' /\ Two(s, h, k, c, d)'
    BY Zenon, <1>0, <2>1, AgreesKept, TwoKept
  <2>3. Two(s, HeldSource, held.key, call.src, call.key)'
    BY Zenon, <1>0, <1>1, <2>2 DEF Two
  <2> QED
    BY Zenon, <2>2, <2>3
<1>5. ASSUME caller = "wait"
      PROVE  /\ serial'.e = [enc' EXCEPT !.index = @ + 2, !.last = 0]
             /\ \A b \in Kept' : serial'.pictures[b] = planes'[b].src
             /\ expected' = Append(Append(emitted', LeafUnit'), scratch'.main)
  <2>1. /\ serial.e = [enc EXCEPT !.index = @ + 2, !.last = 0]
        /\ \A b \in Kept : serial.pictures[b] = planes[b].src
        /\ expected = Append(Append(emitted, LeafUnit), scratch.main)
    BY Zenon, <1>5 DEF Ahead
  <2>2. \A b \in Kept : planes'[b].src = planes[b].src
    BY Zenon, <1>5 DEF PlanesKept
  <2> QED
    BY Zenon, <1>0, <1>5, <2>1, <2>2
<1>6. /\ call'.kind = "none" /\ ~held'.on =>
           /\ Agrees(serial)'
           /\ expected' = IF heldDone'.on THEN Append(emitted', scratch'.main) ELSE emitted'
      /\ (call'.kind = "none" /\ held'.on) \/ call'.kind = "drain" =>
           \E s \in Serials : Agrees(s)' /\ One(s, HeldSource, held.key)'
      /\ call'.kind = "held" \/ (call'.kind = "overlap" /\ caller' # "wait") =>
           \E s \in Serials : Agrees(s)' /\ Two(s, HeldSource, held.key, call.src, call.key)'
      /\ caller' = "wait" =>
           /\ serial'.e = [enc' EXCEPT !.index = @ + 2, !.last = 0]
           /\ \A b \in Kept' : serial'.pictures[b] = planes'[b].src
           /\ expected' = Append(Append(emitted', LeafUnit'), scratch'.main)
  <2>1. call' = call /\ held' = held /\ (caller' = "wait" <=> caller = "wait")
    BY Zenon, <1>0
  <2> QED
    BY Zenon, <2>1, <1>2, <1>3, <1>4, <1>5
<1> QED
  BY Zenon, <1>6 DEF Ahead

LEMMA OutType ==
  ASSUME PipeType
  PROVE  /\ Out \in Buffers /\ Out # "leaf"
         /\ CodesKey => Out = "key"
         /\ ~CodesKey => Out = OutBuffer(enc, call.tid)
<1>1. enc \in Encs /\ call.tid \in 0 .. 2
  BY DEF PipeType, EncoderType, CallType, Calls
<1>2. OutBuffer(enc, call.tid) \in Buffers \ {"key", "leaf"} /\ "key" \in Buffers
  BY <1>1, OutFacts DEF Buffers
<1> QED
  BY <1>2 DEF Out

LEMMA TypeFacts ==
  ASSUME PipeType
  PROVE  /\ mode.layers \in 1 .. 3 /\ enc \in Encs /\ enc.recon \in Buffers /\ enc.haveKey \in BOOLEAN /\ enc.index \in Nat
         /\ enc.idx \in 0 .. 1 /\ enc.ctx \in Nat /\ enc.hme \in [0 .. 1 -> Nat] /\ enc.hme[0] \in Nat
         /\ held.on \in BOOLEAN /\ held.key \in BOOLEAN /\ held.tid \in 0 .. 2 /\ held.buf \in 0 .. 1
         /\ HeldSource \in Nat /\ heldDone.on \in BOOLEAN /\ heldDone.recon \in Buffers
         /\ planes \in [Buffers -> Pictures] /\ filter.out \in Buffers /\ filter.state \in {"off", "running", "done"}
         /\ leaf.buf \in 0 .. 1 /\ leaf.ref \in Buffers /\ leaf.ctx \in Nat /\ leaf.hme \in Nat /\ leaf.index \in Nat
         /\ leaf.before \in Pictures /\ leaf.state \in {"idle", "woken", "coding", "done"} /\ leaf.failed \in BOOLEAN
         /\ call.src \in Nat /\ call.key \in BOOLEAN /\ call.tid \in 0 .. 2 /\ call.kind \in {"none", "held", "drain", "overlap"}
<1>1. mode.layers \in 1 .. 3
  BY ModeFacts DEF PipeType, EncoderType
<1>2. /\ enc \in Encs /\ enc.recon \in Buffers /\ enc.haveKey \in BOOLEAN /\ enc.index \in Nat
      /\ enc.idx \in 0 .. 1 /\ enc.ctx \in Nat /\ enc.hme \in [0 .. 1 -> Nat] /\ enc.hme[0] \in Nat
  BY DEF PipeType, EncoderType, Encs
<1>3. held.on \in BOOLEAN /\ held.key \in BOOLEAN /\ held.tid \in 0 .. 2 /\ held.buf \in 0 .. 1
  BY DEF PipeType, EncoderType, Helds
<1>4. HeldSource \in Nat /\ heldDone.on \in BOOLEAN /\ heldDone.recon \in Buffers /\ planes \in [Buffers -> Pictures]
  BY <1>3 DEF PipeType, EncoderType, HeldSource
<1>5. filter.out \in Buffers /\ filter.state \in {"off", "running", "done"}
  BY DEF PipeType, CallType
<1>6. /\ leaf.buf \in 0 .. 1 /\ leaf.ref \in Buffers /\ leaf.ctx \in Nat /\ leaf.hme \in Nat /\ leaf.index \in Nat
      /\ leaf.before \in Pictures /\ leaf.state \in {"idle", "woken", "coding", "done"} /\ leaf.failed \in BOOLEAN
  BY DEF PipeType, CallType, Leaves
<1>7. call.src \in Nat /\ call.key \in BOOLEAN /\ call.tid \in 0 .. 2 /\ call.kind \in {"none", "held", "drain", "overlap"}
  BY DEF PipeType, CallType, Calls
<1> QED
  BY Zenon, <1>1, <1>2, <1>3, <1>4, <1>5, <1>6, <1>7

LEMMA RefHere ==
  ASSUME PipeType, Ready
  PROVE  enc.recon \in Base /\ enc.recon # "leaf" /\ enc.recon # OutBuffer(enc, 0) /\ (enc.recon # Out \/ CodesKey)
<1>1. enc \in Encs /\ call.tid \in 0 .. 2
  BY Zenon, TypeFacts
<1>2. enc.recon \in {"key", IF enc.idx = 0 THEN "base1" ELSE "base0"}
  BY DEF Ready
<1>3. OutBuffer(enc, 0) = IF enc.idx = 0 THEN "base0" ELSE "base1"
  BY <1>1, OutFacts
<1>4. ~CodesKey => Out = OutBuffer(enc, call.tid)
  BY Zenon, OutType
<1>5. call.tid # 0 => OutBuffer(enc, call.tid) \in {"t1", "t2"}
  BY Zenon, <1>1, OutFacts
<1> QED
  BY <1>2, <1>3, <1>4, <1>5 DEF Base

\* The leaf worker writes nothing the frames refer to.
LEMMA BesideLeaf ==
  ASSUME PipeType, BytesInv, caller # "idle", StateKept, UNCHANGED <<caller, sent, lastRecon, lazy, seen, filter>>,
         NEW x, planes' = [planes EXCEPT !["leaf"] = x], leaf.state # "idle", ~heldDone.on,
         UNCHANGED <<leaf.buf, leaf.ref, leaf.ctx, leaf.hme, leaf.index>>
  PROVE  Progress' /\ Ahead' /\ Ready' /\ LastInv' /\ BaseInv' /\ Counts' /\ ReconOfReturned' /\ LeafUnit' = LeafUnit
         /\ planes'[leaf.ref] = planes[leaf.ref] /\ leaf.ref \in Base /\ planes'["leaf"] = x
<1>0. /\ mode' = mode /\ enc' = enc /\ sources' = sources /\ held' = held /\ heldDone' = heldDone /\ call' = call
      /\ emitted' = emitted /\ serial' = serial /\ expected' = expected /\ scratch'.main = scratch.main
      /\ caller' = caller /\ sent' = sent /\ lastRecon' = lastRecon /\ lazy' = lazy /\ seen' = seen /\ filter' = filter
      /\ leaf'.buf = leaf.buf /\ leaf'.ref = leaf.ref /\ leaf'.ctx = leaf.ctx /\ leaf'.hme = leaf.hme /\ leaf'.index = leaf.index
  BY Zenon DEF StateKept
<1>1. planes \in [Buffers -> Pictures] /\ "leaf" \in Buffers
  BY Zenon, TypeFacts DEF Buffers
<1>2. \A b \in Buffers \ {"leaf"} : planes'[b] = planes[b]
  BY <1>1
<1>3. planes'["leaf"] = x
  BY <1>1
<1>4. Kept' = Kept /\ Written' = Written /\ HeldSource' = HeldSource /\ CodesKey' = CodesKey
  BY Zenon, <1>0 DEF Kept, Written, Out, CodesKey, OutBuffer, HeldSource
<1>5. Kept \subseteq Buffers \ {"leaf"} /\ Base \subseteq Buffers \ {"leaf"}
  BY DEF Kept, Base, Buffers
<1>6. leaf.ref \in Base /\ leaf.ref \in Buffers \ {"leaf"}
  BY Zenon, <1>5 DEF BytesInv, LeafInv
<1>7. planes'[leaf.ref] = planes[leaf.ref]
  BY Zenon, <1>2, <1>6
<1>8. LeafUnit' = LeafUnit
  BY Zenon, <1>0, <1>4, <1>7 DEF LeafUnit, InterUnit
<1>9. PlanesKept
  BY Zenon, <1>2, <1>4, <1>5 DEF PlanesKept
<1>10. caller = "wait" => Written' = {}
  BY <1>4 DEF Written
<1>11. Ahead'
  BY Zenon, <1>8, <1>9, <1>10, AheadKept DEF BytesInv
<1>12. Progress'
  BY Zenon, <1>0 DEF BytesInv, Progress, TemporalID
<1>13. enc.recon \in Buffers \ {"leaf"}
  BY Zenon, <1>5, RefHere DEF BytesInv
<1>14. planes'[enc.recon] = planes[enc.recon]
  BY Zenon, <1>2, <1>13
<1>15. Ready'
  <2>1. enc'.recon \in {"key", IF enc'.idx = 0 THEN "base1" ELSE "base0"}
    BY Zenon, <1>0 DEF BytesInv, Ready
  <2>2. ASSUME NEW b \in ({enc.recon} \cup (Kept \ Base)) \ Written PROVE Filtered(b)'
    <3>1. Filtered(b)
      BY Zenon DEF BytesInv, Ready
    <3>2. planes'[b] = planes[b]
      BY Zenon, <1>2, <1>5, <1>13
    <3> QED
      BY Zenon, <1>0, <3>1, <3>2 DEF Filtered
  <2> QED
    BY Zenon, <1>0, <1>4, <2>1, <2>2 DEF Ready
<1>16. LastInv'
  BY Zenon, <1>0, <1>14 DEF BytesInv, LastInv
<1>17. BaseInv'
  BY Zenon, <1>0, <1>4, <1>14 DEF BytesInv, BaseInv
<1>18. Counts' /\ ReconOfReturned'
  BY Zenon, <1>0 DEF BytesInv, Counts, ReconOfReturned, Picture
<1> QED
  BY Zenon, <1>3, <1>6, <1>7, <1>8, <1>11, <1>12, <1>15, <1>16, <1>17, <1>18

LEMMA StepLeafStart == ASSUME PipeInv, LeafStart PROVE PipeInv'
<1>0. PipeType /\ Quiet /\ emitted \in Seq(Units \cup {None})
  BY Zenon DEF PipeInv
<1>1. /\ leaf.state = "woken" /\ leaf' = [leaf EXCEPT !.state = "coding", !.before = planes[leaf.ref]]
      /\ planes' = [planes EXCEPT !["leaf"] = Half(sources[leaf.buf])]
      /\ UNCHANGED <<enc, sources, srcIdx, held, heldDone, scratch, filter, lazy, lastRecon, caller, call>>
      /\ UNCHANGED <<mode, sent, emitted, returned, serial, expected, seen>>
  BY Zenon DEF LeafStart
<1>2. call.kind = "overlap" /\ caller \in {"code", "coding", "wait"} /\ ~heldDone.on
  BY Zenon, <1>0, <1>1 DEF Quiet
<1>3. /\ leaf \in Leaves /\ sources[leaf.buf] \in Nat /\ planes \in [Buffers -> Pictures]
      /\ planes[leaf.ref] \in Pictures /\ Half(sources[leaf.buf]) \in Pictures /\ "leaf" \in Buffers
  <2>1. leaf \in Leaves /\ leaf.buf \in 0 .. 1 /\ leaf.ref \in Buffers /\ sources \in [0 .. 1 -> Nat] /\ planes \in [Buffers -> Pictures]
    BY <1>0, TypeFacts DEF PipeType, EncoderType, CallType
  <2> QED
    BY <2>1, PictureTypes DEF Buffers
<1>4. /\ leaf'.state = "coding" /\ leaf'.before = planes[leaf.ref] /\ leaf'.buf = leaf.buf /\ leaf'.ref = leaf.ref
      /\ leaf'.ctx = leaf.ctx /\ leaf'.hme = leaf.hme /\ leaf'.index = leaf.index /\ leaf'.failed = leaf.failed
  BY <1>1, <1>3 DEF Leaves
<1>5. leaf' \in Leaves
  <2> DEFINE x == [leaf EXCEPT !.state = "coding"]
  <2>1. x \in Leaves
    BY <1>3 DEF Leaves
  <2>2. leaf' = [x EXCEPT !.before = planes[leaf.ref]]
    BY Zenon, <1>1
  <2> HIDE DEF x
  <2> QED
    BY <1>3, <2>1, <2>2 DEF Leaves
<1>6. PipeType'
  <2>1. planes' \in [Buffers -> Pictures]
    BY <1>1, <1>3
  <2> QED
    BY Zenon, <1>0, <1>1, <1>5, <2>1 DEF PipeType, EncoderType, CallType, GhostType
<1>7. Quiet'
  BY Zenon, <1>0, <1>1, <1>2, <1>4 DEF Quiet, ReturnedStays
<1>8. ASSUME ~mode.leafMayFail PROVE BytesInv'
  <2>0. BytesInv /\ caller # "idle" /\ leaf.state # "idle"
    BY Zenon, <1>1, <1>2, <1>8 DEF PipeInv
  <2>1. StateKept /\ UNCHANGED <<caller, sent, lastRecon, lazy, seen, filter>>
        /\ UNCHANGED <<leaf.buf, leaf.ref, leaf.ctx, leaf.hme, leaf.index>>
    BY Zenon, <1>1, <1>4 DEF StateKept
  <2>2. Progress' /\ Ahead' /\ Ready' /\ LastInv' /\ BaseInv' /\ Counts' /\ ReconOfReturned'
        /\ planes'[leaf.ref] = planes[leaf.ref]
    BY Zenon, <1>0, <1>1, <1>2, <2>0, <2>1, BesideLeaf
  <2>3. LeafInv'
    <3>1. "coding" # "done" /\ "coding" # "idle" /\ "woken" # "idle"
      OBVIOUS
    <3> QED
      BY ZenonT(60), <1>1, <1>4, <2>0, <2>2, <3>1 DEF BytesInv, LeafInv
  <2> QED
    BY Zenon, <2>2, <2>3 DEF BytesInv
<1> QED
  BY Zenon, <1>0, <1>1, <1>6, <1>7, <1>8 DEF PipeInv

LEMMA StepLeafEnd == ASSUME PipeInv, LeafEnd PROVE PipeInv'
<1>0. PipeType /\ Quiet /\ emitted \in Seq(Units \cup {None})
  BY Zenon DEF PipeInv
<1> DEFINE read == IF planes[leaf.ref] = leaf.before THEN leaf.before ELSE Half(leaf.before.src)
           unit == InterUnit(sources[leaf.buf], 1, leaf.index, read, leaf.ctx, leaf.hme)
<1>1. /\ leaf.state = "coding" /\ leaf' = [leaf EXCEPT !.state = "done"]
      /\ planes' = [planes EXCEPT !["leaf"] = Picture(sources[leaf.buf])]
      /\ scratch' = [scratch EXCEPT !.leaf = unit]
      /\ UNCHANGED <<enc, sources, srcIdx, held, heldDone, filter, lazy, lastRecon, caller, call>>
      /\ UNCHANGED <<mode, sent, emitted, returned, serial, expected, seen>>
  BY Zenon DEF LeafEnd, LeafSignal
<1>2. call.kind = "overlap" /\ caller \in {"code", "coding", "wait"} /\ ~heldDone.on
  BY Zenon, <1>0, <1>1 DEF Quiet
<1>3. /\ leaf \in Leaves /\ sources[leaf.buf] \in Nat /\ planes \in [Buffers -> Pictures]
      /\ Picture(sources[leaf.buf]) \in Pictures /\ "leaf" \in Buffers /\ unit \in Units
      /\ scratch \in [main : Units \cup {None}, leaf : Units \cup {None}]
  <2>1. /\ leaf \in Leaves /\ leaf.buf \in 0 .. 1 /\ leaf.ref \in Buffers /\ sources \in [0 .. 1 -> Nat] /\ planes \in [Buffers -> Pictures]
        /\ leaf.before \in Pictures /\ leaf.ctx \in Nat /\ leaf.hme \in Nat /\ leaf.index \in Nat
        /\ scratch \in [main : Units \cup {None}, leaf : Units \cup {None}]
    BY <1>0, TypeFacts DEF PipeType, EncoderType, CallType
  <2>2. leaf.before.src \in Nat
    BY <2>1 DEF Pictures
  <2>3. read \in Pictures /\ sources[leaf.buf] \in Nat
    BY <2>1, <2>2, PictureTypes
  <2> HIDE DEF read
  <2>4. unit \in Units
    BY <2>1, <2>3, UnitTypes
  <2> QED
    BY <2>1, <2>3, <2>4, PictureTypes DEF Buffers
<1> HIDE DEF unit
<1>4. /\ leaf'.state = "done" /\ leaf'.before = leaf.before /\ leaf'.buf = leaf.buf /\ leaf'.ref = leaf.ref
      /\ leaf'.ctx = leaf.ctx /\ leaf'.hme = leaf.hme /\ leaf'.index = leaf.index /\ leaf'.failed = leaf.failed
  BY <1>1, <1>3 DEF Leaves
<1>5. leaf' \in Leaves
  BY <1>1, <1>3 DEF Leaves
<1>6. PipeType'
  <2>1. planes' \in [Buffers -> Pictures] /\ scratch' \in [main : Units \cup {None}, leaf : Units \cup {None}]
    BY <1>1, <1>3
  <2> QED
    BY Zenon, <1>0, <1>1, <1>5, <2>1 DEF PipeType, EncoderType, CallType, GhostType
<1>7. Quiet'
  BY Zenon, <1>0, <1>1, <1>2, <1>4 DEF Quiet, ReturnedStays
<1>8. ASSUME ~mode.leafMayFail PROVE BytesInv'
  <2>0. BytesInv /\ caller # "idle" /\ leaf.state # "idle"
    BY Zenon, <1>1, <1>2, <1>8 DEF PipeInv
  <2>1. scratch'.main = scratch.main /\ scratch'.leaf = unit
    BY <1>1, <1>3
  <2>2. StateKept /\ UNCHANGED <<caller, sent, lastRecon, lazy, seen, filter>>
        /\ UNCHANGED <<leaf.buf, leaf.ref, leaf.ctx, leaf.hme, leaf.index>>
    BY Zenon, <1>1, <1>4, <2>1 DEF StateKept
  <2>3. Progress' /\ Ahead' /\ Ready' /\ LastInv' /\ BaseInv' /\ Counts' /\ ReconOfReturned' /\ LeafUnit' = LeafUnit
        /\ planes'[leaf.ref] = planes[leaf.ref] /\ planes'["leaf"] = Picture(sources[leaf.buf])
    BY Zenon, <1>0, <1>1, <1>2, <2>0, <2>2, BesideLeaf
  <2>4. leaf.buf = held.buf /\ leaf.before = planes[leaf.ref]
    BY Zenon, <1>1, <2>0 DEF BytesInv, LeafInv
  <2>5. unit = LeafUnit
    BY Zenon, <2>4 DEF unit, LeafUnit, HeldSource
  <2>6. scratch'.leaf = LeafUnit' /\ planes'["leaf"] = Picture(HeldSource')
    BY Zenon, <1>1, <2>1, <2>3, <2>4, <2>5 DEF HeldSource
  <2>7. LeafInv'
    <3>1. "done" # "coding" /\ "done" # "idle" /\ "coding" # "idle"
      OBVIOUS
    <3>2. (Picture(HeldSource))' = Picture(HeldSource')
      BY Zenon DEF Picture
    <3> QED
      BY ZenonT(60), <1>1, <1>4, <2>0, <2>3, <2>6, <3>1, <3>2 DEF BytesInv, LeafInv
  <2> QED
    BY Zenon, <2>3, <2>7 DEF BytesInv
<1> QED
  BY Zenon, <1>0, <1>1, <1>6, <1>7, <1>8 DEF PipeInv

LEMMA StepLeafFails == ASSUME PipeInv, LeafFails PROVE PipeInv'
<1>0. PipeType /\ Quiet /\ emitted \in Seq(Units \cup {None})
  BY Zenon DEF PipeInv
<1>1. /\ mode.leafMayFail /\ leaf.state = "coding" /\ leaf' = [leaf EXCEPT !.state = "done", !.failed = TRUE]
      /\ UNCHANGED <<enc, planes, sources, srcIdx, held, heldDone, scratch, filter, lazy, lastRecon, caller, call>>
      /\ UNCHANGED <<mode, sent, emitted, returned, serial, expected, seen>>
  BY Zenon DEF LeafFails
<1>2. call.kind = "overlap" /\ caller \in {"code", "coding", "wait"}
  BY Zenon, <1>0, <1>1 DEF Quiet
<1>3. leaf' \in Leaves
  <2> DEFINE x == [leaf EXCEPT !.state = "done"]
  <2>1. x \in Leaves
    BY <1>0 DEF Leaves, PipeType, CallType
  <2>2. leaf' = [x EXCEPT !.failed = TRUE]
    BY Zenon, <1>1
  <2> HIDE DEF x
  <2> QED
    BY <2>1, <2>2 DEF Leaves
<1>4. PipeType'
  BY Zenon, <1>0, <1>1, <1>3 DEF PipeType, EncoderType, CallType, GhostType
<1>5. Quiet'
  BY Zenon, <1>0, <1>1, <1>2 DEF Quiet, ReturnedStays
<1> QED
  BY Zenon, <1>0, <1>1, <1>4, <1>5 DEF PipeInv

LEMMA PictureIs ==
  ASSUME NEW p \in Pictures
  PROVE  p.src \in Nat /\ (p.state = "filtered" => p = Picture(p.src))
BY DEF Pictures, Picture

\* A filter pass ends: pictures are finished, none is replaced.
Finished == \A b \in Buffers : planes'[b].src = planes[b].src /\ (planes[b].state = "filtered" => planes'[b] = planes[b])

LEMMA PassEnds ==
  ASSUME PipeType, NEW b \in Buffers, planes' = [planes EXCEPT ![b] = Picture(planes[b].src)]
  PROVE  planes' \in [Buffers -> Pictures] /\ Finished /\ planes'[b].state = "filtered"
<1>1. planes \in [Buffers -> Pictures]
  BY Zenon, TypeFacts
<1>2. planes[b].src \in Nat /\ (planes[b].state = "filtered" => planes[b] = Picture(planes[b].src))
  BY <1>1, PictureIs
<1>3. Picture(planes[b].src) \in Pictures /\ Picture(planes[b].src).src = planes[b].src
      /\ Picture(planes[b].src).state = "filtered"
  BY <1>2, PictureTypes
<1>4. planes'[b] = Picture(planes[b].src) /\ \A c \in Buffers \ {b} : planes'[c] = planes[c]
  BY <1>1
<1> QED
  BY <1>1, <1>2, <1>3, <1>4 DEF Finished

LEMMA BesideFilter ==
  ASSUME PipeType, Quiet, BytesInv, StateKept, Finished, UNCHANGED <<caller, sent, leaf>>, scratch' = scratch,
         caller \notin {"code", "coding"}, filter'.state # "running"
  PROVE  /\ Ahead' /\ LeafInv' /\ BaseInv' /\ Counts' /\ Progress' /\ planes'[enc.recon].src = planes[enc.recon].src
         /\ (\A b \in Buffers : Filtered(b) => Filtered(b)') => Ready'
<1>0. /\ mode' = mode /\ enc' = enc /\ sources' = sources /\ held' = held /\ heldDone' = heldDone /\ call' = call
      /\ emitted' = emitted /\ serial' = serial /\ expected' = expected /\ caller' = caller /\ sent' = sent /\ leaf' = leaf
  BY Zenon DEF StateKept
<1>1. Kept' = Kept /\ Written' = {} /\ Written = {} /\ HeldSource' = HeldSource
  BY Zenon, <1>0 DEF Kept, Written, HeldSource
<1>2. Kept \subseteq Buffers /\ Base \subseteq Buffers /\ enc.recon \in Buffers /\ "leaf" \in Buffers
  BY TypeFacts DEF Kept, Base, Buffers
<1>3. PlanesKept
  BY Zenon, <1>1, <1>2 DEF PlanesKept, Finished
<1>4. leaf.state # "idle" => LeafUnit' = LeafUnit /\ planes'[leaf.ref] = planes[leaf.ref]
  <2> SUFFICES ASSUME leaf.state # "idle" PROVE LeafUnit' = LeafUnit /\ planes'[leaf.ref] = planes[leaf.ref]
    BY Zenon
  <2>1. planes[leaf.ref].state = "filtered" /\ leaf.ref \in Buffers
    BY Zenon, <1>2 DEF BytesInv, LeafInv
  <2>2. planes'[leaf.ref] = planes[leaf.ref]
    BY Zenon, <2>1 DEF Finished
  <2> QED
    BY Zenon, <1>0, <1>1, <2>2 DEF LeafUnit, InterUnit
<1>5. caller = "wait" => leaf.state # "idle"
  BY Zenon DEF BytesInv, LeafInv, Quiet
<1>6. Ahead'
  BY Zenon, <1>1, <1>3, <1>4, <1>5, AheadKept DEF BytesInv
<1>7. planes'[enc.recon].src = planes[enc.recon].src
  BY Zenon, <1>2 DEF Finished
<1>8. BaseInv'
  <2>1. CodesKey' = CodesKey
    BY Zenon, <1>0 DEF CodesKey
  <2> QED
    BY Zenon, <1>0, <1>7, <2>1 DEF BytesInv, BaseInv
<1>9. Counts' /\ Progress'
  BY Zenon, <1>0 DEF BytesInv, Counts, Progress, TemporalID
<1>10. LeafInv'
  <2>1. leaf.state = "done" => planes'["leaf"] = planes["leaf"]
    <3> SUFFICES ASSUME leaf.state = "done" PROVE planes'["leaf"] = planes["leaf"]
      BY Zenon
    <3>1. planes["leaf"] = Picture(HeldSource)
      BY Zenon DEF BytesInv, LeafInv
    <3>2. planes["leaf"].state = "filtered"
      BY <3>1 DEF Picture
    <3> QED
      BY Zenon, <1>2, <3>2 DEF Finished
  <2>2. (Picture(HeldSource))' = Picture(HeldSource)
    BY Zenon, <1>1 DEF Picture
  <2>3. "done" # "idle" /\ "coding" # "idle"
    OBVIOUS
  <2> QED
    BY Zenon, <1>0, <1>1, <1>4, <2>1, <2>2, <2>3 DEF BytesInv, LeafInv
<1>11. ASSUME \A b \in Buffers : Filtered(b) => Filtered(b)' PROVE Ready'
  <2>1. ({enc.recon} \cup (Kept \ Base)) \ Written \subseteq Buffers
    BY Zenon, <1>2
  <2>2. enc'.recon \in {"key", IF enc'.idx = 0 THEN "base1" ELSE "base0"}
    BY Zenon, <1>0 DEF BytesInv, Ready
  <2>3. \A b \in ({enc.recon} \cup (Kept \ Base)) \ Written : Filtered(b)'
    BY Zenon, <1>11, <2>1 DEF BytesInv, Ready
  <2> QED
    BY Zenon, <1>0, <1>1, <2>2, <2>3 DEF Ready
<1> QED
  BY Zenon, <1>6, <1>7, <1>8, <1>9, <1>10, <1>11

LEMMA StepFilterEnd == ASSUME PipeInv, FilterEnd PROVE PipeInv'
<1>0. PipeType /\ Quiet /\ emitted \in Seq(Units \cup {None})
  BY Zenon DEF PipeInv
<1>1. /\ filter.state = "running" /\ filter' = [filter EXCEPT !.state = "done"]
      /\ planes' = [planes EXCEPT ![filter.out] = Picture(planes[filter.out].src)]
      /\ UNCHANGED <<enc, sources, srcIdx, held, heldDone, scratch, lazy, lastRecon, leaf, caller, call>>
      /\ UNCHANGED <<mode, sent, emitted, returned, serial, expected, seen>>
  BY Zenon DEF FilterEnd
<1>2. filter.out \in Buffers
  BY Zenon, <1>0, TypeFacts
<1>3. planes' \in [Buffers -> Pictures] /\ Finished /\ planes'[filter.out].state = "filtered"
  BY Zenon, <1>0, <1>1, <1>2, PassEnds
<1>4. filter' \in [state : {"off", "running", "done"}, out : Buffers] /\ filter'.state = "done" /\ filter'.out = filter.out
  BY <1>0, <1>1 DEF PipeType, CallType
<1>5. PipeType'
  BY Zenon, <1>0, <1>1, <1>3, <1>4 DEF PipeType, EncoderType, CallType, GhostType
<1>6. Quiet'
  BY Zenon, <1>0, <1>1 DEF Quiet, ReturnedStays
<1>7. ASSUME ~mode.leafMayFail PROVE BytesInv'
  <2>0. BytesInv
    BY Zenon, <1>7 DEF PipeInv
  <2>1. StateKept
    BY Zenon, <1>1 DEF StateKept
  <2>2. caller \notin {"code", "coding"} /\ filter'.state # "running"
    <3>1. "done" # "running"
      OBVIOUS
    <3> QED
      BY Zenon, <1>1, <1>4, <2>0, <3>1 DEF BytesInv, Progress
  <2>3. ASSUME NEW b \in Buffers, Filtered(b) PROVE Filtered(b)'
    <3>1. planes'[b].state = "filtered"
      BY Zenon, <1>3, <2>3 DEF Filtered, Finished
    <3> QED
      BY Zenon, <3>1 DEF Filtered
  <2>4. Ahead' /\ LeafInv' /\ BaseInv' /\ Counts' /\ Progress' /\ planes'[enc.recon].src = planes[enc.recon].src /\ Ready'
    BY Zenon, <1>0, <1>1, <1>3, <2>0, <2>1, <2>2, <2>3, BesideFilter
  <2>5. LastInv'
    BY Zenon, <1>1, <1>3, <2>0, <2>3, <2>4 DEF BytesInv, LastInv, Finished
  <2>6. ReconOfReturned'
    BY Zenon, <1>1, <2>0 DEF BytesInv, ReconOfReturned, Picture
  <2> QED
    BY Zenon, <2>4, <2>5, <2>6 DEF BytesInv
<1> QED
  BY Zenon, <1>0, <1>1, <1>5, <1>6, <1>7 DEF PipeInv

LEMMA StepRecon == ASSUME PipeInv, Recon PROVE PipeInv'
<1>0. PipeType /\ Quiet /\ emitted \in Seq(Units \cup {None})
  BY Zenon DEF PipeInv
<1>1. /\ caller = "idle" /\ lastRecon # None /\ emitted # <<>> /\ filter.state # "running" /\ filter' = [filter EXCEPT !.state = "off"]
      /\ planes' = IF lazy # None /\ lazy = lastRecon THEN [planes EXCEPT ![lazy] = Picture(planes[lazy].src)] ELSE planes
      /\ lazy' = None /\ seen' = planes'[lastRecon]
      /\ UNCHANGED <<enc, sources, srcIdx, held, heldDone, scratch, lastRecon, leaf, caller, call>>
      /\ UNCHANGED <<mode, sent, emitted, returned, serial, expected>>
  BY Zenon DEF Recon, JoinFilter
<1>2. lastRecon \in Buffers /\ lazy \in Buffers \cup {None} /\ None \notin Buffers /\ planes \in [Buffers -> Pictures]
  BY Zenon, <1>0, <1>1, PipelineAssumption DEF PipeType, EncoderType, CallType
<1>3. planes' \in [Buffers -> Pictures] /\ Finished /\ (lazy = lastRecon => planes'[lastRecon].state = "filtered")
  <2>1. CASE lazy # None /\ lazy = lastRecon
    BY Zenon, <1>0, <1>1, <1>2, <2>1, PassEnds
  <2>2. CASE ~(lazy # None /\ lazy = lastRecon)
    BY Zenon, <1>1, <1>2, <2>2 DEF Finished
  <2> QED
    BY Zenon, <2>1, <2>2
<1>4. filter' \in [state : {"off", "running", "done"}, out : Buffers] /\ filter'.state = "off" /\ filter'.out = filter.out
  BY <1>0, <1>1 DEF PipeType, CallType
<1>5. PipeType'
  BY Zenon, <1>0, <1>1, <1>3, <1>4 DEF PipeType, EncoderType, CallType, GhostType
<1>6. Quiet'
  BY Zenon, <1>0, <1>1 DEF Quiet, ReturnedStays
<1>7. ASSUME ~mode.leafMayFail PROVE BytesInv'
  <2>0. BytesInv
    BY Zenon, <1>7 DEF PipeInv
  <2>1. StateKept
    BY Zenon, <1>1 DEF StateKept
  <2>2. caller \notin {"code", "coding"} /\ filter'.state # "running"
    BY <1>1, <1>4
  <2>3. ASSUME NEW b \in Buffers, Filtered(b) PROVE planes'[b].state = "filtered"
    BY Zenon, <1>1, <1>3, <2>3 DEF Filtered, Finished
  <2>4. \A b \in Buffers : Filtered(b) => Filtered(b)'
    BY Zenon, <2>3 DEF Filtered
  <2>5. Ahead' /\ LeafInv' /\ BaseInv' /\ Counts' /\ Progress' /\ planes'[enc.recon].src = planes[enc.recon].src /\ Ready'
    BY Zenon, <1>0, <1>1, <1>3, <2>0, <2>1, <2>2, <2>4, BesideFilter
  <2>6. planes'[lastRecon].src = emitted[Len(emitted)].src /\ planes'[lastRecon].state = "filtered"
    <3>1. planes[lastRecon].src = emitted[Len(emitted)].src /\ (Filtered(lastRecon) \/ lazy = lastRecon)
      BY Zenon, <1>1, <2>0 DEF BytesInv, LastInv
    <3> QED
      BY Zenon, <1>2, <1>3, <2>3, <3>1 DEF Finished
  <2>7. LastInv'
    <3>1. Filtered(lastRecon)'
      BY Zenon, <1>1, <2>6 DEF Filtered
    <3> QED
      BY Zenon, <1>1, <1>2, <2>0, <2>5, <2>6, <3>1 DEF BytesInv, LastInv
  <2>8. seen' = Picture(emitted[Len(emitted)].src)
    <3>1. planes'[lastRecon] \in Pictures
      BY Zenon, <1>2, <1>3
    <3>2. planes'[lastRecon] = Picture(planes'[lastRecon].src)
      BY <2>6, <3>1, PictureIs
    <3> QED
      BY Zenon, <1>1, <2>6, <3>2
  <2>9. ReconOfReturned'
    BY Zenon, <1>1, <2>8 DEF ReconOfReturned, Picture
  <2> QED
    BY Zenon, <2>5, <2>7, <2>9 DEF BytesInv
<1> QED
  BY Zenon, <1>0, <1>1, <1>5, <1>6, <1>7 DEF PipeInv

LEMMA StepJoin == ASSUME PipeInv, Join PROVE PipeInv'
<1>0. PipeType /\ Quiet /\ emitted \in Seq(Units \cup {None})
  BY Zenon DEF PipeInv
<1>1. /\ caller = "join" /\ filter.state # "running" /\ filter' = [filter EXCEPT !.state = "off"] /\ caller' = "code"
      /\ leaf' = IF call.kind # "overlap" THEN leaf
                 ELSE [Idle EXCEPT !.state = "woken", !.buf = held.buf, !.ref = enc.recon, !.ctx = enc.ctx,
                                   !.hme = enc.hme[0], !.index = enc.index]
      /\ UNCHANGED <<enc, planes, sources, srcIdx, held, heldDone, scratch, lazy, lastRecon, call>>
      /\ UNCHANGED <<mode, sent, emitted, returned, serial, expected, seen>>
  BY Zenon DEF Join, JoinFilter
<1>2. filter' \in [state : {"off", "running", "done"}, out : Buffers] /\ filter'.state = "off" /\ filter'.out = filter.out
  BY <1>0, <1>1 DEF PipeType, CallType
<1>3. call.kind = "overlap" =>
        /\ leaf'.state = "woken" /\ leaf'.buf = held.buf /\ leaf'.ref = enc.recon /\ leaf'.before = Picture(0)
        /\ leaf'.ctx = enc.ctx /\ leaf'.hme = enc.hme[0] /\ leaf'.index = enc.index /\ leaf'.failed = FALSE
  BY <1>1 DEF Idle
<1>4. call.kind = "overlap" => leaf' \in Leaves
  <2> SUFFICES ASSUME call.kind = "overlap" PROVE leaf' \in Leaves
    BY Zenon
  <2>1. leaf' = [Idle EXCEPT !.state = "woken", !.buf = held.buf, !.ref = enc.recon, !.ctx = enc.ctx,
                             !.hme = enc.hme[0], !.index = enc.index]
    BY Zenon, <1>1
  <2>2. /\ DOMAIN leaf' = {"state", "buf", "ref", "before", "ctx", "hme", "index", "failed"}
        /\ leaf' = [f \in DOMAIN leaf' |-> leaf'[f]]
    BY <2>1 DEF Idle
  <2>3. /\ held.buf \in 0 .. 1 /\ enc.recon \in Buffers /\ enc.ctx \in Nat /\ enc.hme[0] \in Nat /\ enc.index \in Nat
        /\ Picture(0) \in Pictures
    BY <1>0, TypeFacts, PictureTypes
  <2>4. leaf' = [state |-> "woken", buf |-> held.buf, ref |-> enc.recon, before |-> Picture(0), ctx |-> enc.ctx,
                 hme |-> enc.hme[0], index |-> enc.index, failed |-> FALSE]
    BY <1>3, <2>2
  <2> QED
    BY <2>3, <2>4 DEF Leaves
<1>5. PipeType'
  <2>1. leaf' \in Leaves
    BY Zenon, <1>0, <1>1, <1>4 DEF PipeType, CallType
  <2>2. caller' \in {"idle", "join", "code", "coding", "wait"}
    BY Zenon, <1>1
  <2> QED
    BY Zenon, <1>0, <1>1, <1>2, <2>1, <2>2 DEF PipeType, EncoderType, CallType, GhostType
<1>6. leaf.state = "idle"
  <2>1. "join" \notin {"code", "coding", "wait"}
    OBVIOUS
  <2> QED
    BY Zenon, <1>0, <1>1, <2>1 DEF Quiet
<1>7. Quiet'
  <2>1. "code" # "wait" /\ "code" # "idle" /\ "join" # "idle"
    OBVIOUS
  <2> QED
    BY Zenon, <1>0, <1>1, <1>6, <2>1 DEF Quiet, ReturnedStays
<1>8. ASSUME ~mode.leafMayFail PROVE BytesInv'
  <2>0. BytesInv
    BY Zenon, <1>8 DEF PipeInv
  <2>1. "code" # "wait" /\ "join" # "wait" /\ "code" # "coding" /\ "join" # "coding" /\ "code" # "idle" /\ "off" # "running"
    OBVIOUS
  <2>2. StateKept
    BY Zenon, <1>1, <2>1 DEF StateKept
  <2>3. Written' = {} /\ Written = {} /\ Kept' = Kept
    BY Zenon, <1>1, <2>1 DEF Written, Kept
  <2>4. PlanesKept
    BY Zenon, <1>1, <2>3 DEF PlanesKept
  <2>5. caller = "wait" => LeafUnit' = LeafUnit /\ Written' = {}
    BY Zenon, <1>1, <2>1
  <2>6. Ahead'
    BY Zenon, <2>0, <2>2, <2>4, <2>5, AheadKept DEF BytesInv
  <2>7. Progress'
    BY Zenon, <1>1, <1>2, <2>0, <2>1 DEF BytesInv, Progress, TemporalID
  <2>8. \A b : Filtered(b) => planes[b].state = "filtered"
    BY Zenon, <1>1 DEF Filtered
  <2>9. Ready'
    BY Zenon, <1>1, <2>0, <2>3, <2>8 DEF BytesInv, Ready, Filtered
  <2>10. enc.recon \in Base /\ planes[enc.recon].state = "filtered"
    BY Zenon, <1>0, <2>0, <2>3, <2>8, RefHere DEF BytesInv, Ready
  <2>11. LeafInv'
    <3>1. CASE call.kind = "overlap"
      <4>1. "woken" # "coding" /\ "woken" # "done" /\ "woken" # "idle"
        OBVIOUS
      <4> QED
        BY Zenon, <1>1, <1>2, <1>3, <2>1, <2>10, <3>1, <4>1 DEF LeafInv
    <3>2. CASE call.kind # "overlap"
      <4>1. "idle" # "coding" /\ "idle" # "done"
        OBVIOUS
      <4>2. leaf' = leaf /\ call' = call
        BY Zenon, <1>1, <3>2
      <4> QED
        BY Zenon, <1>6, <2>0, <3>2, <4>1, <4>2 DEF BytesInv, LeafInv
    <3> QED
      BY Zenon, <3>1, <3>2
  <2>12. LastInv'
    BY Zenon, <1>1, <2>0, <2>1 DEF BytesInv, LastInv
  <2>13. BaseInv'
    BY Zenon, <1>1, <2>0, <2>1 DEF BytesInv, BaseInv
  <2>14. Counts' /\ ReconOfReturned'
    BY Zenon, <1>1, <2>0 DEF BytesInv, Counts, ReconOfReturned, Picture
  <2> QED
    BY Zenon, <2>6, <2>7, <2>9, <2>11, <2>12, <2>13, <2>14 DEF BytesInv
<1> QED
  BY Zenon, <1>0, <1>1, <1>5, <1>7, <1>8 DEF PipeInv

LEMMA StepCode == ASSUME PipeInv, Code PROVE PipeInv'
<1>0. PipeType /\ Quiet /\ emitted \in Seq(Units \cup {None})
  BY Zenon DEF PipeInv
<1>1. /\ caller = "code" /\ caller' = "coding" /\ planes' = [planes EXCEPT ![Out] = Half(Source)] /\ lazy' = None
      /\ UNCHANGED <<enc, sources, srcIdx, held, heldDone, scratch, filter, lastRecon, leaf, call>>
      /\ UNCHANGED <<mode, sent, emitted, returned, serial, expected, seen>>
  BY Zenon DEF Code
<1>2. Out \in Buffers /\ Out # "leaf" /\ Source \in Nat
  <2>1. HeldSource \in Nat /\ call.src \in Nat
    BY Zenon, <1>0, TypeFacts
  <2> QED
    BY Zenon, <1>0, <2>1, OutType DEF Source, HeldSource
<1>3. planes \in [Buffers -> Pictures] /\ Half(Source) \in Pictures
  BY <1>0, <1>2, TypeFacts, PictureTypes
<1>4. planes' \in [Buffers -> Pictures] /\ \A b \in Buffers \ {Out} : planes'[b] = planes[b]
  BY <1>1, <1>2, <1>3
<1>5. PipeType'
  <2>1. caller' \in {"idle", "join", "code", "coding", "wait"} /\ lazy' \in Buffers \cup {None}
    BY Zenon, <1>1
  <2> QED
    BY Zenon, <1>0, <1>1, <1>4, <2>1 DEF PipeType, EncoderType, CallType, GhostType
<1>6. Quiet'
  <2>1. "coding" # "wait" /\ "coding" # "idle" /\ "code" # "idle"
    OBVIOUS
  <2> QED
    BY Zenon, <1>0, <1>1, <2>1 DEF Quiet, ReturnedStays
<1>7. ASSUME ~mode.leafMayFail PROVE BytesInv'
  <2>0. BytesInv
    BY Zenon, <1>7 DEF PipeInv
  <2>1. "code" # "wait" /\ "code" # "coding" /\ "coding" # "wait" /\ "coding" # "idle" /\ "code" # "idle"
    OBVIOUS
  <2>2. StateKept
    BY Zenon, <1>1, <2>1 DEF StateKept
  <2>3. Written' = {Out} /\ Written = {} /\ Kept' = Kept /\ CodesKey' = CodesKey /\ HeldSource' = HeldSource
    BY Zenon, <1>1, <2>1 DEF Written, Kept, Out, CodesKey, OutBuffer, HeldSource
  <2>4. Kept \subseteq Buffers /\ enc.recon \in Buffers /\ Base \subseteq Buffers
    BY <1>0, TypeFacts DEF Kept, Base, Buffers
  <2>5. PlanesKept
    BY Zenon, <1>4, <2>3, <2>4 DEF PlanesKept
  <2>6. caller = "wait" => LeafUnit' = LeafUnit /\ Written' = {}
    BY Zenon, <1>1, <2>1
  <2>7. Ahead'
    BY Zenon, <2>0, <2>2, <2>5, <2>6, AheadKept DEF BytesInv
  <2>8. Progress'
    BY Zenon, <1>1, <2>0, <2>1 DEF BytesInv, Progress, TemporalID
  <2>9. Ready'
    <3>1. enc'.recon \in {"key", IF enc'.idx = 0 THEN "base1" ELSE "base0"}
      BY Zenon, <1>1, <2>0 DEF BytesInv, Ready
    <3>2. ASSUME NEW b \in ({enc.recon} \cup (Kept \ Base)) \ {Out} PROVE Filtered(b)'
      <4>1. planes'[b] = planes[b] /\ Filtered(b)
        BY Zenon, <1>4, <2>0, <2>3, <2>4 DEF BytesInv, Ready
      <4> QED
        BY Zenon, <1>1, <4>1 DEF Filtered
    <3> QED
      BY Zenon, <1>1, <2>3, <3>1, <3>2 DEF Ready
  <2>10. enc.recon \in Base /\ (enc.recon # Out \/ CodesKey) /\ "leaf" \in Buffers
    BY Zenon, <1>0, <2>0, RefHere DEF BytesInv, Buffers
  <2>11. call.kind = "overlap" => ~CodesKey
    BY Zenon DEF CodesKey
  <2>12. leaf.state # "idle" => planes'[leaf.ref] = planes[leaf.ref]
    <3> SUFFICES ASSUME leaf.state # "idle" PROVE planes'[leaf.ref] = planes[leaf.ref]
      BY Zenon
    <3>1. leaf.ref = enc.recon /\ call.kind = "overlap"
      BY Zenon, <1>0, <1>1, <2>0, <2>1 DEF BytesInv, LeafInv, Quiet
    <3> QED
      BY Zenon, <1>4, <2>4, <2>10, <2>11, <3>1
  <2>13. LeafInv'
    <3>1. planes'["leaf"] = planes["leaf"]
      BY Zenon, <1>2, <1>4, <2>10
    <3>2. leaf.state # "idle" => LeafUnit' = LeafUnit
      BY Zenon, <1>1, <2>3, <2>12 DEF LeafUnit, InterUnit
    <3>3. (Picture(HeldSource))' = Picture(HeldSource)
      BY Zenon, <2>3 DEF Picture
    <3>4. "done" # "idle"
      OBVIOUS
    <3>5. leaf.state = "done" => scratch'.leaf = LeafUnit' /\ planes'["leaf"] = Picture(HeldSource)'
      BY Zenon, <1>1, <2>0, <3>1, <3>2, <3>3, <3>4 DEF BytesInv, LeafInv
    <3>6. "coding" # "idle" /\ leaf' = leaf /\ enc' = enc /\ held' = held /\ filter' = filter /\ call' = call
      BY Zenon, <1>1, <2>1
    <3> QED
      BY Zenon, <1>1, <2>0, <2>1, <2>12, <3>5, <3>6 DEF BytesInv, LeafInv
  <2>14. LastInv'
    <3>1. ~heldDone.on
      BY Zenon, <1>0, <1>1, <2>1 DEF Quiet
    <3> QED
      BY Zenon, <1>1, <2>1, <3>1 DEF LastInv
  <2>15. BaseInv'
    <3>1. CASE CodesKey
      BY Zenon, <1>1, <2>3, <3>1 DEF BaseInv
    <3>2. CASE ~CodesKey
      <4>1. planes'[enc.recon] = planes[enc.recon]
        BY Zenon, <1>4, <2>4, <2>10, <3>2
      <4>2. ~heldDone.on /\ caller # "wait" /\ caller # "coding"
        BY Zenon, <1>0, <1>1, <2>1 DEF Quiet
      <4> QED
        BY Zenon, <1>1, <2>0, <4>1, <4>2 DEF BytesInv, BaseInv
    <3> QED
      BY Zenon, <3>1, <3>2
  <2>16. Counts' /\ ReconOfReturned'
    BY Zenon, <1>1, <2>0 DEF BytesInv, Counts, ReconOfReturned, Picture
  <2> QED
    BY Zenon, <2>7, <2>8, <2>9, <2>13, <2>14, <2>15, <2>16 DEF BytesInv
<1> QED
  BY Zenon, <1>0, <1>1, <1>5, <1>6, <1>7 DEF PipeInv

LEMMA AppendFacts ==
  ASSUME NEW S, NEW q \in Seq(S), NEW x \in S
  PROVE  /\ Append(q, x) \in Seq(S) /\ Len(Append(q, x)) = Len(q) + 1 /\ Append(q, x) # <<>>
         /\ Append(q, x)[Len(Append(q, x))] = x /\ Len(Append(q, x)) \in DOMAIN Append(q, x)
         /\ \A k \in DOMAIN q : k \in DOMAIN Append(q, x) /\ Append(q, x)[k] = q[k]
OBVIOUS

\* The base held back is returned.
LEMMA Emits ==
  ASSUME PipeInv, EmitDone, caller = "idle", UNCHANGED <<mode, enc, planes, filter, lazy>>
  PROVE  /\ emitted' = Append(emitted, scratch.main) /\ emitted' \in Seq(Units \cup {None}) /\ emitted' # <<>>
         /\ heldDone' \in [on : BOOLEAN, recon : Buffers] /\ ~heldDone'.on /\ lastRecon' \in Buffers /\ ~held.on
         /\ scratch' = scratch /\ scratch'[returned'] = emitted'[Len(emitted')]
         /\ ~mode.leafMayFail =>
              /\ expected = emitted' /\ Agrees(serial)
              /\ planes'[lastRecon'].src = emitted'[Len(emitted')].src /\ Filtered(lastRecon)'
              /\ \E k \in DOMAIN emitted' : emitted'[k].src = planes[enc.recon].src
<1>0. PipeType /\ Quiet /\ emitted \in Seq(Units \cup {None})
  BY Zenon DEF PipeInv
<1>1. /\ heldDone.on /\ heldDone' = [heldDone EXCEPT !.on = FALSE] /\ lastRecon' = heldDone.recon
      /\ scratch' = scratch /\ emitted' = Append(emitted, scratch.main) /\ returned' = "main"
  BY Zenon DEF EmitDone, Return
<1>2. heldDone \in [on : BOOLEAN, recon : Buffers] /\ scratch.main \in Units \cup {None}
  BY <1>0 DEF PipeType, EncoderType
<1>3. heldDone' \in [on : BOOLEAN, recon : Buffers] /\ ~heldDone'.on /\ lastRecon' \in Buffers
  BY <1>1, <1>2
<1>4. /\ emitted' \in Seq(Units \cup {None}) /\ emitted' # <<>> /\ emitted'[Len(emitted')] = scratch.main
      /\ Len(emitted') \in DOMAIN emitted'
  BY <1>0, <1>1, <1>2, AppendFacts
<1>5. ~held.on /\ call.kind = "none"
  BY Zenon, <1>0, <1>1 DEF Quiet
<1>6. ASSUME ~mode.leafMayFail
      PROVE  /\ expected = emitted' /\ Agrees(serial)
             /\ planes'[lastRecon'].src = emitted'[Len(emitted')].src /\ Filtered(lastRecon)'
             /\ \E k \in DOMAIN emitted' : emitted'[k].src = planes[enc.recon].src
  <2>0. BytesInv
    BY Zenon, <1>6 DEF PipeInv
  <2>1. expected = emitted' /\ Agrees(serial)
    BY Zenon, <1>1, <1>5, <2>0 DEF BytesInv, Ahead
  <2>2. lastRecon' = enc.recon /\ scratch.main.src = planes[enc.recon].src
    BY Zenon, <1>1, <2>0 DEF BytesInv, LastInv
  <2>3. Written = {}
    <3>1. "idle" # "coding"
      OBVIOUS
    <3> QED
      BY Zenon, <3>1 DEF Written
  <2>4. Filtered(enc.recon)
    BY Zenon, <2>0, <2>3 DEF BytesInv, Ready
  <2> QED
    BY Zenon, <1>4, <2>1, <2>2, <2>4 DEF Filtered
<1> QED
  BY Zenon, <1>1, <1>3, <1>4, <1>5, <1>6

LEMMA Holds ==
  ASSUME PipeType, NEW src \in Nat, NEW key \in BOOLEAN, NEW e \in Encs, Hold(src, key, e)
  PROVE  /\ sources' \in [0 .. 1 -> Nat] /\ srcIdx' \in 0 .. 1 /\ held' \in Helds
         /\ held'.on /\ held'.key = key /\ held'.tid = TemporalID(e) /\ HeldSource' = src
<1>1. sources \in [0 .. 1 -> Nat] /\ srcIdx \in 0 .. 1 /\ mode \in Modes
  BY Zenon DEF PipeType, EncoderType
<1>2. /\ sources' = [sources EXCEPT ![srcIdx] = src] /\ srcIdx' = 1 - srcIdx
      /\ held' = [on |-> TRUE, key |-> key, tid |-> TemporalID(e), buf |-> srcIdx]
  BY Zenon DEF Hold
<1>3. TemporalID(e) \in 0 .. 2
  BY <1>1, Temporal
<1>4. held' \in Helds
  BY <1>1, <1>2, <1>3 DEF Helds
<1>5. sources'[held'.buf] = src /\ held'.on /\ held'.key = key /\ held'.tid = TemporalID(e)
  BY <1>1, <1>2
<1> QED
  BY <1>1, <1>2, <1>4, <1>5 DEF HeldSource

\* Between calls, and at the start of one, no worker but the filter's runs.
LEMMA CallerIdle ==
  ASSUME PipeInv, ~mode.leafMayFail, caller = "idle", caller' \in {"idle", "join"},
         UNCHANGED <<mode, enc, planes, filter, leaf>>
  PROVE  /\ leaf.state = "idle" /\ LeafInv' /\ Ready' /\ Written = {} /\ Written' = {}
         /\ \A s : Agrees(s) => Agrees(s)'
<1>0. PipeType /\ Quiet /\ BytesInv
  BY Zenon DEF PipeInv
<1>1. /\ "idle" \notin {"code", "coding", "wait"} /\ "join" \notin {"code", "coding", "wait"} /\ "idle" # "coding" /\ "join" # "coding"
      /\ "idle" # "done"
  OBVIOUS
<1>2. leaf.state = "idle" /\ caller' \notin {"code", "coding", "wait"} /\ caller' # "coding"
  BY Zenon, <1>0, <1>1 DEF Quiet
<1>3. Written = {} /\ Written' = {} /\ Kept' = Kept
  BY Zenon, <1>1, <1>2 DEF Written, Kept
<1>4. LeafInv'
  BY Zenon, <1>0, <1>1, <1>2 DEF BytesInv, LeafInv
<1>5. Ready'
  BY Zenon, <1>0, <1>3 DEF BytesInv, Ready, Filtered
<1>6. \A s : Agrees(s) => Agrees(s)'
  BY Zenon, <1>3 DEF Agrees
<1> QED
  BY Zenon, <1>2, <1>3, <1>4, <1>5, <1>6

LEMMA StepEncodeThroughput == ASSUME PipeInv, NEW key \in BOOLEAN, EncodeThroughput(key) PROVE PipeInv'
<1>0. PipeType /\ Quiet /\ emitted \in Seq(Units \cup {None}) /\ serial \in Serials /\ expected \in Seq(Units) /\ sent \in Nat
  BY Zenon DEF PipeInv, PipeType, GhostType
<1> DEFINE n == sent + 1
<1>1. /\ caller = "idle" /\ sent' = n /\ seen' = None /\ mode' = mode
      /\ expected' = Append(expected, SerialUnit(serial, n, key)) /\ serial' = SerialStep(serial, n, key)
  BY Zenon DEF EncodeThroughput
<1>2. n \in Nat /\ mode \in Modes /\ enc \in Encs
  BY <1>0 DEF PipeType, EncoderType
<1>3. SerialStep(serial, n, key) \in Serials /\ SerialUnit(serial, n, key) \in Units
  BY Zenon, <1>0, <1>2, SerialTypes
<1>4. expected' \in Seq(Units) /\ Len(expected') = Len(expected) + 1 /\ serial' \in Serials /\ sent' \in Nat
  BY <1>0, <1>1, <1>2, <1>3, AppendFacts
<1>5. ~mode.leafMayFail => Counts'
  <2> SUFFICES ASSUME ~mode.leafMayFail PROVE Counts'
    BY Zenon
  <2>1. Len(expected) = sent
    BY Zenon DEF PipeInv, BytesInv, Counts
  <2> QED
    BY <1>1, <1>4, <2>1 DEF Counts
<1>6. leaf.state = "idle" /\ call.kind = "none"
  <2>1. "idle" \notin {"code", "coding", "wait"}
    OBVIOUS
  <2> QED
    BY Zenon, <1>0, <1>1, <2>1 DEF Quiet
<1>7. "idle" # "wait" /\ "idle" # "join" /\ "idle" # "coding" /\ "join" # "wait" /\ "join" # "coding"
      /\ "idle" \notin {"code", "coding"} /\ "join" \notin {"code", "coding"} /\ "none" # "drain" /\ "none" # "held" /\ "none" # "overlap"
      /\ "held" # "drain" /\ "overlap" # "drain" /\ "held" # "overlap"
  OBVIOUS
<1>8. PICK m \in Nat : m = n
  BY Zenon, <1>2
<1>9. PICK s \in Serials : s = serial
  BY Zenon, <1>0
<1> HIDE DEF n
<1>10. SerialStep(s, m, key)' = serial' /\ SerialUnit(s, m, key)' = SerialUnit(serial, n, key)
  BY Zenon, <1>1, <1>8, <1>9, SameEncoder
<1>11. CASE EmitDone /\ Hold(n, key, enc) /\ UNCHANGED <<enc, planes, filter, lazy, leaf, caller, call>>
  <2>1. UNCHANGED <<mode, enc, planes, filter, lazy, leaf, caller, call>>
    BY Zenon, <1>1, <1>11
  <2>2. /\ emitted' = Append(emitted, scratch.main) /\ emitted' \in Seq(Units \cup {None}) /\ emitted' # <<>>
        /\ heldDone' \in [on : BOOLEAN, recon : Buffers] /\ ~heldDone'.on /\ lastRecon' \in Buffers /\ ~held.on
        /\ scratch' = scratch /\ scratch'[returned'] = emitted'[Len(emitted')]
        /\ ~mode.leafMayFail =>
             /\ expected = emitted' /\ Agrees(serial)
             /\ planes'[lastRecon'].src = emitted'[Len(emitted')].src /\ Filtered(lastRecon)'
             /\ \E k \in DOMAIN emitted' : emitted'[k].src = planes[enc.recon].src
    BY Zenon, <1>1, <1>11, <2>1, Emits
  <2>3. /\ sources' \in [0 .. 1 -> Nat] /\ srcIdx' \in 0 .. 1 /\ held' \in Helds
        /\ held'.on /\ held'.key = key /\ held'.tid = TemporalID(enc) /\ HeldSource' = n
    BY Zenon, <1>0, <1>2, <1>11, Holds
  <2>4. PipeType'
    BY Zenon, <1>0, <1>1, <1>4, <2>1, <2>2, <2>3 DEF PipeType, EncoderType, CallType, GhostType
  <2>5. Quiet'
    BY Zenon, <1>0, <1>1, <1>6, <1>7, <2>1, <2>2 DEF Quiet, ReturnedStays
  <2>6. ASSUME ~mode.leafMayFail PROVE BytesInv'
    <3>0. LeafInv' /\ Ready' /\ (Agrees(s) => Agrees(s)')
      BY Zenon, <1>1, <2>1, <2>6, CallerIdle
    <3>1. Agrees(s)' /\ One(s, HeldSource, held.key)'
      BY Zenon, <1>1, <1>8, <1>9, <1>10, <2>2, <2>3, <2>6, <3>0 DEF One
    <3>2. call'.kind = "none" /\ held'.on /\ caller' = "idle"
      BY Zenon, <1>1, <1>6, <2>1, <2>3
    <3>3. Ahead'
      BY Zenon, <1>7, <3>1, <3>2 DEF Ahead
    <3>4. Progress'
      BY Zenon, <1>7, <2>1, <2>3, <3>2 DEF Progress, TemporalID
    <3>5. LastInv'
      BY Zenon, <1>7, <2>2, <2>6, <3>2 DEF LastInv
    <3>6. BaseInv'
      BY Zenon, <2>1, <2>2, <2>6 DEF BaseInv
    <3>7. ReconOfReturned'
      BY Zenon, <1>1 DEF ReconOfReturned
    <3> QED
      BY Zenon, <1>5, <2>6, <3>0, <3>3, <3>4, <3>5, <3>6, <3>7 DEF BytesInv
  <2> QED
    BY Zenon, <1>1, <2>2, <2>4, <2>5, <2>6 DEF PipeInv
<1>12. CASE /\ ~heldDone.on /\ ~held.on /\ Hold(n, key, enc) /\ returned' = None
            /\ UNCHANGED <<enc, planes, heldDone, scratch, filter, lazy, lastRecon, leaf, caller, call, emitted>>
  <2>1. UNCHANGED <<mode, enc, planes, heldDone, scratch, filter, lazy, lastRecon, leaf, caller, call, emitted>> /\ returned' = None
    BY Zenon, <1>1, <1>12
  <2>3. /\ sources' \in [0 .. 1 -> Nat] /\ srcIdx' \in 0 .. 1 /\ held' \in Helds
        /\ held'.on /\ held'.key = key /\ held'.tid = TemporalID(enc) /\ HeldSource' = n
    BY Zenon, <1>0, <1>2, <1>12, Holds
  <2>4. PipeType'
    BY Zenon, <1>0, <1>1, <1>4, <2>1, <2>3 DEF PipeType, EncoderType, CallType, GhostType
  <2>5. Quiet'
    BY Zenon, <1>0, <1>1, <1>6, <1>7, <1>12, <2>1 DEF Quiet, ReturnedStays
  <2>6. ASSUME ~mode.leafMayFail PROVE BytesInv'
    <3>0. LeafInv' /\ Ready' /\ (Agrees(s) => Agrees(s)') /\ BytesInv
      BY Zenon, <1>1, <2>1, <2>6, CallerIdle DEF PipeInv
    <3>1. Agrees(s) /\ expected = emitted
      BY Zenon, <1>6, <1>9, <1>12, <3>0 DEF BytesInv, Ahead
    <3>2. Agrees(s)' /\ One(s, HeldSource, held.key)'
      BY Zenon, <1>1, <1>8, <1>9, <1>10, <2>1, <2>3, <3>0, <3>1 DEF One
    <3>3. call'.kind = "none" /\ held'.on /\ caller' = "idle" /\ ~heldDone'.on
      BY Zenon, <1>1, <1>6, <1>12, <2>1, <2>3
    <3>4. Ahead'
      BY Zenon, <1>7, <3>2, <3>3 DEF Ahead
    <3>5. Progress'
      BY Zenon, <1>7, <2>1, <2>3, <3>3 DEF Progress, TemporalID
    <3>6. LastInv'
      BY Zenon, <1>1, <1>7, <2>1, <3>0, <3>3 DEF BytesInv, LastInv, Filtered
    <3>7. BaseInv'
      BY Zenon, <1>1, <1>7, <1>12, <2>1, <3>0 DEF BytesInv, BaseInv
    <3>8. ReconOfReturned'
      BY Zenon, <1>1 DEF ReconOfReturned
    <3> QED
      BY Zenon, <1>5, <2>6, <3>0, <3>4, <3>5, <3>6, <3>7, <3>8 DEF BytesInv
  <2> QED
    BY Zenon, <1>0, <1>1, <2>1, <2>4, <2>5, <2>6 DEF PipeInv
<1>13. CASE /\ ~heldDone.on /\ held.on /\ caller' = "join" /\ returned' = None
            /\ IF OverlapEligible(key) /\ held.tid > 0 /\ ~held.key
               THEN /\ call' = [kind |-> "overlap", src |-> n, key |-> FALSE, tid |-> 0]
                    /\ UNCHANGED held
               ELSE /\ call' = [kind |-> "held", src |-> n, key |-> key, tid |-> held.tid]
                    /\ held' = [held EXCEPT !.on = FALSE]
            /\ UNCHANGED <<enc, planes, sources, srcIdx, heldDone, scratch, filter, lazy, lastRecon, leaf, emitted>>
  <2>1. /\ UNCHANGED <<mode, enc, planes, sources, srcIdx, heldDone, scratch, filter, lazy, lastRecon, leaf, emitted>>
        /\ returned' = None /\ caller' = "join" /\ ~heldDone.on /\ held.on
    BY Zenon, <1>1, <1>13
  <2> DEFINE overlap == OverlapEligible(key) /\ held.tid > 0 /\ ~held.key
  <2>2. held \in Helds /\ held.key \in BOOLEAN /\ held.tid \in 0 .. 2
    BY Zenon, <1>0, TypeFacts DEF PipeType, EncoderType
  <2>3. /\ held' \in Helds /\ call' \in Calls /\ call'.src = n /\ held'.key = held.key /\ held'.tid = held.tid /\ held'.buf = held.buf
        /\ overlap => held'.on /\ call'.kind = "overlap" /\ call'.key = FALSE /\ call'.tid = 0
        /\ ~overlap => ~held'.on /\ call'.kind = "held" /\ call'.key = key /\ call'.tid = held.tid
    <3>1. CASE overlap
      <4>1. call' = [kind |-> "overlap", src |-> n, key |-> FALSE, tid |-> 0] /\ held' = held
        BY Zenon, <1>13, <3>1
      <4>2. call' \in Calls /\ call'.src = n /\ call'.kind = "overlap" /\ call'.key = FALSE /\ call'.tid = 0
        BY <1>2, <4>1 DEF Calls
      <4> QED
        BY Zenon, <2>1, <2>2, <3>1, <4>1, <4>2
    <3>2. CASE ~overlap
      <4>1. call' = [kind |-> "held", src |-> n, key |-> key, tid |-> held.tid] /\ held' = [held EXCEPT !.on = FALSE]
        BY Zenon, <1>13, <3>2
      <4>2. call' \in Calls /\ call'.src = n /\ call'.kind = "held" /\ call'.key = key /\ call'.tid = held.tid
        BY <1>2, <2>2, <4>1 DEF Calls
      <4>3. held' \in Helds /\ held'.key = held.key /\ held'.tid = held.tid /\ held'.buf = held.buf /\ ~held'.on
        BY <2>2, <4>1 DEF Helds
      <4> QED
        BY Zenon, <3>2, <4>2, <4>3
    <3> QED
      BY Zenon, <3>1, <3>2
  <2>4. overlap => ~key /\ enc.haveKey /\ mode.layers = 2 /\ ~held.key /\ held.tid > 0
    BY Zenon DEF OverlapEligible
  <2>5. call'.key = key
    BY Zenon, <2>3, <2>4
  <2> HIDE DEF overlap
  <2>6. PipeType'
    <3>1. caller' \in {"idle", "join", "code", "coding", "wait"}
      BY Zenon, <2>1
    <3> QED
      BY Zenon, <1>0, <1>1, <1>4, <2>1, <2>3, <3>1 DEF PipeType, EncoderType, CallType, GhostType
  <2>7. Quiet'
    BY Zenon, <1>0, <1>1, <1>6, <1>7, <2>1, <2>3 DEF Quiet, ReturnedStays
  <2>8. ASSUME ~mode.leafMayFail PROVE BytesInv'
    <3>0. LeafInv' /\ Ready' /\ (\A r : Agrees(r) => Agrees(r)') /\ BytesInv
      BY Zenon, <1>1, <2>1, <2>8, CallerIdle DEF PipeInv
    <3>1. PICK h, k : h = HeldSource /\ k = held.key
      BY Zenon
    <3>2. PICK r \in Serials : Agrees(r) /\ One(r, h, k)
      BY Zenon, <1>6, <2>1, <3>0, <3>1 DEF BytesInv, Ahead
    <3>3. HeldSource' = h /\ held'.key = k /\ call'.src = m /\ call'.key = key
      BY Zenon, <1>8, <2>1, <2>3, <2>5, <3>1 DEF HeldSource
    <3>4. SerialStep(r, h, k)' = s /\ SerialUnit(r, h, k)' = SerialUnit(r, h, k) /\ expected = Append(emitted, SerialUnit(r, h, k))
      BY Zenon, <1>1, <1>9, <3>2, SameEncoder DEF One
    <3>5. expected' = Append(Append(emitted', SerialUnit(r, h, k)'), SerialUnit(s, m, key)')
      BY Zenon, <1>1, <1>10, <2>1, <3>4
    <3>6. serial' = SerialStep(s, m, key)'
      BY Zenon, <1>10
    <3>7. Two(r, h, k, m, key)'
      BY <3>4, <3>5, <3>6 DEF Two
    <3>8. Two(r, HeldSource, held.key, call.src, call.key)'
      BY Zenon, <3>3, <3>7 DEF Two
    <3>9. Ahead'
      <4>1. Agrees(r)' /\ call'.kind \in {"held", "overlap"} /\ caller' # "wait"
        BY Zenon, <1>7, <2>1, <2>3, <3>0, <3>2
      <4> QED
        BY Zenon, <1>7, <3>8, <4>1 DEF Ahead
    <3>10. Progress'
      <4>1. held.tid = TemporalID(enc)
        BY Zenon, <1>1, <1>7, <2>1, <3>0 DEF BytesInv, Progress
      <4>2. mode.layers = 2 => TemporalID(enc) \in 0 .. 1
        BY Zenon, <1>2, Temporal
      <4>3. overlap => held.tid = 1
        BY <2>2, <2>4, <4>1, <4>2
      <4>4. TemporalID(enc)' = TemporalID(enc)
        BY Zenon, <2>1 DEF TemporalID
      <4>5. call'.kind \in {"held", "overlap"} /\ (call'.kind = "overlap" <=> overlap)
        BY Zenon, <1>7, <2>3
      <4> QED
        BY Zenon, <1>7, <2>1, <2>3, <2>4, <4>1, <4>3, <4>4, <4>5 DEF Progress
    <3>11. LastInv'
      BY Zenon, <1>7, <2>1 DEF LastInv
    <3>12. BaseInv'
      BY Zenon, <1>1, <1>7, <2>1, <3>0 DEF BytesInv, BaseInv
    <3>13. ReconOfReturned'
      BY Zenon, <1>1 DEF ReconOfReturned
    <3> QED
      BY Zenon, <1>5, <2>8, <3>0, <3>9, <3>10, <3>11, <3>12, <3>13 DEF BytesInv
  <2> QED
    BY Zenon, <1>0, <1>1, <2>1, <2>6, <2>7, <2>8 DEF PipeInv
<1> QED
  BY Zenon, <1>11, <1>12, <1>13 DEF EncodeThroughput, n

LEMMA StepDrain == ASSUME PipeInv, Drain PROVE PipeInv'
<1>0. PipeType /\ Quiet /\ emitted \in Seq(Units \cup {None})
  BY Zenon DEF PipeInv
<1>1. caller = "idle" /\ seen' = None /\ UNCHANGED <<mode, sent, serial, expected>>
  BY Zenon DEF Drain
<1>2. "idle" # "wait" /\ "idle" # "join" /\ "idle" # "coding" /\ "join" # "wait" /\ "join" # "coding"
      /\ "idle" \notin {"code", "coding"} /\ "join" \notin {"code", "coding"} /\ "none" # "drain" /\ "none" # "held" /\ "none" # "overlap"
      /\ "held" # "drain" /\ "overlap" # "drain" /\ "held" # "overlap" /\ "drain" \in {"held", "drain"} /\ "none" \notin {"held", "drain"}
  OBVIOUS
<1>3. leaf.state = "idle" /\ call.kind = "none"
  <2>1. "idle" \notin {"code", "coding", "wait"}
    OBVIOUS
  <2> QED
    BY Zenon, <1>0, <1>1, <2>1 DEF Quiet
<1>4. CASE EmitDone /\ UNCHANGED <<enc, planes, sources, srcIdx, held, filter, lazy, leaf, caller, call>>
  <2>1. UNCHANGED <<mode, enc, planes, sources, srcIdx, held, filter, lazy, leaf, caller, call>>
    BY Zenon, <1>1, <1>4
  <2>2. /\ emitted' = Append(emitted, scratch.main) /\ emitted' \in Seq(Units \cup {None}) /\ emitted' # <<>>
        /\ heldDone' \in [on : BOOLEAN, recon : Buffers] /\ ~heldDone'.on /\ lastRecon' \in Buffers /\ ~held.on
        /\ scratch' = scratch /\ scratch'[returned'] = emitted'[Len(emitted')]
        /\ ~mode.leafMayFail =>
             /\ expected = emitted' /\ Agrees(serial)
             /\ planes'[lastRecon'].src = emitted'[Len(emitted')].src /\ Filtered(lastRecon)'
             /\ \E k \in DOMAIN emitted' : emitted'[k].src = planes[enc.recon].src
    BY Zenon, <1>1, <1>4, <2>1, Emits
  <2>3. PipeType'
    BY Zenon, <1>0, <1>1, <2>1, <2>2 DEF PipeType, EncoderType, CallType, GhostType
  <2>4. Quiet'
    BY Zenon, <1>0, <1>1, <1>2, <1>3, <2>1, <2>2 DEF Quiet, ReturnedStays
  <2>5. ASSUME ~mode.leafMayFail PROVE BytesInv'
    <3>0. PICK s : s = serial
      BY Zenon
    <3>1. LeafInv' /\ Ready' /\ (Agrees(s) => Agrees(s)') /\ BytesInv
      BY Zenon, <1>1, <2>1, <2>5, CallerIdle DEF PipeInv
    <3>2. Agrees(serial)'
      BY Zenon, <1>1, <2>2, <2>5, <3>0, <3>1 DEF Agrees
    <3>3. call'.kind = "none" /\ ~held'.on /\ caller' = "idle"
      BY Zenon, <1>1, <1>3, <2>1, <2>2
    <3>4. Ahead'
      BY Zenon, <1>1, <1>2, <2>2, <2>5, <3>2, <3>3 DEF Ahead
    <3>5. Progress'
      BY Zenon, <1>2, <3>3 DEF Progress
    <3>6. LastInv'
      BY Zenon, <1>2, <2>2, <2>5, <3>3 DEF LastInv
    <3>7. BaseInv'
      BY Zenon, <2>1, <2>2, <2>5 DEF BaseInv
    <3>8. Counts' /\ ReconOfReturned'
      BY Zenon, <1>1, <3>1 DEF BytesInv, Counts, ReconOfReturned
    <3> QED
      BY Zenon, <3>1, <3>4, <3>5, <3>6, <3>7, <3>8 DEF BytesInv
  <2> QED
    BY Zenon, <1>1, <2>2, <2>3, <2>4, <2>5 DEF PipeInv
<1>5. CASE /\ ~heldDone.on /\ held.on /\ held' = [held EXCEPT !.on = FALSE] /\ caller' = "join"
           /\ call' = [kind |-> "drain", src |-> 0, key |-> FALSE, tid |-> held.tid] /\ returned' = None
           /\ UNCHANGED <<enc, planes, sources, srcIdx, heldDone, scratch, filter, lazy, lastRecon, leaf, emitted>>
  <2>1. /\ UNCHANGED <<mode, enc, planes, sources, srcIdx, heldDone, scratch, filter, lazy, lastRecon, leaf, emitted>>
        /\ returned' = None /\ caller' = "join" /\ ~heldDone.on /\ held.on
    BY Zenon, <1>1, <1>5
  <2>2. held \in Helds /\ held.tid \in 0 .. 2
    BY Zenon, <1>0, TypeFacts DEF PipeType, EncoderType
  <2>3. /\ held' \in Helds /\ held'.key = held.key /\ held'.tid = held.tid /\ held'.buf = held.buf /\ ~held'.on
    BY <1>5, <2>2 DEF Helds
  <2>4. call' \in Calls /\ call'.kind = "drain" /\ call'.tid = held.tid
    BY <1>5, <2>2 DEF Calls
  <2>5. PipeType'
    <3>1. caller' \in {"idle", "join", "code", "coding", "wait"}
      BY Zenon, <2>1
    <3> QED
      BY Zenon, <1>0, <1>1, <2>1, <2>3, <2>4, <3>1 DEF PipeType, EncoderType, CallType, GhostType
  <2>6. Quiet'
    BY Zenon, <1>0, <1>1, <1>2, <1>3, <2>1, <2>4 DEF Quiet, ReturnedStays
  <2>7. ASSUME ~mode.leafMayFail PROVE BytesInv'
    <3>0. LeafInv' /\ Ready' /\ (\A r : Agrees(r) => Agrees(r)') /\ BytesInv
      BY Zenon, <1>1, <2>1, <2>7, CallerIdle DEF PipeInv
    <3>1. PICK h, k : h = HeldSource /\ k = held.key
      BY Zenon
    <3>2. PICK r \in Serials : Agrees(r) /\ One(r, h, k)
      BY Zenon, <1>3, <2>1, <3>0, <3>1 DEF BytesInv, Ahead
    <3>3. HeldSource' = h /\ held'.key = k
      BY Zenon, <2>1, <2>3, <3>1 DEF HeldSource
    <3>4. One(r, h, k)'
      BY Zenon, <1>1, <2>1, <3>2, OneKept
    <3>5. One(r, HeldSource, held.key)' /\ Agrees(r)'
      BY Zenon, <3>0, <3>2, <3>3, <3>4 DEF One
    <3>6. Ahead'
      BY Zenon, <1>2, <2>1, <2>4, <3>5 DEF Ahead
    <3>7. Progress'
      <4>1. held.tid = TemporalID(enc)
        BY Zenon, <1>1, <1>2, <2>1, <3>0 DEF BytesInv, Progress
      <4>2. TemporalID(enc)' = TemporalID(enc)
        BY Zenon, <2>1 DEF TemporalID
      <4> QED
        BY Zenon, <1>2, <2>1, <2>3, <2>4, <4>1, <4>2 DEF Progress
    <3>8. LastInv'
      BY Zenon, <1>2, <2>1 DEF LastInv
    <3>9. BaseInv'
      BY Zenon, <1>1, <1>2, <2>1, <3>0 DEF BytesInv, BaseInv
    <3>10. Counts' /\ ReconOfReturned'
      BY Zenon, <1>1, <3>0 DEF BytesInv, Counts, ReconOfReturned
    <3> QED
      BY Zenon, <3>0, <3>6, <3>7, <3>8, <3>9, <3>10 DEF BytesInv
  <2> QED
    BY Zenon, <1>0, <1>1, <2>1, <2>5, <2>6, <2>7 DEF PipeInv
<1> QED
  BY Zenon, <1>4, <1>5 DEF Drain

LEMMA StepCollect == ASSUME PipeInv, Collect PROVE PipeInv'
<1>0. PipeType /\ Quiet /\ emitted \in Seq(Units \cup {None})
  BY Zenon DEF PipeInv
<1>1. /\ caller = "wait" /\ leaf.state = "done" /\ caller' = "idle" /\ call' = NoCall /\ leaf' = Idle /\ scratch' = scratch
      /\ UNCHANGED <<planes, sources, srcIdx, filter, lazy, mode, sent, serial, expected, seen>>
  BY Zenon DEF Collect
<1>2. "idle" # "wait" /\ "idle" # "coding" /\ "wait" # "coding" /\ "idle" \notin {"code", "coding"} /\ "none" # "drain" /\ "none" # "held"
      /\ "none" # "overlap" /\ "none" \notin {"held", "drain"} /\ "idle" # "done" /\ "done" # "idle"
  OBVIOUS
<1>3. leaf' \in Leaves /\ leaf'.state = "idle" /\ ~leaf'.failed /\ call' \in Calls /\ call'.kind = "none"
  BY <1>1, PictureTypes DEF Leaves, Idle, NoCall, Calls, Buffers
<1>4. returned = None /\ seen = None /\ ~heldDone.on
  BY Zenon, <1>0, <1>1, <1>2 DEF Quiet
<1>5. caller' \in {"idle", "join", "code", "coding", "wait"}
  BY Zenon, <1>1
<1>6. CASE leaf.failed
  <2>1. UNCHANGED <<enc, lastRecon, heldDone, held, emitted, returned>>
    BY Zenon, <1>6 DEF Collect
  <2>2. PipeType'
    BY Zenon, <1>0, <1>1, <1>3, <1>5, <2>1 DEF PipeType, EncoderType, CallType, GhostType
  <2>3. Quiet'
    BY Zenon, <1>1, <1>2, <1>3, <1>4, <2>1 DEF Quiet, ReturnedStays
  <2>4. mode.leafMayFail
    BY Zenon, <1>6 DEF PipeInv, BytesInv, LeafInv
  <2> QED
    BY Zenon, <1>0, <1>1, <2>1, <2>2, <2>3, <2>4 DEF PipeInv
<1>7. CASE ~leaf.failed
  <2>1. /\ enc' = [enc EXCEPT !.index = @ + 2, !.last = 0] /\ lastRecon' = "leaf" /\ heldDone' = [on |-> TRUE, recon |-> enc.recon]
        /\ held' = [held EXCEPT !.on = FALSE] /\ emitted' = Append(emitted, scratch.leaf) /\ returned' = "leaf"
    BY Zenon, <1>1, <1>7 DEF Collect, Return
  <2>2. enc' \in Encs
    <3> DEFINE x == [enc EXCEPT !.index = @ + 2]
    <3>1. x \in Encs
      BY <1>0 DEF PipeType, EncoderType, Encs
    <3>2. enc' = [x EXCEPT !.last = 0]
      BY Zenon, <2>1
    <3> HIDE DEF x
    <3> QED
      BY <3>1, <3>2 DEF Encs
  <2>3. enc'.recon = enc.recon /\ enc'.idx = enc.idx /\ enc'.haveKey = enc.haveKey /\ enc.recon \in Buffers
    BY <1>0, <2>1 DEF PipeType, EncoderType, Encs
  <2>4. heldDone' \in [on : BOOLEAN, recon : Buffers] /\ heldDone'.on /\ heldDone'.recon = enc.recon
    BY <2>1, <2>3
  <2>5. held' \in Helds /\ ~held'.on
    BY <1>0, <2>1 DEF PipeType, EncoderType, Helds
  <2>6. /\ emitted' \in Seq(Units \cup {None}) /\ emitted' # <<>> /\ emitted'[Len(emitted')] = scratch.leaf
    <3>1. scratch.leaf \in Units \cup {None}
      BY <1>0 DEF PipeType, EncoderType
    <3> QED
      BY <1>0, <2>1, <3>1, AppendFacts
  <2>7. PipeType'
    <3>1. lastRecon' \in Buffers \cup {None}
      BY <2>1 DEF Buffers
    <3> QED
      BY Zenon, <1>0, <1>1, <1>3, <1>5, <2>2, <2>4, <2>5, <3>1 DEF PipeType, EncoderType, CallType, GhostType
  <2>8. Quiet'
    BY Zenon, <1>1, <1>2, <1>3, <2>1, <2>5, <2>6 DEF Quiet, ReturnedStays
  <2>9. ASSUME ~mode.leafMayFail PROVE BytesInv'
    <3>0. BytesInv
      BY Zenon, <2>9 DEF PipeInv
    <3>1. scratch.leaf = LeafUnit /\ planes["leaf"] = Picture(HeldSource)
      BY Zenon, <1>1, <3>0 DEF BytesInv, LeafInv
    <3>2. /\ serial.e = enc' /\ (\A b \in Kept : serial.pictures[b] = planes[b].src)
          /\ expected = Append(Append(emitted, LeafUnit), scratch.main)
      BY Zenon, <1>1, <2>1, <3>0 DEF BytesInv, Ahead
    <3>3. Kept' = Kept /\ Written' = {} /\ Written = {}
      BY Zenon, <1>1, <1>2 DEF Kept, Written
    <3>4. Agrees(serial)'
      BY Zenon, <1>0, <1>1, <3>2, <3>3 DEF Agrees, PipeType, GhostType
    <3>5. expected' = Append(emitted', scratch'.main)
      BY Zenon, <1>1, <2>1, <3>1, <3>2
    <3>6. Ahead'
      BY Zenon, <1>1, <1>2, <1>3, <2>4, <2>5, <3>4, <3>5 DEF Ahead
    <3>7. Progress'
      BY Zenon, <1>1, <1>2, <1>3, <2>5 DEF Progress
    <3>8. Ready'
      BY Zenon, <1>1, <2>3, <3>0, <3>3 DEF BytesInv, Ready, Filtered
    <3>9. LeafInv'
      BY Zenon, <1>2, <1>3 DEF LeafInv
    <3>10. LastInv'
      <4>1. planes["leaf"].state = "filtered" /\ planes["leaf"].src = HeldSource /\ LeafUnit.src = HeldSource /\ "leaf" \in Buffers
        BY <3>1 DEF Picture, LeafUnit, InterUnit, Buffers
      <4>2. Filtered(lastRecon)'
        BY Zenon, <1>1, <2>1, <4>1 DEF Filtered
      <4>3. scratch.main.src = planes[enc.recon].src /\ lazy = None
        BY Zenon, <1>1, <3>0 DEF BytesInv, LastInv
      <4> QED
        BY Zenon, <1>1, <2>1, <2>3, <2>4, <2>6, <3>1, <4>1, <4>2, <4>3 DEF LastInv
    <3>11. BaseInv'
      BY Zenon, <2>4 DEF BaseInv
    <3>12. Counts' /\ ReconOfReturned'
      BY Zenon, <1>1, <1>4, <3>0 DEF BytesInv, Counts, ReconOfReturned
    <3> QED
      BY Zenon, <3>6, <3>7, <3>8, <3>9, <3>10, <3>11, <3>12 DEF BytesInv
  <2> QED
    BY Zenon, <1>1, <2>6, <2>7, <2>8, <2>9 DEF PipeInv
<1> QED
  BY Zenon, <1>6, <1>7

\* What a base frame commits.
LEMMA BaseShape ==
  ASSUME NEW e \in Encs, NEW src \in Nat, NEW r \in Buffers
  PROVE  /\ Refreshed(e, src, 0, r) =
              [haveKey |-> e.haveKey, index |-> e.index, last |-> e.last, recon |-> r, idx |-> 1 - e.idx,
               ctx |-> src, ctxT1 |-> e.ctxT1, hme |-> [e.hme EXCEPT ![0] = src]]
         /\ Refreshed(e, src, 0, r) \in Encs
<1>1. PICK z \in 0 .. 2 : z = 0
  OBVIOUS
<1>2. Refreshed(e, src, z, r) \in Encs
  BY Zenon, EncTypes
<1>3. Refreshed(e, src, z, r) =
        [haveKey |-> e.haveKey, index |-> e.index, last |-> e.last, recon |-> r, idx |-> 1 - e.idx,
         ctx |-> src, ctxT1 |-> e.ctxT1, hme |-> [e.hme EXCEPT ![0] = src]]
  BY Zenon, <1>1, EncShapes
<1> QED
  BY Zenon, <1>1, <1>2, <1>3

\* The serial encoder's leaf h and base c, from the state s both are coded in.
LeafThenBase(s, h, k, c, d) ==
  LET e == s.e
      t == SerialStep(s, h, k)
      out == OutBuffer(e, 0)
  IN /\ SerialUnit(s, h, k) = InterUnit(h, 1, e.index, Picture(s.pictures[e.recon]), e.ctx, e.hme[0])
     /\ t.e = Counted(e, 1) /\ t.pictures = [s.pictures EXCEPT !["t1"] = h]
     /\ SerialUnit(t, c, d) = InterUnit(c, 0, e.index + 1, Picture(t.pictures[e.recon]), e.ctx, e.hme[0])
     /\ SerialStep(t, c, d).pictures = [t.pictures EXCEPT ![out] = c]
     /\ SerialStep(t, c, d).e = [Refreshed(e, c, 0, out) EXCEPT !.index = @ + 2, !.last = 0]

LEMMA SerialLeaf ==
  ASSUME mode \in Modes, mode.layers = 2, NEW s \in Serials, NEW h \in Nat, NEW c \in Nat,
         NEW k \in BOOLEAN, NEW d \in BOOLEAN, ~k, ~d, s.e.haveKey, TemporalID(s.e) = 1
  PROVE  LeafThenBase(s, h, k, c, d)
<1> DEFINE e == s.e
           t == SerialStep(s, h, k)
           out == OutBuffer(e, 0)
<1>1. e \in Encs /\ s.pictures \in [Buffers -> Nat]
  BY DEF Serials
<1>2. OutBuffer(e, 1) = "t1" /\ ~AfterT1(e, 1) /\ ~Referenced(1) /\ RefBuffer(e, 1) = e.recon /\ Context(e, 1) = e.ctx
      /\ SearchSource(e, 1) = e.hme[0]
  BY DEF OutBuffer, AfterT1, Referenced, RefBuffer, Context, SearchSource
<1>3. SerialUnit(s, h, k) = InterUnit(h, 1, e.index, Picture(s.pictures[e.recon]), e.ctx, e.hme[0])
  BY Zenon, <1>2 DEF SerialUnit
<1>4. Refreshed(e, h, 1, "t1") = e
  BY <1>2 DEF Refreshed
<1>5. t = [e |-> Counted(e, 1), pictures |-> [s.pictures EXCEPT !["t1"] = h]]
  BY Zenon, <1>2, <1>4 DEF SerialStep
<1>6. t.e = Counted(e, 1) /\ t.pictures = [s.pictures EXCEPT !["t1"] = h]
  BY <1>5
<1> DEFINE f == Counted(e, 1)
<1>7. f = [haveKey |-> e.haveKey, index |-> e.index + 1, last |-> 1, recon |-> e.recon,
           idx |-> e.idx, ctx |-> e.ctx, ctxT1 |-> e.ctxT1, hme |-> e.hme]
  <2>1. 0 \in Nat /\ 1 \in 0 .. 2 /\ "key" \in Buffers
    BY DEF Buffers
  <2> QED
    BY Zenon, <1>1, <2>1, EncShapes
<1>8. f \in Encs
  <2>1. 0 \in Nat /\ 1 \in 0 .. 2 /\ "key" \in Buffers
    BY DEF Buffers
  <2> QED
    BY Zenon, <1>1, <2>1, EncTypes
<1> HIDE DEF f
<1>9. f.haveKey = e.haveKey /\ f.index = e.index + 1 /\ f.last = 1 /\ f.recon = e.recon /\ f.idx = e.idx /\ f.ctx = e.ctx
      /\ f.ctxT1 = e.ctxT1 /\ f.hme = e.hme
  BY <1>7
<1>10. TemporalID(f) = 0
  <2>1. e.index \in Nat /\ e.index % 2 = 1
    BY <1>1 DEF Encs, TemporalID
  <2>2. (e.index + 1) % 2 = 0
    BY <2>1
  <2> QED
    BY <1>9, <2>2 DEF TemporalID
<1>11. OutBuffer(f, 0) = out /\ RefBuffer(f, 0) = e.recon /\ Context(f, 0) = e.ctx /\ SearchSource(f, 0) = e.hme[0]
  BY <1>9 DEF OutBuffer, AfterT1, RefBuffer, Context, SearchSource
<1>12. t.e = f
  BY Zenon, <1>6 DEF f
<1> HIDE DEF t
<1>13. SerialUnit(t, c, d) = InterUnit(c, 0, e.index + 1, Picture(t.pictures[e.recon]), e.ctx, e.hme[0])
  BY Zenon, <1>9, <1>10, <1>11, <1>12 DEF SerialUnit
<1>14. SerialStep(t, c, d) = [e |-> Counted(Refreshed(f, c, 0, out), 0), pictures |-> [t.pictures EXCEPT ![out] = c]]
  BY Zenon, <1>9, <1>10, <1>11, <1>12 DEF SerialStep
<1>15. SerialStep(t, c, d).pictures = [t.pictures EXCEPT ![out] = c]
       /\ SerialStep(t, c, d).e = Counted(Refreshed(f, c, 0, out), 0)
  BY <1>14
<1>16. out \in Buffers /\ 0 \in 0 .. 2
  BY <1>1, OutFacts
<1> HIDE DEF out
<1> DEFINE g == Refreshed(f, c, 0, out)
           b == Refreshed(e, c, 0, out)
<1>17. g = [haveKey |-> f.haveKey, index |-> f.index, last |-> f.last, recon |-> out, idx |-> 1 - f.idx,
            ctx |-> c, ctxT1 |-> f.ctxT1, hme |-> [f.hme EXCEPT ![0] = c]] /\ g \in Encs
  BY Zenon, <1>8, <1>16, BaseShape
<1>18. b = [haveKey |-> e.haveKey, index |-> e.index, last |-> e.last, recon |-> out, idx |-> 1 - e.idx,
            ctx |-> c, ctxT1 |-> e.ctxT1, hme |-> [e.hme EXCEPT ![0] = c]] /\ b \in Encs
  BY Zenon, <1>1, <1>16, BaseShape
<1> HIDE DEF g, b
<1>19. Counted(g, 0) = [haveKey |-> g.haveKey, index |-> g.index + 1, last |-> 0, recon |-> g.recon,
                        idx |-> g.idx, ctx |-> g.ctx, ctxT1 |-> g.ctxT1, hme |-> g.hme]
  BY <1>16, <1>17, EncShapes
<1> DEFINE x == [b EXCEPT !.index = @ + 2, !.last = 0]
<1>20. /\ DOMAIN x = {"haveKey", "index", "last", "recon", "idx", "ctx", "ctxT1", "hme"} /\ x = [i \in DOMAIN x |-> x[i]]
       /\ x.haveKey = b.haveKey /\ x.index = b.index + 2 /\ x.last = 0 /\ x.recon = b.recon /\ x.idx = b.idx
       /\ x.ctx = b.ctx /\ x.ctxT1 = b.ctxT1 /\ x.hme = b.hme
  BY <1>18 DEF Encs
<1>21. /\ g.haveKey = b.haveKey /\ g.index + 1 = b.index + 2 /\ g.recon = b.recon /\ g.idx = b.idx
       /\ g.ctx = b.ctx /\ g.ctxT1 = b.ctxT1 /\ g.hme = b.hme
  <2>1. e.index \in Nat
    BY <1>1 DEF Encs
  <2>2. g.index = e.index + 1 /\ b.index = e.index
    BY <1>9, <1>17, <1>18
  <2>3. g.haveKey = b.haveKey /\ g.recon = b.recon /\ g.idx = b.idx /\ g.ctx = b.ctx /\ g.ctxT1 = b.ctxT1 /\ g.hme = b.hme
    BY <1>9, <1>17, <1>18
  <2> QED
    BY <2>1, <2>2, <2>3
<1> HIDE DEF x
<1>22. x = [haveKey |-> b.haveKey, index |-> b.index + 2, last |-> 0, recon |-> b.recon, idx |-> b.idx,
            ctx |-> b.ctx, ctxT1 |-> b.ctxT1, hme |-> b.hme]
  BY <1>20
<1>23. Counted(g, 0) = x
  BY Zenon, <1>19, <1>21, <1>22
<1> QED
  BY Zenon, <1>3, <1>6, <1>13, <1>15, <1>23 DEF f, g, b, x, t, out, LeafThenBase

\* What the filters leave of the frame that was coded.
LEMMA FilterFacts ==
  ASSUME PipeType, Source \in Nat, Filters
  PROVE  /\ planes' \in [Buffers -> Pictures] /\ planes'[Out].src = Source /\ \A b \in Buffers \ {Out} : planes'[b] = planes[b]
         /\ lazy' \in Buffers \cup {None} /\ filter' \in [state : {"off", "running", "done"}, out : Buffers]
         /\ CodesKey \/ Referenced(call.tid) =>
              /\ planes'[Out].state = "filtered" \/ (filter'.state = "running" /\ filter'.out = Out)
              /\ lazy' = None
         /\ ~CodesKey /\ ~Referenced(call.tid) => lazy' = Out
         /\ filter' = filter \/ (filter'.state = "running" /\ filter'.out = Out)
<1>1. planes \in [Buffers -> Pictures] /\ Out \in Buffers /\ filter \in [state : {"off", "running", "done"}, out : Buffers]
  BY Zenon, TypeFacts, OutType DEF PipeType, CallType
<1>2. /\ Picture(Source) \in Pictures /\ Raw(Source) \in Pictures /\ Picture(Source).src = Source /\ Raw(Source).src = Source
      /\ Picture(Source).state = "filtered"
  BY Zenon, PictureTypes
<1>3. \A x \in Pictures : planes' = [planes EXCEPT ![Out] = x] =>
        planes' \in [Buffers -> Pictures] /\ planes'[Out] = x /\ \A b \in Buffers \ {Out} : planes'[b] = planes[b]
  BY <1>1
<1>4. CASE (CodesKey \/ (Referenced(call.tid) /\ ~mode.background))
  <2>1. planes' = [planes EXCEPT ![Out] = Picture(Source)] /\ lazy' = None /\ filter' = filter
    BY <1>4 DEF Filters
  <2> QED
    BY Zenon, <1>1, <1>2, <1>3, <1>4, <2>1
<1>5. CASE ~CodesKey /\ ~Referenced(call.tid)
  <2>1. planes' = [planes EXCEPT ![Out] = Raw(Source)] /\ lazy' = Out /\ filter' = filter
    BY <1>5 DEF Filters
  <2> QED
    BY Zenon, <1>1, <1>2, <1>3, <1>5, <2>1
<1>6. CASE ~CodesKey /\ Referenced(call.tid) /\ mode.background
  <2>1. planes' = [planes EXCEPT ![Out] = Raw(Source)] /\ lazy' = None /\ filter' = [state |-> "running", out |-> Out]
    BY <1>6 DEF Filters
  <2>2. filter' \in [state : {"off", "running", "done"}, out : Buffers] /\ filter'.state = "running" /\ filter'.out = Out
    BY <1>1, <2>1
  <2> QED
    BY Zenon, <1>1, <1>2, <1>3, <1>6, <2>1, <2>2
<1> QED
  BY Zenon, <1>4, <1>5, <1>6

LEMMA FinishTypes ==
  ASSUME PipeType
  PROVE  Source \in Nat /\ Unit \in Units /\ Unit.src = Source /\ Committed \in Encs
<1>1. /\ enc \in Encs /\ enc.index \in Nat /\ call.tid \in 0 .. 2 /\ call.src \in Nat /\ HeldSource \in Nat
      /\ planes \in [Buffers -> Pictures]
  BY Zenon, TypeFacts
<1>2. Source \in Nat
  BY Zenon, <1>1 DEF Source, HeldSource
<1>3. /\ RefBuffer(enc, call.tid) \in Buffers /\ Context(enc, call.tid) \in Nat /\ SearchSource(enc, call.tid) \in Nat
  BY Zenon, <1>1, BufferFacts
<1>4. planes[RefBuffer(enc, call.tid)] \in Pictures /\ BaseIndex \in Nat
  BY <1>1, <1>3 DEF BaseIndex
<1>5. Unit \in Units
  BY Zenon, <1>1, <1>2, <1>3, <1>4, UnitTypes DEF Unit
<1>6. Unit.src = Source
  BY DEF Unit, KeyUnit, InterUnit
<1>7. Out \in Buffers /\ "key" \in Buffers
  BY Zenon, OutType DEF Buffers
<1>8. PICK z \in 0 .. 2 : z = 0
  OBVIOUS
<1>9. AfterKey(enc, Source, "key") \in Encs /\ Refreshed(enc, Source, call.tid, Out) \in Encs
  BY Zenon, <1>1, <1>2, <1>7, EncTypes
<1>10. Refreshed(enc, Source, 0, Out) \in Encs
  BY Zenon, <1>1, <1>2, <1>7, BaseShape
<1>11. Counted(Refreshed(enc, Source, call.tid, Out), call.tid) \in Encs
  BY Zenon, <1>1, <1>2, <1>7, <1>9, EncTypes
<1> QED
  BY Zenon, <1>2, <1>5, <1>6, <1>9, <1>10, <1>11 DEF Committed

\* A frame coded in order is the serial encoder's.
SerialSame(s, h, k) ==
  /\ SerialUnit(s, h, k) = Unit /\ Source = h
  /\ SerialStep(s, h, k).e = Committed
  /\ SerialStep(s, h, k).pictures = [s.pictures EXCEPT ![Out] = Source]

LEMMA SerialCall ==
  ASSUME PipeType, Ready, Progress, caller = "coding", call.kind \in {"held", "drain"},
         NEW s, Agrees(s), NEW h, h = HeldSource, NEW k, k = held.key
  PROVE  SerialSame(s, h, k)
<1>0. "held" # "overlap" /\ "drain" # "overlap" /\ "coding" # "wait" /\ "held" # "none" /\ "drain" # "none"
  OBVIOUS
<1>1. call.kind # "overlap" /\ call.kind # "none"
  BY Zenon, <1>0
<1>2. Source = h /\ (CodesKey <=> k \/ ~enc.haveKey) /\ s.e = enc /\ s \in Serials
  BY Zenon, <1>1 DEF Source, HeldSource, CodesKey, Agrees
<1>3. call.tid = TemporalID(enc) /\ filter.state # "running"
  BY Zenon, <1>0, <1>1 DEF Progress
<1>4. Written = {Out}
  BY Zenon DEF Written
<1>5. CASE CodesKey
  <2>1. SerialUnit(s, h, k) = KeyUnit(h) /\ Unit = KeyUnit(h) /\ Committed = AfterKey(enc, h, "key") /\ Out = "key"
    BY Zenon, <1>2, <1>5 DEF SerialUnit, Unit, Committed, Out
  <2>2. SerialStep(s, h, k) = [e |-> AfterKey(enc, h, "key"), pictures |-> [s.pictures EXCEPT !["key"] = h]]
    BY Zenon, <1>2, <1>5 DEF SerialStep
  <2>3. SerialStep(s, h, k).e = AfterKey(enc, h, "key") /\ SerialStep(s, h, k).pictures = [s.pictures EXCEPT !["key"] = h]
    BY <2>2
  <2> QED
    BY Zenon, <1>2, <2>1, <2>3 DEF SerialSame
<1>6. CASE ~CodesKey
  <2> DEFINE tid == TemporalID(enc)
  <2>0. enc \in Encs /\ tid \in 0 .. 2 /\ planes \in [Buffers -> Pictures]
    BY Zenon, <1>3, TypeFacts
  <2>1. Out = OutBuffer(enc, tid)
    BY Zenon, <1>3, <1>6 DEF Out
  <2>2. RefBuffer(enc, tid) \in ({enc.recon} \cup (Kept \ Base)) \ Written /\ RefBuffer(enc, tid) \in Kept \ Written
    <3>1. CASE AfterT1(enc, tid)
      <4>1. RefBuffer(enc, tid) = "t1" /\ mode.layers = 3 /\ Out = "t2"
        BY Zenon, <2>0, <2>1, <3>1, OutFacts DEF RefBuffer, AfterT1
      <4> QED
        BY <1>4, <4>1 DEF Kept, Base
    <3>2. CASE ~AfterT1(enc, tid)
      <4>1. RefBuffer(enc, tid) = enc.recon /\ enc.recon \in Base /\ enc.recon # Out
        BY Zenon, <1>6, <3>2, RefHere DEF RefBuffer
      <4> QED
        BY <1>4, <4>1 DEF Kept
    <3> QED
      BY Zenon, <3>1, <3>2
  <2>3. planes[RefBuffer(enc, tid)].state = "filtered"
    BY Zenon, <1>3, <2>2 DEF Ready, Filtered
  <2>4. RefBuffer(enc, tid) \in Buffers
    BY Zenon, <2>0, BufferFacts
  <2>5. planes[RefBuffer(enc, tid)] = Picture(planes[RefBuffer(enc, tid)].src)
    BY <2>0, <2>3, <2>4, PictureIs
  <2>6. s.pictures[RefBuffer(enc, tid)] = planes[RefBuffer(enc, tid)].src
    BY Zenon, <2>2 DEF Agrees
  <2>7. BaseIndex = enc.index
    BY <1>1, <2>0 DEF BaseIndex, Encs
  <2>8. SerialUnit(s, h, k) = Unit
    BY Zenon, <1>2, <1>3, <1>6, <2>5, <2>6, <2>7 DEF SerialUnit, Unit
  <2>9. SerialStep(s, h, k) = [e |-> Counted(Refreshed(enc, h, tid, Out), tid), pictures |-> [s.pictures EXCEPT ![Out] = h]]
    BY Zenon, <1>2, <1>6, <2>1 DEF SerialStep
  <2>10. SerialStep(s, h, k).e = Counted(Refreshed(enc, h, tid, Out), tid) /\ SerialStep(s, h, k).pictures = [s.pictures EXCEPT ![Out] = h]
    BY <2>9
  <2>11. Committed = Counted(Refreshed(enc, h, tid, Out), tid)
    BY Zenon, <1>1, <1>2, <1>3, <1>6 DEF Committed
  <2> QED
    BY Zenon, <1>2, <2>8, <2>10, <2>11 DEF SerialSame
<1> QED
  BY Zenon, <1>5, <1>6

\* What a frame commits, and that the references stay finished.
LEMMA FinishReady ==
  ASSUME PipeType, Ready, Progress, caller = "coding", Filters, enc' = Committed, mode' = mode, caller' \in {"idle", "wait"}
  PROVE  /\ Ready' /\ Written' = {} /\ Kept' = Kept
         /\ CodesKey \/ call.tid = 0 => enc'.recon = Out
         /\ ~(CodesKey \/ call.tid = 0) => enc'.recon = enc.recon /\ enc.recon # Out
         /\ enc'.haveKey <=> CodesKey \/ enc.haveKey
<1>0. "idle" # "coding" /\ "wait" # "coding"
  OBVIOUS
<1>1. enc \in Encs /\ call.tid \in 0 .. 2 /\ Source \in Nat /\ Out \in Buffers /\ "key" \in Buffers /\ enc.idx \in 0 .. 1
  BY Zenon, TypeFacts, FinishTypes, OutType DEF Buffers
<1>2. Written' = {} /\ Kept' = Kept /\ Written = {Out}
  BY Zenon, <1>0 DEF Written, Kept
<1>3. call.kind = "overlap" => call.tid = 0
  BY Zenon DEF Progress
<1>4. CASE CodesKey
  <2>1. enc' = AfterKey(enc, Source, "key") /\ Out = "key"
    BY Zenon, <1>4 DEF Committed, Out
  <2>2. enc' = [haveKey |-> TRUE, index |-> 1, last |-> 0, recon |-> "key", idx |-> enc.idx,
                ctx |-> Source, ctxT1 |-> Source, hme |-> [slot \in 0 .. 1 |-> Source]]
    BY Zenon, <1>1, <2>1, EncShapes
  <2>3. enc'.haveKey /\ enc'.recon = "key"
    BY <2>2
  <2>4. enc'.recon \in {"key", IF enc'.idx = 0 THEN "base1" ELSE "base0"}
    BY <2>3
  <2>5. ASSUME NEW b \in ({enc'.recon} \cup (Kept \ Base)) PROVE Filtered(b)'
    <3>1. CASE b = Out
      <4>1. planes'[b].state = "filtered" \/ (filter'.state = "running" /\ filter'.out = b)
        BY Zenon, <1>1, <1>4, <3>1, FilterFacts
      <4> QED
        BY Zenon, <4>1 DEF Filtered
    <3>2. CASE b # Out
      <4>1. b \in (Kept \ Base) \ Written /\ b \in Buffers
        BY <1>2, <2>1, <2>3, <3>2 DEF Kept, Buffers
      <4>2. planes[b].state = "filtered"
        BY Zenon, <4>1 DEF Ready, Filtered, Progress
      <4>3. planes'[b] = planes[b]
        BY Zenon, <1>1, <3>2, <4>1, FilterFacts
      <4> QED
        BY Zenon, <4>2, <4>3 DEF Filtered
    <3> QED
      BY Zenon, <3>1, <3>2
  <2>6. Ready'
    BY Zenon, <1>2, <2>4, <2>5 DEF Ready
  <2> QED
    BY Zenon, <1>2, <1>4, <2>1, <2>3, <2>6
<1>5. CASE ~CodesKey
  <2> DEFINE u == Refreshed(enc, Source, call.tid, Out)
  <2>1. u \in Encs /\ (call.kind = "overlap" => enc' = u) /\ (call.kind # "overlap" => enc' = Counted(u, call.tid))
    BY Zenon, <1>1, <1>3, <1>5, EncTypes DEF Committed
  <2>2. /\ call.tid = 0 => u = [haveKey |-> enc.haveKey, index |-> enc.index, last |-> enc.last, recon |-> Out, idx |-> 1 - enc.idx,
                                ctx |-> Source, ctxT1 |-> enc.ctxT1, hme |-> [enc.hme EXCEPT ![0] = Source]]
        /\ call.tid # 0 => u = enc \/
             u = [haveKey |-> enc.haveKey, index |-> enc.index, last |-> enc.last, recon |-> enc.recon, idx |-> enc.idx,
                  ctx |-> enc.ctx, ctxT1 |-> Source, hme |-> [enc.hme EXCEPT ![1] = Source]]
    <3>1. CASE call.tid = 0
      BY ZenonT(60), <1>1, <3>1, EncShapes
    <3>2. CASE call.tid # 0 /\ Referenced(call.tid)
      BY ZenonT(60), <1>1, <3>2, EncShapes
    <3>3. CASE call.tid # 0 /\ ~Referenced(call.tid)
      BY ZenonT(60), <1>1, <3>3, EncShapes
    <3> QED
      BY Zenon, <3>1, <3>2, <3>3
  <2>3. /\ u.haveKey = enc.haveKey
        /\ call.tid = 0 => u.recon = Out /\ u.idx = 1 - enc.idx
        /\ call.tid # 0 => u.recon = enc.recon /\ u.idx = enc.idx
    <3> HIDE DEF u
    <3> QED
      BY <2>2
  <2>4. Counted(u, call.tid) = [haveKey |-> u.haveKey, index |-> u.index + 1, last |-> call.tid, recon |-> u.recon,
                                idx |-> u.idx, ctx |-> u.ctx, ctxT1 |-> u.ctxT1, hme |-> u.hme]
    BY Zenon, <1>1, <2>1, EncShapes
  <2> HIDE DEF u
  <2>5. enc'.haveKey = u.haveKey /\ enc'.recon = u.recon /\ enc'.idx = u.idx
    <3>1. CASE call.kind = "overlap"
      BY Zenon, <2>1, <3>1
    <3>2. CASE call.kind # "overlap"
      BY <2>1, <2>4, <3>2
    <3> QED
      BY Zenon, <3>1, <3>2
  <2>6. Out = OutBuffer(enc, call.tid)
    BY Zenon, <1>5 DEF Out
  <2>7. /\ call.tid = 0 => Out = IF enc.idx = 0 THEN "base0" ELSE "base1"
        /\ call.tid # 0 => Out \in {"t1", "t2"}
        /\ mode.layers = 3 /\ call.tid = 2 => Out = "t2"
    BY Zenon, <1>1, <2>6, OutFacts
  <2>8. enc.recon \in Base /\ enc.recon # Out
    BY Zenon, <1>5, RefHere
  <2>9. enc'.recon \in {"key", IF enc'.idx = 0 THEN "base1" ELSE "base0"}
    <3>1. CASE call.tid = 0
      BY <1>1, <2>3, <2>5, <2>7, <3>1
    <3>2. CASE call.tid # 0
      BY Zenon, <2>3, <2>5, <3>2 DEF Ready
    <3> QED
      BY Zenon, <3>1, <3>2
  <2>10. ASSUME NEW b \in ({enc'.recon} \cup (Kept \ Base)) PROVE Filtered(b)'
    <3>1. CASE b = Out
      <4>1. Referenced(call.tid)
        <5>1. CASE call.tid = 0
          BY Zenon, <5>1 DEF Referenced
        <5>2. CASE call.tid # 0
          <6>1. b # enc'.recon
            BY Zenon, <2>3, <2>5, <2>8, <3>1, <5>2
          <6>2. mode.layers = 3 /\ b = "t1"
            BY <6>1, <2>10 DEF Kept, Base
          <6>3. call.tid # 2
            BY <2>7, <3>1, <6>2
          <6> QED
            BY <1>1, <5>2, <6>2, <6>3 DEF Referenced
        <5> QED
          BY Zenon, <5>1, <5>2
      <4>2. planes'[b].state = "filtered" \/ (filter'.state = "running" /\ filter'.out = b)
        BY Zenon, <1>1, <3>1, <4>1, FilterFacts
      <4> QED
        BY Zenon, <4>2 DEF Filtered
    <3>2. CASE b # Out
      <4>1. b \in ({enc.recon} \cup (Kept \ Base)) \ Written
        <5>1. b \in ({enc.recon} \cup (Kept \ Base))
          BY Zenon, <2>3, <2>5, <2>10, <3>2
        <5> QED
          BY <1>2, <3>2, <5>1
      <4>2. b \in Buffers
        BY <2>8, <4>1 DEF Kept, Base, Buffers
      <4>3. planes[b].state = "filtered"
        BY Zenon, <4>1 DEF Ready, Filtered, Progress
      <4>4. planes'[b] = planes[b]
        BY Zenon, <1>1, <3>2, <4>2, FilterFacts
      <4> QED
        BY Zenon, <4>3, <4>4 DEF Filtered
    <3> QED
      BY Zenon, <3>1, <3>2
  <2>11. Ready'
    BY Zenon, <1>2, <2>9, <2>10 DEF Ready
  <2> QED
    BY Zenon, <1>2, <1>5, <2>3, <2>5, <2>8, <2>11
<1> QED
  BY Zenon, <1>4, <1>5

LEMMA StepFinishOverlap == ASSUME PipeInv, Finish, call.kind = "overlap" PROVE PipeInv'
<1>0. PipeType /\ Quiet /\ emitted \in Seq(Units \cup {None})
  BY Zenon DEF PipeInv
<1>1. /\ caller = "coding" /\ Filters /\ scratch' = [scratch EXCEPT !.main = Unit] /\ enc' = Committed /\ lastRecon' = Out
      /\ caller' = "wait" /\ UNCHANGED <<sources, srcIdx, held, call, emitted, returned>>
      /\ UNCHANGED <<heldDone, leaf, mode, sent, serial, expected, seen>>
  BY Zenon DEF Finish
<1>2. "coding" # "wait" /\ "coding" # "idle" /\ "wait" # "idle" /\ "overlap" # "none" /\ "overlap" # "drain" /\ "overlap" # "held"
      /\ "overlap" \notin {"held", "drain"} /\ "wait" \notin {"code", "coding"} /\ "wait" # "coding"
  OBVIOUS
<1>3. Source \in Nat /\ Unit \in Units /\ Unit.src = Source /\ enc' \in Encs /\ Out \in Buffers /\ Out # "leaf"
  BY Zenon, <1>0, <1>1, FinishTypes, OutType
<1>4. scratch' \in [main : Units \cup {None}, leaf : Units \cup {None}] /\ scratch'.main = Unit /\ scratch'.leaf = scratch.leaf
  BY <1>0, <1>1, <1>3 DEF PipeType, EncoderType
<1>5. /\ planes' \in [Buffers -> Pictures] /\ planes'[Out].src = Source /\ (\A b \in Buffers \ {Out} : planes'[b] = planes[b])
      /\ lazy' \in Buffers \cup {None} /\ filter' \in [state : {"off", "running", "done"}, out : Buffers]
      /\ CodesKey \/ Referenced(call.tid) =>
           /\ planes'[Out].state = "filtered" \/ (filter'.state = "running" /\ filter'.out = Out)
           /\ lazy' = None
      /\ filter' = filter \/ (filter'.state = "running" /\ filter'.out = Out)
  BY Zenon, <1>0, <1>1, <1>3, FilterFacts
<1>6. PipeType'
  <2>1. caller' \in {"idle", "join", "code", "coding", "wait"} /\ lastRecon' \in Buffers \cup {None}
    BY Zenon, <1>1, <1>3
  <2> QED
    BY Zenon, <1>0, <1>1, <1>3, <1>4, <1>5, <2>1 DEF PipeType, EncoderType, CallType, GhostType
<1>7. Quiet'
  BY Zenon, <1>0, <1>1, <1>2 DEF Quiet, ReturnedStays
<1>8. ASSUME ~mode.leafMayFail PROVE BytesInv'
  <2>0. BytesInv
    BY Zenon, <1>8 DEF PipeInv
  <2>1. /\ held.on /\ held.tid = 1 /\ ~held.key /\ mode.layers = 2 /\ enc.haveKey /\ call.tid = 0 /\ ~call.key
        /\ filter.state # "running" /\ held.tid = TemporalID(enc)
    <3>1. "coding" \in {"code", "coding"}
      OBVIOUS
    <3> QED
      BY Zenon, <1>1, <1>2, <2>0, <3>1 DEF BytesInv, Progress
  <2>2. ~CodesKey /\ Source = call.src /\ Referenced(call.tid) /\ Out = OutBuffer(enc, 0)
    BY Zenon, <2>1 DEF CodesKey, Source, Referenced, Out
  <2>3. Ready' /\ Written' = {} /\ Kept' = Kept /\ enc'.recon = Out
    BY Zenon, <1>0, <1>1, <2>0, <2>1, FinishReady DEF BytesInv
  <2>4. enc.recon \in Base /\ enc.recon # Out /\ enc.recon # "leaf"
    BY Zenon, <1>0, <2>0, <2>2, RefHere DEF BytesInv
  <2>5. /\ leaf.state # "idle" /\ leaf.buf = held.buf /\ leaf.ref = enc.recon /\ planes[leaf.ref].state = "filtered"
        /\ leaf.ctx = enc.ctx /\ leaf.hme = enc.hme[0] /\ leaf.index = enc.index
    BY Zenon, <1>1, <1>2, <2>0 DEF BytesInv, LeafInv
  <2>6. /\ enc.recon \in Buffers /\ "leaf" \in Buffers /\ planes \in [Buffers -> Pictures] /\ HeldSource \in Nat /\ call.src \in Nat
        /\ held.key \in BOOLEAN /\ call.key \in BOOLEAN /\ mode \in Modes
    BY Zenon, <1>0, TypeFacts DEF Buffers, PipeType, EncoderType
  <2>7. planes'[enc.recon] = planes[enc.recon] /\ planes'["leaf"] = planes["leaf"]
    BY Zenon, <1>3, <1>5, <2>4, <2>6
  <2>8. HeldSource' = HeldSource /\ LeafUnit' = LeafUnit
    BY Zenon, <1>1, <2>5, <2>7 DEF HeldSource, LeafUnit, InterUnit
  <2>9. Ahead'
    <3>1. PICK h \in Nat, k \in BOOLEAN, c \in Nat, d \in BOOLEAN : h = HeldSource /\ k = held.key /\ c = call.src /\ d = call.key
      BY Zenon, <2>6
    <3>2. PICK s \in Serials : Agrees(s) /\ Two(s, h, k, c, d)
      BY Zenon, <1>1, <1>2, <2>0, <3>1 DEF BytesInv, Ahead
    <3>3. s.e = enc /\ ~k /\ ~d /\ TemporalID(s.e) = 1 /\ s.e.haveKey
      BY Zenon, <2>1, <3>1, <3>2 DEF Agrees
    <3>4. PICK t : t = SerialStep(s, h, k)
      BY Zenon
    <3>5. /\ SerialUnit(s, h, k) = InterUnit(h, 1, enc.index, Picture(s.pictures[enc.recon]), enc.ctx, enc.hme[0])
          /\ t.pictures = [s.pictures EXCEPT !["t1"] = h]
          /\ SerialUnit(t, c, d) = InterUnit(c, 0, enc.index + 1, Picture(t.pictures[enc.recon]), enc.ctx, enc.hme[0])
          /\ SerialStep(t, c, d).pictures = [t.pictures EXCEPT ![Out] = c]
          /\ SerialStep(t, c, d).e = [Refreshed(enc, c, 0, Out) EXCEPT !.index = @ + 2, !.last = 0]
      <4>1. LeafThenBase(s, h, k, c, d)
        BY Zenon, <2>1, <2>6, <3>3, SerialLeaf
      <4>2. OutBuffer(s.e, 0) = Out
        BY Zenon, <2>2, <3>3
      <4> QED
        BY Zenon, <3>3, <3>4, <4>1, <4>2 DEF LeafThenBase
    <3>6. serial = SerialStep(t, c, d) /\ expected = Append(Append(emitted, SerialUnit(s, h, k)), SerialUnit(t, c, d))
      BY Zenon, <3>2, <3>4 DEF Two
    <3>7. Written = {Out} /\ Kept = Base
      BY <1>1, <2>1 DEF Written, Kept
    <3>8. \A b \in Base \ {Out} : s.pictures[b] = planes[b].src
      BY Zenon, <3>2, <3>7 DEF Agrees
    <3>9. s.pictures \in [Buffers -> Nat] /\ Base \subseteq Buffers /\ "t1" \notin Base /\ enc.recon # "t1"
      BY <2>4 DEF Serials, Base, Buffers
    <3>10. planes[enc.recon] = Picture(planes[enc.recon].src)
      BY Zenon, <2>5, <2>6, PictureIs
    <3>11. s.pictures[enc.recon] = planes[enc.recon].src /\ t.pictures[enc.recon] = planes[enc.recon].src
      <4>1. s.pictures[enc.recon] = planes[enc.recon].src
        BY <2>4, <3>8
      <4>2. t.pictures[enc.recon] = s.pictures[enc.recon]
        BY <2>6, <3>5, <3>9
      <4> QED
        BY Zenon, <4>1, <4>2
    <3>12. SerialUnit(s, h, k) = LeafUnit
      BY Zenon, <2>5, <3>1, <3>5, <3>10, <3>11 DEF LeafUnit
    <3>13. SerialUnit(t, c, d) = Unit
      <4>1. ~AfterT1(enc, 0) /\ BaseIndex = enc.index + 1
        BY <2>1 DEF AfterT1, BaseIndex
      <4>2. RefBuffer(enc, 0) = enc.recon /\ Context(enc, 0) = enc.ctx /\ SearchSource(enc, 0) = enc.hme[0]
        BY Zenon, <4>1 DEF RefBuffer, Context, SearchSource
      <4>3. Unit = InterUnit(c, 0, enc.index + 1, planes[enc.recon], enc.ctx, enc.hme[0])
        BY Zenon, <2>1, <2>2, <3>1, <4>1, <4>2 DEF Unit
      <4> QED
        BY Zenon, <3>5, <3>10, <3>11, <4>3
    <3>14. expected' = Append(Append(emitted', LeafUnit'), scratch'.main)
      BY Zenon, <1>1, <1>4, <2>8, <3>6, <3>12, <3>13
    <3>15. enc' = Refreshed(enc, c, 0, Out)
      BY Zenon, <1>1, <2>2, <3>1 DEF Committed
    <3>16. serial'.e = [enc' EXCEPT !.index = @ + 2, !.last = 0]
      BY Zenon, <1>1, <3>5, <3>6, <3>15
    <3>17. ASSUME NEW b \in Base PROVE serial'.pictures[b] = planes'[b].src
      <4>1. serial.pictures = [t.pictures EXCEPT ![Out] = c] /\ t.pictures \in [Buffers -> Nat] /\ b \in Buffers
        BY ZenonT(60), <3>5, <3>6, <3>9
      <4>2. CASE b = Out
        <5>1. serial.pictures[b] = c
          BY <4>1, <4>2
        <5> QED
          BY Zenon, <1>1, <1>5, <2>2, <3>1, <4>2, <5>1
      <4>3. CASE b # Out
        <5>1. serial.pictures[b] = s.pictures[b]
          BY <3>5, <3>9, <4>1, <4>3
        <5>2. s.pictures[b] = planes[b].src
          BY <3>8, <4>3
        <5>3. planes'[b] = planes[b]
          BY <1>5, <4>1, <4>3
        <5> QED
          BY Zenon, <1>1, <5>1, <5>2, <5>3
      <4> QED
        BY Zenon, <4>2, <4>3
    <3> QED
      BY Zenon, <1>1, <1>2, <2>3, <3>7, <3>14, <3>16, <3>17 DEF Ahead
  <2>10. Progress'
    <3>1. enc'.haveKey
      BY Zenon, <1>0, <1>1, <2>0, <2>1, FinishReady DEF BytesInv
    <3> QED
      BY Zenon, <1>1, <1>2, <2>1, <3>1 DEF Progress
  <2>11. LeafInv'
    <3>1. filter'.state = "running" => filter'.out # leaf.ref
      BY Zenon, <1>5, <2>1, <2>4, <2>5
    <3>2. (Picture(HeldSource))' = Picture(HeldSource)
      BY Zenon, <2>8 DEF Picture
    <3> QED
      BY Zenon, <1>1, <1>2, <1>4, <2>0, <2>5, <2>7, <2>8, <3>1, <3>2 DEF BytesInv, LeafInv
  <2>12. LastInv'
    <3>1. ~heldDone.on
      BY Zenon, <1>0, <1>1, <1>2 DEF Quiet
    <3> QED
      BY Zenon, <1>1, <1>2, <1>3, <1>4, <1>5, <2>2, <2>3, <3>1 DEF LastInv
  <2>13. BaseInv'
    BY Zenon, <1>1 DEF BaseInv
  <2>14. Counts' /\ ReconOfReturned'
    BY Zenon, <1>1, <2>0 DEF BytesInv, Counts, ReconOfReturned, Picture
  <2> QED
    BY Zenon, <2>3, <2>9, <2>10, <2>11, <2>12, <2>13, <2>14 DEF BytesInv
<1> QED
  BY Zenon, <1>0, <1>1, <1>6, <1>7, <1>8 DEF PipeInv

LEMMA StepFinishCall == ASSUME PipeInv, Finish, call.kind # "overlap" PROVE PipeInv'
<1>0. PipeType /\ Quiet /\ emitted \in Seq(Units \cup {None})
  BY Zenon DEF PipeInv
<1>1. /\ caller = "coding" /\ Filters /\ scratch' = [scratch EXCEPT !.main = Unit] /\ enc' = Committed /\ lastRecon' = Out
      /\ caller' = "idle" /\ call' = NoCall /\ emitted' = Append(emitted, scratch'.main) /\ returned' = "main"
      /\ IF call.kind = "held" THEN Hold(call.src, call.key, enc') ELSE UNCHANGED <<sources, srcIdx, held>>
      /\ UNCHANGED <<heldDone, leaf, mode, sent, serial, expected, seen>>
  BY Zenon DEF Finish, Return
<1>2. "coding" # "wait" /\ "coding" # "idle" /\ "wait" # "idle" /\ "idle" # "wait" /\ "none" # "drain" /\ "none" # "held" /\ "none" # "overlap"
      /\ "none" \notin {"held", "drain"} /\ "idle" \notin {"code", "coding"} /\ "idle" # "coding" /\ "idle" \notin {"code", "coding", "wait"}
      /\ "held" # "drain"
  OBVIOUS
<1>3. Source \in Nat /\ Unit \in Units /\ Unit.src = Source /\ enc' \in Encs /\ Out \in Buffers /\ Out # "leaf"
  BY Zenon, <1>0, <1>1, FinishTypes, OutType
<1>4. scratch' \in [main : Units \cup {None}, leaf : Units \cup {None}] /\ scratch'.main = Unit
  BY <1>0, <1>1, <1>3 DEF PipeType, EncoderType
<1>5. /\ planes' \in [Buffers -> Pictures] /\ planes'[Out].src = Source /\ (\A b \in Buffers \ {Out} : planes'[b] = planes[b])
      /\ lazy' \in Buffers \cup {None} /\ filter' \in [state : {"off", "running", "done"}, out : Buffers]
      /\ CodesKey \/ Referenced(call.tid) =>
           /\ planes'[Out].state = "filtered" \/ (filter'.state = "running" /\ filter'.out = Out)
           /\ lazy' = None
      /\ ~CodesKey /\ ~Referenced(call.tid) => lazy' = Out
  BY Zenon, <1>0, <1>1, <1>3, FilterFacts
<1>6. call.kind \in {"held", "drain"} /\ leaf.state = "idle" /\ ~heldDone.on /\ returned = None /\ seen = None
  <2>1. call.kind # "none" /\ leaf.state = "idle" /\ ~heldDone.on /\ returned = None /\ seen = None
    BY Zenon, <1>0, <1>1, <1>2 DEF Quiet
  <2>2. call.kind \in {"none", "held", "drain", "overlap"}
    BY Zenon, <1>0, TypeFacts
  <2> QED
    BY <2>1, <2>2
<1>7. call' \in Calls /\ call'.kind = "none"
  BY <1>1 DEF NoCall, Calls
<1>8. call.kind = "held" =>
        /\ sources' \in [0 .. 1 -> Nat] /\ srcIdx' \in 0 .. 1 /\ held' \in Helds
        /\ held'.on /\ held'.key = call.key /\ held'.tid = TemporalID(enc)' /\ HeldSource' = call.src
  <2> SUFFICES ASSUME call.kind = "held"
               PROVE  /\ sources' \in [0 .. 1 -> Nat] /\ srcIdx' \in 0 .. 1 /\ held' \in Helds
                      /\ held'.on /\ held'.key = call.key /\ held'.tid = TemporalID(enc)' /\ HeldSource' = call.src
    BY Zenon
  <2>1. PICK e \in Encs : e = enc'
    BY Zenon, <1>3
  <2>2. Hold(call.src, call.key, e)
    BY Zenon, <1>1, <2>1
  <2>3. call.src \in Nat /\ call.key \in BOOLEAN
    BY Zenon, <1>0, TypeFacts
  <2>4. /\ sources' \in [0 .. 1 -> Nat] /\ srcIdx' \in 0 .. 1 /\ held' \in Helds
        /\ held'.on /\ held'.key = call.key /\ held'.tid = TemporalID(e) /\ HeldSource' = call.src
    BY Zenon, <1>0, <2>2, <2>3, Holds
  <2>5. TemporalID(e) = TemporalID(enc)'
    BY Zenon, <1>1, <2>1 DEF TemporalID
  <2> QED
    BY Zenon, <2>4, <2>5
<1>9. call.kind # "held" => UNCHANGED <<sources, srcIdx, held>>
  BY Zenon, <1>1
<1>10. /\ emitted' \in Seq(Units \cup {None}) /\ emitted' # <<>> /\ emitted'[Len(emitted')] = Unit /\ Len(emitted') \in DOMAIN emitted'
       /\ \A i \in DOMAIN emitted : i \in DOMAIN emitted' /\ emitted'[i] = emitted[i]
  <2>1. Unit \in Units \cup {None} /\ emitted' = Append(emitted, Unit)
    BY Zenon, <1>1, <1>3, <1>4
  <2> QED
    BY <1>0, <2>1, AppendFacts
<1>11. PipeType'
  <2>1. caller' \in {"idle", "join", "code", "coding", "wait"} /\ lastRecon' \in Buffers \cup {None}
    BY Zenon, <1>1, <1>3
  <2>2. sources' \in [0 .. 1 -> Nat] /\ srcIdx' \in 0 .. 1 /\ held' \in Helds
    BY Zenon, <1>0, <1>8, <1>9 DEF PipeType, EncoderType
  <2> QED
    BY Zenon, <1>0, <1>1, <1>3, <1>4, <1>5, <1>7, <2>1, <2>2 DEF PipeType, EncoderType, CallType, GhostType
<1>12. Quiet'
  BY Zenon, <1>1, <1>2, <1>4, <1>6, <1>7, <1>10 DEF Quiet, ReturnedStays
<1>13. ASSUME ~mode.leafMayFail PROVE BytesInv'
  <2>0. BytesInv /\ Ready /\ Progress
    BY Zenon, <1>13 DEF PipeInv, BytesInv
  <2>1. /\ Ready' /\ Written' = {} /\ Kept' = Kept
        /\ CodesKey \/ call.tid = 0 => enc'.recon = Out
        /\ ~(CodesKey \/ call.tid = 0) => enc'.recon = enc.recon /\ enc.recon # Out
        /\ enc'.haveKey <=> CodesKey \/ enc.haveKey
    BY Zenon, <1>0, <1>1, <2>0, FinishReady
  <2>2. PICK h \in Nat, k \in BOOLEAN : h = HeldSource /\ k = held.key
    BY Zenon, <1>0, TypeFacts
  <2>3. mode \in Modes /\ ~held.on
    BY Zenon, <1>0, <1>6, <2>0 DEF PipeType, EncoderType, Progress
  <2>4. ASSUME NEW s \in Serials, Agrees(s)
        PROVE  SerialUnit(s, h, k) = Unit /\ Agrees(SerialStep(s, h, k))' /\ SerialStep(s, h, k) \in Serials
    <3>1. /\ SerialUnit(s, h, k) = Unit /\ SerialStep(s, h, k).e = Committed
          /\ SerialStep(s, h, k).pictures = [s.pictures EXCEPT ![Out] = Source]
      <4>1. SerialSame(s, h, k)
        BY Zenon, <1>0, <1>1, <1>6, <2>0, <2>2, <2>4, SerialCall
      <4> QED
        BY Zenon, <4>1 DEF SerialSame
    <3>2. PICK t : t = SerialStep(s, h, k)
      BY Zenon
    <3>3. t \in Serials
      BY Zenon, <2>3, <3>2, SerialTypes
    <3>4. t.e = enc' /\ t.pictures = [s.pictures EXCEPT ![Out] = Source]
      BY Zenon, <1>1, <3>1, <3>2
    <3>5. Written = {Out} /\ Kept \subseteq Buffers /\ s.pictures \in [Buffers -> Nat]
      BY <1>1 DEF Written, Kept, Base, Buffers, Serials
    <3>6. ASSUME NEW b \in Kept PROVE t.pictures[b] = planes'[b].src
      <4>1. CASE b = Out
        <5>1. t.pictures[b] = Source
          BY <3>4, <3>5, <4>1
        <5> QED
          BY Zenon, <1>5, <4>1, <5>1
      <4>2. CASE b # Out
        <5>1. t.pictures[b] = s.pictures[b] /\ b \in Kept \ Written /\ b \in Buffers \ {Out}
          BY <3>4, <3>5, <4>2
        <5> QED
          BY Zenon, <1>5, <2>4, <5>1 DEF Agrees
      <4> QED
        BY Zenon, <4>1, <4>2
    <3>7. Agrees(t)'
      BY Zenon, <2>1, <3>3, <3>4, <3>6 DEF Agrees
    <3>8. SerialStep(s, h, k)' = t
      BY Zenon, <1>1, <3>2, SameEncoder
    <3>9. Agrees(SerialStep(s, h, k))'
      BY Zenon, <3>7, <3>8 DEF Agrees
    <3> QED
      BY Zenon, <3>1, <3>2, <3>3, <3>9
  <2>5. Ahead'
    <3>1. CASE call.kind = "drain"
      <4>1. PICK s \in Serials : Agrees(s) /\ One(s, h, k)
        BY Zenon, <2>0, <2>2, <3>1 DEF BytesInv, Ahead
      <4>2. SerialUnit(s, h, k) = Unit /\ Agrees(SerialStep(s, h, k))'
        BY Zenon, <2>4, <4>1
      <4>3. serial = SerialStep(s, h, k) /\ expected = Append(emitted, Unit)
        BY Zenon, <4>1, <4>2 DEF One
      <4>4. SerialStep(s, h, k)' = serial'
        BY Zenon, <1>1, <4>3, SameEncoder
      <4>5. Agrees(serial)'
        BY Zenon, <4>2, <4>4 DEF Agrees
      <4>6. expected' = emitted' /\ ~heldDone'.on /\ ~held'.on
        BY Zenon, <1>1, <1>2, <1>4, <1>6, <1>9, <2>3, <3>1, <4>3
      <4> QED
        BY Zenon, <1>1, <1>2, <1>7, <4>5, <4>6 DEF Ahead
    <3>2. CASE call.kind = "held"
      <4>0. PICK c, d : c = call.src /\ d = call.key
        BY Zenon
      <4>1. PICK s \in Serials : Agrees(s) /\ Two(s, h, k, c, d)
        BY Zenon, <2>0, <2>2, <3>2, <4>0 DEF BytesInv, Ahead
      <4>2. SerialUnit(s, h, k) = Unit /\ Agrees(SerialStep(s, h, k))' /\ SerialStep(s, h, k) \in Serials
        BY Zenon, <2>4, <4>1
      <4>3. PICK t \in Serials : t = SerialStep(s, h, k)
        BY Zenon, <4>2
      <4>4. serial = SerialStep(t, c, d) /\ expected = Append(Append(emitted, Unit), SerialUnit(t, c, d))
        BY Zenon, <4>1, <4>2, <4>3 DEF Two
      <4>5. SerialStep(s, h, k)' = t /\ SerialStep(t, c, d)' = SerialStep(t, c, d) /\ SerialUnit(t, c, d)' = SerialUnit(t, c, d)
        BY Zenon, <1>1, <4>3, SameEncoder
      <4>6. Agrees(t)'
        BY Zenon, <4>2, <4>5 DEF Agrees
      <4>7. One(t, c, d)'
        BY Zenon, <1>1, <1>4, <4>4, <4>5 DEF One
      <4>8. held'.on /\ HeldSource' = c /\ held'.key = d
        BY Zenon, <1>8, <3>2, <4>0
      <4>9. One(t, HeldSource, held.key)'
        BY Zenon, <4>7, <4>8 DEF One
      <4> QED
        BY Zenon, <1>1, <1>2, <1>7, <4>6, <4>8, <4>9 DEF Ahead
    <3> QED
      BY Zenon, <1>6, <3>1, <3>2
  <2>6. Progress'
    <3>1. held'.on => held'.tid = TemporalID(enc)'
      BY Zenon, <1>8, <1>9, <2>3
    <3> QED
      BY Zenon, <1>1, <1>2, <1>7, <3>1 DEF Progress
  <2>7. LeafInv'
    <3>1. "idle" # "coding" /\ "idle" # "done"
      OBVIOUS
    <3> QED
      BY Zenon, <1>1, <1>2, <1>6, <2>0, <3>1 DEF BytesInv, LeafInv
  <2>8. LastInv'
    <3>1. planes'[lastRecon'].src = emitted'[Len(emitted')].src /\ lastRecon' \in Buffers
      BY Zenon, <1>1, <1>3, <1>5, <1>10
    <3>2. Filtered(lastRecon)' \/ lazy' = lastRecon'
      <4>1. CASE CodesKey \/ Referenced(call.tid)
        BY Zenon, <1>1, <1>5, <4>1 DEF Filtered
      <4>2. CASE ~CodesKey /\ ~Referenced(call.tid)
        BY Zenon, <1>1, <1>5, <4>2
      <4> QED
        BY Zenon, <4>1, <4>2
    <3> QED
      BY Zenon, <1>1, <1>2, <1>6, <3>1, <3>2 DEF LastInv
  <2>9. BaseInv'
    <3>1. CASE CodesKey \/ call.tid = 0
      <4>1. emitted'[Len(emitted')].src = planes'[enc'.recon].src
        BY Zenon, <1>3, <1>5, <1>10, <2>1, <3>1
      <4> QED
        BY Zenon, <1>10, <4>1 DEF BaseInv
    <3>2. CASE ~(CodesKey \/ call.tid = 0)
      <4>1. enc.recon \in Buffers
        BY Zenon, <1>0, TypeFacts
      <4>2. planes'[enc'.recon] = planes[enc.recon] /\ (enc'.haveKey <=> enc.haveKey)
        BY Zenon, <1>5, <2>1, <3>2, <4>1
      <4>3. enc.haveKey => \E i \in DOMAIN emitted : emitted[i].src = planes[enc.recon].src
        BY Zenon, <1>1, <1>2, <1>6, <2>0, <3>2 DEF BytesInv, BaseInv
      <4> QED
        BY Zenon, <1>10, <4>2, <4>3 DEF BaseInv
    <3> QED
      BY Zenon, <3>1, <3>2
  <2>10. Counts' /\ ReconOfReturned'
    BY Zenon, <1>1, <1>6, <2>0 DEF BytesInv, Counts, ReconOfReturned
  <2> QED
    BY Zenon, <2>1, <2>5, <2>6, <2>7, <2>8, <2>9, <2>10 DEF BytesInv
<1> QED
  BY Zenon, <1>1, <1>10, <1>11, <1>12, <1>13 DEF PipeInv

LEMMA PipeInitInv == ASSUME PipeInit PROVE PipeInv
<1>1. /\ mode \in Modes /\ enc = Fresh /\ planes = [b \in Buffers |-> Picture(0)]
      /\ sources = [i \in 0 .. 1 |-> 0] /\ srcIdx = 0
      /\ held = NothingHeld /\ heldDone = [on |-> FALSE, recon |-> "key"] /\ scratch = [main |-> None, leaf |-> None]
      /\ filter = [state |-> "off", out |-> "key"] /\ lazy = None /\ lastRecon = None
      /\ leaf = Idle /\ caller = "idle" /\ call = NoCall /\ sent = 0 /\ emitted = <<>> /\ returned = None
      /\ serial = [e |-> Fresh, pictures |-> [b \in Buffers |-> 0]] /\ expected = <<>> /\ seen = None
  BY Zenon DEF PipeInit
<1>2. Fresh \in Encs /\ ~Fresh.haveKey /\ Fresh.recon = "key"
  BY DEF Fresh, Encs, Buffers
<1>3. Picture(0) \in Pictures /\ Picture(0).src = 0 /\ Picture(0).state = "filtered" /\ "key" \in Buffers
  BY DEF Picture, Pictures, Buffers
<1>4. EncoderType
  BY <1>1, <1>2, <1>3 DEF EncoderType, Helds, NothingHeld
<1>5. CallType
  BY <1>1, <1>3 DEF CallType, Idle, Leaves, NoCall, Calls
<1>6. serial \in Serials /\ serial.e = enc /\ serial.pictures = [b \in Buffers |-> 0]
  BY <1>1, <1>2 DEF Serials
<1>7. GhostType /\ emitted \in Seq(Units \cup {None}) /\ Len(expected) = 0
  BY <1>1, <1>6 DEF GhostType
<1>8. leaf.state = "idle" /\ ~leaf.failed /\ call.kind = "none" /\ ~held.on /\ ~heldDone.on
  BY <1>1 DEF Idle, NoCall, NothingHeld
<1>9. "idle" # "wait" /\ "idle" # "coding" /\ "idle" # "done" /\ "idle" \notin {"code", "coding", "wait"} /\ "idle" \notin {"code", "coding"}
      /\ "none" # "drain" /\ "none" # "held" /\ "none" # "overlap" /\ "none" \notin {"held", "drain"}
  OBVIOUS
<1>10. Quiet
  BY Zenon, <1>1, <1>8, <1>9 DEF Quiet, ReturnedStays
<1>11. Written = {} /\ Kept \subseteq Buffers
  BY <1>1 DEF Written, Kept, Base, Buffers
<1>12. \A b \in Buffers : planes[b] = Picture(0) /\ serial.pictures[b] = planes[b].src
  BY <1>1, <1>3, <1>6
<1>13. Agrees(serial)
  BY <1>6, <1>11, <1>12 DEF Agrees
<1>14. Ahead
  BY Zenon, <1>1, <1>8, <1>9, <1>13 DEF Ahead
<1>15. Progress
  BY Zenon, <1>1, <1>8, <1>9 DEF Progress
<1>16. Ready
  <2>1. \A b \in Buffers : Filtered(b)
    BY Zenon, <1>3, <1>12 DEF Filtered
  <2>2. enc.recon = "key"
    BY Zenon, <1>1, <1>2
  <2> QED
    BY <1>3, <1>11, <2>1, <2>2 DEF Ready
<1>17. LeafInv /\ LastInv /\ ReconOfReturned
  BY Zenon, <1>1, <1>8, <1>9 DEF LeafInv, LastInv, ReconOfReturned
<1>18. BaseInv /\ Counts
  BY Zenon, <1>1, <1>2, <1>7 DEF BaseInv, Counts
<1> QED
  BY Zenon, <1>4, <1>5, <1>7, <1>10, <1>14, <1>15, <1>16, <1>17, <1>18 DEF PipeInv, PipeType, BytesInv

LEMMA PipeStep == ASSUME PipeInv, [PipeNext]_pipeVars PROVE PipeInv'
<1>1. CASE UNCHANGED pipeVars
  <2>1. /\ UNCHANGED <<mode, enc, planes, sources, srcIdx, held, heldDone, scratch, filter, lazy, lastRecon, leaf, caller, call>>
        /\ UNCHANGED <<sent, emitted, returned, serial, expected, seen>>
    BY Zenon, <1>1 DEF pipeVars, own
  <2>2. PipeType' /\ Quiet' /\ emitted' \in Seq(Units \cup {None})
    BY ZenonT(60), <2>1 DEF PipeInv, PipeType, EncoderType, CallType, GhostType, Quiet, ReturnedStays
  <2>3. ASSUME ~mode.leafMayFail PROVE BytesInv'
    <3>0. BytesInv
      BY Zenon, <2>3 DEF PipeInv
    <3>1. Kept' = Kept /\ Written' = Written /\ CodesKey' = CodesKey /\ HeldSource' = HeldSource /\ LeafUnit' = LeafUnit
      BY Zenon, <2>1 DEF Kept, Written, Out, CodesKey, OutBuffer, HeldSource, LeafUnit, InterUnit
    <3>2. caller = "wait" => Written' = {}
      BY <3>1 DEF Written
    <3>3. StateKept /\ PlanesKept
      BY Zenon, <2>1, <3>1 DEF StateKept, PlanesKept
    <3>4. Ahead'
      BY Zenon, <3>0, <3>1, <3>2, <3>3, AheadKept DEF BytesInv
    <3>5. Progress' /\ Counts' /\ ReconOfReturned'
      BY Zenon, <2>1, <3>0 DEF BytesInv, Progress, TemporalID, Counts, ReconOfReturned, Picture
    <3>6. Ready' /\ LastInv'
      BY Zenon, <2>1, <3>0, <3>1 DEF BytesInv, Ready, LastInv, Filtered
    <3>7. BaseInv'
      BY Zenon, <2>1, <3>0, <3>1 DEF BytesInv, BaseInv
    <3>8. LeafInv'
      BY Zenon, <2>1, <3>0, <3>1 DEF BytesInv, LeafInv, Picture
    <3> QED
      BY Zenon, <3>4, <3>5, <3>6, <3>7, <3>8 DEF BytesInv
  <2> QED
    BY Zenon, <2>1, <2>2, <2>3 DEF PipeInv
<1>2. CASE \E key \in BOOLEAN : EncodeThroughput(key)
  BY Zenon, <1>2, StepEncodeThroughput
<1>3. CASE Finish
  BY Zenon, <1>3, StepFinishOverlap, StepFinishCall
<1>4. CASE Drain \/ Join \/ Code \/ Collect \/ Recon \/ LeafStart \/ LeafEnd \/ LeafFails \/ FilterEnd
  BY Zenon, <1>4, StepDrain, StepJoin, StepCode, StepCollect, StepRecon, StepLeafStart, StepLeafEnd, StepLeafFails, StepFilterEnd
<1> QED
  BY Zenon, <1>1, <1>2, <1>3, <1>4 DEF PipeNext

\* The units returned are the first the serial encoder returns.
LEMMA OutInOrder ==
  ASSUME PipeInv, ~mode.leafMayFail
  PROVE  Identical /\ OneBehind
<1>0. PipeType /\ Quiet /\ emitted \in Seq(Units \cup {None}) /\ BytesInv /\ expected \in Seq(Units)
  BY Zenon DEF PipeInv, PipeType, GhostType
<1>1. \A x \in Units \cup {None} : LET q == Append(emitted, x) IN
        /\ q \in Seq(Units \cup {None}) /\ Len(q) = Len(emitted) + 1
        /\ \A i \in DOMAIN emitted : i \in DOMAIN q /\ q[i] = emitted[i]
  BY <1>0, AppendFacts
<1>2. \A x, y \in Units \cup {None} : LET q == Append(Append(emitted, x), y) IN
        \A i \in DOMAIN emitted : i \in DOMAIN q /\ q[i] = emitted[i]
  <2> SUFFICES ASSUME NEW x \in Units \cup {None}, NEW y \in Units \cup {None}, NEW i \in DOMAIN emitted
               PROVE  i \in DOMAIN Append(Append(emitted, x), y) /\ Append(Append(emitted, x), y)[i] = emitted[i]
    BY Zenon
  <2>1. Append(emitted, x) \in Seq(Units \cup {None}) /\ i \in DOMAIN Append(emitted, x) /\ Append(emitted, x)[i] = emitted[i]
    BY Zenon, <1>1
  <2>2. PICK p \in Seq(Units \cup {None}) : p = Append(emitted, x)
    BY Zenon, <2>1
  <2>3. i \in DOMAIN Append(p, y) /\ Append(p, y)[i] = p[i]
    BY <2>1, <2>2, AppendFacts
  <2> QED
    BY Zenon, <2>1, <2>2, <2>3
<1>3. /\ HeldSource \in Nat /\ held.key \in BOOLEAN /\ call.src \in Nat /\ call.key \in BOOLEAN /\ mode \in Modes
      /\ scratch.main \in Units \cup {None} /\ Len(expected) = sent /\ Len(emitted) \in Nat /\ sent \in Nat
  <2>1. HeldSource \in Nat /\ held.key \in BOOLEAN /\ call.src \in Nat /\ call.key \in BOOLEAN /\ mode \in Modes
    BY Zenon, <1>0, TypeFacts DEF PipeType, EncoderType
  <2>2. scratch.main \in Units \cup {None} /\ Len(emitted) \in Nat /\ sent \in Nat
    BY <1>0 DEF PipeType, EncoderType, GhostType
  <2> QED
    BY Zenon, <1>0, <2>1, <2>2 DEF BytesInv, Counts
<1>4. CASE call.kind = "none" /\ ~held.on
  <2>1. expected = IF heldDone.on THEN Append(emitted, scratch.main) ELSE emitted
    BY Zenon, <1>0, <1>4 DEF BytesInv, Ahead
  <2>2. Identical
    <3>1. CASE heldDone.on
      BY Zenon, <1>1, <1>3, <2>1, <3>1 DEF Identical
    <3>2. CASE ~heldDone.on
      BY Zenon, <2>1, <3>2 DEF Identical
    <3> QED
      BY Zenon, <3>1, <3>2
  <2>3. Len(expected) = Len(emitted) + (IF held.on \/ heldDone.on THEN 1 ELSE 0)
    <3>1. CASE heldDone.on
      <4>1. Len(expected) = Len(emitted) + 1
        BY Zenon, <1>1, <1>3, <2>1, <3>1
      <4> QED
        BY <3>1, <4>1
    <3>2. CASE ~heldDone.on
      BY <1>3, <1>4, <2>1, <3>2
    <3> QED
      BY Zenon, <3>1, <3>2
  <2> QED
    BY Zenon, <1>3, <2>2, <2>3 DEF OneBehind
<1>5. CASE (call.kind = "none" /\ held.on) \/ call.kind = "drain"
  <2>1. PICK s \in Serials : One(s, HeldSource, held.key)
    BY Zenon, <1>0, <1>5 DEF BytesInv, Ahead
  <2>2. SerialUnit(s, HeldSource, held.key) \in Units \cup {None}
    <3>1. SerialUnit(s, HeldSource, held.key) \in Units
      BY Zenon, <1>3, SerialTypes
    <3> QED
      BY Zenon, <3>1
  <2>3. Identical /\ Len(expected) = Len(emitted) + 1
    BY Zenon, <1>1, <2>1, <2>2 DEF Identical, One
  <2>4. OneBehind
    <3>1. caller = "idle" => held.on
      <4>1. "drain" # "none"
        OBVIOUS
      <4> QED
        BY Zenon, <1>0, <1>5, <4>1 DEF Quiet
    <3> QED
      BY <1>3, <2>3, <3>1 DEF OneBehind
  <2> QED
    BY Zenon, <2>3, <2>4
<1>6. CASE call.kind = "held" \/ (call.kind = "overlap" /\ caller # "wait")
  <2>1. PICK s \in Serials : Two(s, HeldSource, held.key, call.src, call.key)
    BY Zenon, <1>0, <1>6 DEF BytesInv, Ahead
  <2>2. PICK t : t = SerialStep(s, HeldSource, held.key)
    BY Zenon
  <2>3. t \in Serials /\ SerialUnit(s, HeldSource, held.key) \in Units
    BY Zenon, <1>3, <2>2, SerialTypes
  <2>4. SerialUnit(t, call.src, call.key) \in Units
    BY Zenon, <1>3, <2>3, SerialTypes
  <2>5. expected = Append(Append(emitted, SerialUnit(s, HeldSource, held.key)), SerialUnit(t, call.src, call.key))
    BY Zenon, <2>1, <2>2 DEF Two
  <2>6. SerialUnit(s, HeldSource, held.key) \in Units \cup {None} /\ SerialUnit(t, call.src, call.key) \in Units \cup {None}
    BY Zenon, <2>3, <2>4
  <2>7. Identical
    BY Zenon, <1>2, <2>5, <2>6 DEF Identical
  <2>8. caller # "idle"
    <3>1. "held" # "none" /\ "overlap" # "none"
      OBVIOUS
    <3> QED
      BY Zenon, <1>0, <1>6, <3>1 DEF Quiet
  <2> QED
    BY Zenon, <2>7, <2>8 DEF OneBehind
<1>7. CASE caller = "wait"
  <2>1. expected = Append(Append(emitted, LeafUnit), scratch.main)
    BY Zenon, <1>0, <1>7 DEF BytesInv, Ahead
  <2>2. LeafUnit \in Units \cup {None}
    <3>1. planes[leaf.ref] \in Pictures /\ leaf.index \in Nat /\ leaf.ctx \in Nat /\ leaf.hme \in Nat /\ 1 \in 0 .. 2
      <4>1. planes \in [Buffers -> Pictures] /\ leaf.ref \in Buffers /\ leaf.index \in Nat /\ leaf.ctx \in Nat /\ leaf.hme \in Nat
        BY Zenon, <1>0, TypeFacts
      <4> QED
        BY <4>1
    <3>2. LeafUnit \in Units
      BY Zenon, <1>3, <3>1, UnitTypes DEF LeafUnit
    <3> QED
      BY Zenon, <3>2
  <2>3. Identical
    BY Zenon, <1>2, <1>3, <2>1, <2>2 DEF Identical
  <2>4. "wait" # "idle"
    OBVIOUS
  <2> QED
    BY Zenon, <1>7, <2>3, <2>4 DEF OneBehind
<1> QED
  <2>1. call.kind \in {"none", "held", "drain", "overlap"}
    BY Zenon, <1>0, TypeFacts
  <2> QED
    BY Zenon, <1>4, <1>5, <1>6, <1>7, <2>1

LEMMA PipeInvImplies == ASSUME PipeInv PROVE SameBytes /\ ReferenceReturned
<1>1. SameBytes
  BY Zenon, OutInOrder DEF SameBytes, PipeInv, BytesInv
<1>2. ReturnedStays
  BY Zenon DEF PipeInv, Quiet
<1>3. ASSUME ~mode.leafMayFail PROVE BaseReturned
  <2>1. BaseInv /\ LastInv
    BY Zenon, <1>3 DEF PipeInv, BytesInv
  <2>2. "idle" # "wait" /\ "idle" # "coding"
    OBVIOUS
  <2> QED
    BY Zenon, <2>1, <2>2 DEF BaseReturned, BaseInv, LastInv
<1> QED
  BY Zenon, <1>1, <1>2, <1>3 DEF ReferenceReturned

LEMMA PipeInvariant == PipeSpec => []PipeInv
BY PipeInitInv, PipeStep, PTL DEF PipeSpec

\* EncodeThroughput and Drain return, unit by unit, what Encode returns for
\* the same sources and key requests, one frame late at most, and Recon()
\* the finished picture of the unit returned last (video_pipeline.go), in
\* every configuration and for every number of frames.
THEOREM ThroughputIsSerial == PipeSpec => []SameBytes
BY PipeInvariant, PipeInvImplies, PTL

\* The base that later frames refer to was returned or is the unit held
\* back, and a returned slice stays as it was until the next call
\* (encodeOverlap, tuScratch and leafTuScratch).
THEOREM BasesAreReturned == PipeSpec => []ReferenceReturned
BY PipeInvariant, PipeInvImplies, PTL

=============================================================================
