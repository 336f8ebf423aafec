------------------------- MODULE SerialDecodeProofs --------------------------
(***************************************************************************)
(* Proofs about SerialDecode: no surface is lost, a new sequence with a    *)
(* key frame is decoded after any failure, and the parser and the surfaces *)
(* agree on the references as long as nothing failed.                      *)
(***************************************************************************)
EXTENDS SerialDecode, FiniteSetTheorems, TLAPS

Frames == [id : Nat, key : BOOLEAN, inter : BOOLEAN, show : BOOLEAN, refresh : SUBSET Slots, refs : SUBSET Slots]
Refs == [id : Nat, key : BOOLEAN, showable : BOOLEAN]
Streams == [have : BOOLEAN, header : BOOLEAN, frame : Frames, next : Nat, refs : [Slots -> Refs]]
Kinds == {"sequence", "delimiter", "header", "redundant", "ignored", "frame", "tiles", "existing"}
EventSet == [kind : Kinds, frame : Frames, tiles : SUBSET (1 .. Tiles), slot : Slots \cup {None}, new : BOOLEAN]
ProperEvents == {e \in EventSet : (e.kind = "existing" => e.slot \in Slots) /\ (e.new => e.kind = "sequence")}
UnitKinds == {"sequence", "delimiter", "header", "redundant", "frame", "key", "tiles", "existing", "corrupt"}
Units == [kind : UnitKinds, last : BOOLEAN]
SlotMaps == [Slots -> Surfaces \cup {None}]
Works == [active : BOOLEAN, surface : Surfaces \cup {None}, inter : BOOLEAN, parts : SUBSET (Nat \X Nat)]
Outs == [surface : Surfaces, frame : Int]
States == [ok : BOOLEAN, work : Works, slots : SlotMaps, unused : SUBSET Surfaces,
           content : [Surfaces -> Int], out : SUBSET Outs]

TypeInv ==
  /\ phase \in {"idle", "parse", "run"}
  /\ stream \in Streams
  /\ events \in Seq(ProperEvents)
  /\ work \in Works
  /\ slots \in SlotMaps
  /\ unused \in SUBSET Surfaces
  /\ content \in [Surfaces -> Int]
  /\ shown \in SUBSET Surfaces
  /\ out \in SUBSET Outs
  /\ result \in {"ok", "unparsed", "refused", "empty", "failed"}
  /\ pushed \in Seq(Units)
  /\ sent \in Nat
  /\ tainted \in BOOLEAN

-----------------------------------------------------------------------------
(* What the operations on the surfaces do, for any state d of the decoder. *)

UnderWay(d) == IF d.work.active THEN {d.work.surface} ELSE {}
Drawn(d) == {o.surface : o \in d.out}

\* A surface has one owner.
Owned(d) ==
  /\ Range(d.slots) \cap d.unused = {}
  /\ d.work.active => d.work.surface \in Surfaces \ (d.unused \cup Range(d.slots))

\* A surface has an owner.
Reached(d) == Surfaces \ d.unused \subseteq Range(d.slots) \cup UnderWay(d) \cup Drawn(d)

LEMMA RangeOf ==
  ASSUME NEW f \in SlotMaps
  PROVE  /\ Range(f) \subseteq Surfaces \cup {None}
         /\ \A x : x \in Range(f) <=> \E s \in Slots : f[s] = x
BY Zenon DEF SlotMaps, Range

\* FrameWorkState.Abort returns the surface of the frame under way.
LEMMA AbortFacts ==
  ASSUME NEW d \in States, Owned(d), d.ok
  PROVE  /\ Abort(d) \in States /\ Abort(d).ok /\ ~Abort(d).work.active
         /\ Abort(d).slots = d.slots /\ Abort(d).content = d.content /\ Abort(d).out = d.out
         /\ Abort(d).unused = d.unused \cup UnderWay(d)
<1>1. CASE ~d.work.active
  BY Zenon, <1>1 DEF Abort, UnderWay, States
<1>2. CASE d.work.active
  <2>1. Freed(d, {d.work.surface}) = [d EXCEPT !.unused = @ \cup {d.work.surface}]
    BY Zenon, <1>2 DEF Freed, Owned
  <2>2. Freed(d, {d.work.surface}).ok
    BY Zenon, <2>1 DEF States
  <2>3. Abort(d) = [[d EXCEPT !.unused = @ \cup {d.work.surface}] EXCEPT !.work = Idle]
    BY Zenon, <1>2, <2>1, <2>2 DEF Abort
  <2>4. Idle \in Works /\ ~Idle.active
    BY Zenon DEF Idle, Works
  <2>5. d.work.surface \in Surfaces
    BY Zenon, <1>2 DEF Owned
  <2>6. Abort(d) = [d EXCEPT !.unused = @ \cup {d.work.surface}, !.work = Idle]
    BY Zenon, <2>3 DEF States
  <2>7. /\ Abort(d).ok = d.ok /\ Abort(d).work = Idle /\ Abort(d).slots = d.slots
        /\ Abort(d).content = d.content /\ Abort(d).out = d.out
        /\ Abort(d).unused = d.unused \cup {d.work.surface}
    BY Zenon, <2>6 DEF States
  <2>8. Abort(d) \in States
    BY ZenonT(60), <2>4, <2>5, <2>6 DEF States
  <2> QED
    BY Zenon, <1>2, <2>4, <2>7, <2>8 DEF UnderWay
<1> QED
  BY Zenon, <1>1, <1>2

\* SurfaceReferences.apply and the release behind it never fail.
LEMMA ApplyFacts ==
  ASSUME NEW d \in States, Owned(d), d.ok, NEW next \in SlotMaps
  PROVE  /\ Apply(d, next) = [d EXCEPT !.unused = @ \cup ((Range(d.slots) \ Range(next)) \ {None}), !.slots = next]
         /\ Apply(d, next) \in States /\ Apply(d, next).ok
         /\ Apply(d, next).slots = next
         /\ Apply(d, next).unused = d.unused \cup ((Range(d.slots) \ Range(next)) \ {None})
         /\ Apply(d, next).work = d.work /\ Apply(d, next).content = d.content /\ Apply(d, next).out = d.out
<1> DEFINE gone == (Range(d.slots) \ Range(next)) \ {None}
<1>1. gone \cap d.unused = {} /\ gone \subseteq Surfaces
  <2>1. d.slots \in SlotMaps
    BY Zenon DEF States
  <2> QED
    BY Zenon, <2>1, RangeOf DEF Owned
<1>2. Freed(d, gone) = [d EXCEPT !.unused = @ \cup gone]
  BY Zenon, <1>1 DEF Freed
<1>3. Freed(d, gone).ok
  BY Zenon, <1>2 DEF States
<1>4. Apply(d, next) = [[d EXCEPT !.unused = @ \cup gone] EXCEPT !.slots = next]
  BY Zenon, <1>2, <1>3 DEF Apply
<1> HIDE DEF gone
<1>5. /\ Apply(d, next) = [d EXCEPT !.unused = @ \cup gone, !.slots = next]
      /\ Apply(d, next) \in States
      /\ Apply(d, next).ok /\ Apply(d, next).slots = next /\ Apply(d, next).unused = d.unused \cup gone
      /\ Apply(d, next).work = d.work /\ Apply(d, next).content = d.content /\ Apply(d, next).out = d.out
  BY Zenon, <1>1, <1>4 DEF States
<1> QED
  BY Zenon, <1>5 DEF gone

\* The number a finished frame leaves in its surface.
Decoded(d, f) == IF d.work.parts = {<<f.id, t>> : t \in 1 .. Tiles} THEN f.id ELSE -f.id

\* FrameWorkState.Finish
LEMMA FinishFacts ==
  ASSUME NEW d \in States, Owned(d), d.ok, d.work.active, NEW f \in Frames
  PROVE  /\ Finish(d, f) \in States /\ Finish(d, f).ok /\ Finish(d, f).work = Idle
         /\ Refreshed(d, f, d.work.surface) \in SlotMaps
         /\ Finish(d, f).slots = Refreshed(d, f, d.work.surface)
         /\ Finish(d, f).unused = d.unused \cup ((Range(d.slots) \ Range(Refreshed(d, f, d.work.surface))) \ {None})
         /\ Finish(d, f).content = [d.content EXCEPT ![d.work.surface] = Decoded(d, f)]
         /\ Finish(d, f).out = IF f.show THEN d.out \cup {[surface |-> d.work.surface, frame |-> Decoded(d, f)]} ELSE d.out
         /\ Decoded(d, f) \in Int
<1> DEFINE next == Refreshed(d, f, d.work.surface)
           r == Apply(d, next)
<1>1. d.work.surface \in Surfaces
  BY Zenon DEF Owned
<1>2. next \in SlotMaps
  BY Zenon, <1>1 DEF Refreshed, SlotMaps, States
<1>3. /\ r \in States /\ r.ok /\ r.slots = next
      /\ r.unused = d.unused \cup ((Range(d.slots) \ Range(next)) \ {None})
      /\ r.work = d.work /\ r.content = d.content /\ r.out = d.out
  BY Zenon, <1>2, ApplyFacts
<1>4. Decoded(d, f) \in Int
  BY DEF Decoded, Frames
<1>5. Finish(d, f) = [r EXCEPT !.work = Idle, !.content[d.work.surface] = Decoded(d, f),
                              !.out = IF f.show THEN @ \cup {[surface |-> d.work.surface, frame |-> Decoded(d, f)]} ELSE @]
  BY Zenon, <1>3 DEF Finish, Decoded
<1>6. Idle \in Works
  BY Zenon DEF Idle, Works
<1> HIDE DEF r, next
<1>7. [r.content EXCEPT ![d.work.surface] = Decoded(d, f)] \in [Surfaces -> Int]
  BY Zenon, <1>1, <1>3, <1>4 DEF States
<1>8. [surface |-> d.work.surface, frame |-> Decoded(d, f)] \in Outs
  BY Zenon, <1>1, <1>4 DEF Outs
<1>9. /\ Finish(d, f).ok = r.ok /\ Finish(d, f).work = Idle /\ Finish(d, f).slots = r.slots
      /\ Finish(d, f).unused = r.unused
      /\ Finish(d, f).content = [r.content EXCEPT ![d.work.surface] = Decoded(d, f)]
      /\ Finish(d, f).out = IF f.show THEN r.out \cup {[surface |-> d.work.surface, frame |-> Decoded(d, f)]} ELSE r.out
  BY Zenon, <1>3, <1>5 DEF States
<1>10. Finish(d, f) \in States
  <2>1. Finish(d, f) = [ok |-> r.ok, work |-> Idle, slots |-> r.slots, unused |-> r.unused,
                        content |-> Finish(d, f).content, out |-> Finish(d, f).out]
    BY Zenon, <1>3, <1>5, <1>9 DEF States
  <2>2. Finish(d, f).out \in SUBSET Outs
    BY <1>3, <1>8, <1>9 DEF States
  <2> QED
    BY Zenon, <2>1, <2>2, <1>3, <1>6, <1>7, <1>9 DEF States
<1> QED
  BY Zenon, <1>2, <1>3, <1>4, <1>9, <1>10 DEF next

HasReferences(d, e) == \A s \in e.frame.refs : d.slots[s] # None

\* FrameWorkState.Begin
LEMMA BeginFacts ==
  ASSUME NEW d \in States, d.ok, NEW e \in EventSet, NEW surface \in Surfaces,
         ~d.work.active, HasReferences(d, e)
  PROVE  /\ Begin(d, e, surface) \in States /\ Begin(d, e, surface).ok
         /\ Begin(d, e, surface).work = [active |-> TRUE, surface |-> surface, inter |-> e.frame.inter, parts |-> {}]
         /\ Begin(d, e, surface).slots = d.slots
         /\ Begin(d, e, surface).unused = d.unused \ {surface}
         /\ Begin(d, e, surface).content = [d.content EXCEPT ![surface] = 0]
         /\ Begin(d, e, surface).out = d.out
<1> DEFINE w == [active |-> TRUE, surface |-> surface, inter |-> e.frame.inter, parts |-> {}]
<1>1. Begin(d, e, surface) = [d EXCEPT !.work = w, !.unused = @ \ {surface}, !.content[surface] = 0]
  BY Zenon DEF Begin, HasReferences
<1>2. w \in Works
  BY Zenon DEF Works, EventSet, Frames
<1> HIDE DEF w
<1>3. /\ Begin(d, e, surface).ok = d.ok /\ Begin(d, e, surface).work = w /\ Begin(d, e, surface).slots = d.slots
      /\ Begin(d, e, surface).unused = d.unused \ {surface}
      /\ Begin(d, e, surface).content = [d.content EXCEPT ![surface] = 0]
      /\ Begin(d, e, surface).out = d.out
  BY Zenon, <1>1 DEF States
<1>4. Begin(d, e, surface) \in States
  <2>1. [d.content EXCEPT ![surface] = 0] \in [Surfaces -> Int]
    BY DEF States
  <2> QED
    BY ZenonT(60), <1>1, <1>2, <2>1 DEF States
<1> QED
  BY Zenon, <1>3, <1>4 DEF w

LEMMA FinishKeeps ==
  ASSUME NEW d \in States, Owned(d), d.ok, d.work.active, NEW f \in Frames
  PROVE  /\ Owned(Finish(d, f))
         /\ Reached(d) /\ (f.show \/ f.refresh # {}) => Reached(Finish(d, f))
         /\ ~f.show => Finish(d, f).out = d.out
<1> DEFINE next == Refreshed(d, f, d.work.surface)
<1>1. /\ next \in SlotMaps /\ Finish(d, f).slots = next
      /\ Finish(d, f).unused = d.unused \cup ((Range(d.slots) \ Range(next)) \ {None})
      /\ Finish(d, f).work = Idle
      /\ Finish(d, f).out = IF f.show THEN d.out \cup {[surface |-> d.work.surface, frame |-> Decoded(d, f)]} ELSE d.out
  BY Zenon, FinishFacts
<1>2. d.slots \in SlotMaps /\ d.unused \subseteq Surfaces
  BY Zenon DEF States
<1>3. \A s \in Slots : next[s] = IF s \in f.refresh THEN d.work.surface ELSE d.slots[s]
  BY Zenon DEF Refreshed
<1>4. f.refresh \subseteq Slots
  BY Zenon DEF Frames
<1>5. None \notin Surfaces
  BY Zenon, SerialAssumption
<1> HIDE DEF next
<1>6. \A x \in Range(next) : x = d.work.surface \/ x \in Range(d.slots)
  BY <1>1, <1>2, <1>3, RangeOf
<1>7. Owned(Finish(d, f))
  <2>1. ~Finish(d, f).work.active
    BY <1>1 DEF Idle
  <2>2. Range(next) \cap Finish(d, f).unused = {}
    BY Zenon, <1>1, <1>6 DEF Owned
  <2> QED
    BY Zenon, <1>1, <2>1, <2>2 DEF Owned
<1>8. ASSUME Reached(d), f.show \/ f.refresh # {} PROVE Reached(Finish(d, f))
  <2>1. d.work.surface \in Range(next) \cup Drawn(Finish(d, f))
    <3>1. CASE f.show
      <4>1. [surface |-> d.work.surface, frame |-> Decoded(d, f)] \in Finish(d, f).out
        BY Zenon, <1>1, <3>1
      <4>2. \A o : o \in Finish(d, f).out => o.surface \in Drawn(Finish(d, f))
        BY Zenon DEF Drawn
      <4> QED
        BY <4>1, <4>2
    <3>2. CASE f.refresh # {}
      BY <1>1, <1>3, <1>4, <3>2, RangeOf
    <3> QED
      BY Zenon, <1>8, <3>1, <3>2
  <2>2. Drawn(d) \subseteq Drawn(Finish(d, f))
    BY Zenon, <1>1 DEF Drawn
  <2>3. ASSUME NEW x \in Surfaces, x \notin Finish(d, f).unused
        PROVE  x \in Range(next) \cup Drawn(Finish(d, f))
    <3>1. x \notin d.unused /\ (x \in Range(d.slots) => x \in Range(next))
      BY Zenon, <1>1, <1>5, <2>3
    <3>2. x \in Range(d.slots) \cup UnderWay(d) \cup Drawn(d)
      BY Zenon, <3>1, <1>8 DEF Reached
    <3> QED
      BY Zenon, <3>1, <3>2, <2>1, <2>2 DEF UnderWay
  <2> QED
    BY Zenon, <1>1, <2>3 DEF Reached
<1> QED
  BY Zenon, <1>1, <1>7, <1>8

\* The tile work of an event, before Finish.
Parted(d, e) == [d EXCEPT !.work.parts = @ \cup {<<e.frame.id, t>> : t \in e.tiles}]

LEMMA PartedFacts ==
  ASSUME NEW d \in States, NEW e \in EventSet
  PROVE  /\ Parted(d, e) \in States
         /\ Parted(d, e).ok = d.ok /\ Parted(d, e).slots = d.slots /\ Parted(d, e).unused = d.unused
         /\ Parted(d, e).content = d.content /\ Parted(d, e).out = d.out
         /\ Parted(d, e).work = [d.work EXCEPT !.parts = @ \cup {<<e.frame.id, t>> : t \in e.tiles}]
         /\ Parted(d, e).work.active = d.work.active /\ Parted(d, e).work.surface = d.work.surface
         /\ Parted(d, e).work.inter = d.work.inter
         /\ Parted(d, e).work.parts = d.work.parts \cup {<<e.frame.id, t>> : t \in e.tiles}
<1> DEFINE more == {<<e.frame.id, t>> : t \in e.tiles}
           w == [d.work EXCEPT !.parts = @ \cup more]
<1>1. more \subseteq Nat \X Nat
  <2>1. e.frame.id \in Nat /\ e.tiles \subseteq Nat
    BY SerialAssumption DEF EventSet, Frames
  <2> QED
    BY <2>1
<1>2. d.work \in Works
  BY Zenon DEF States
<1> HIDE DEF more
<1>3. w \in Works /\ w.active = d.work.active /\ w.surface = d.work.surface /\ w.inter = d.work.inter
      /\ w.parts = d.work.parts \cup more
  BY Zenon, <1>1, <1>2 DEF Works
<1>4. Parted(d, e) = [d EXCEPT !.work = w]
  BY Zenon DEF Parted, States, more
<1> HIDE DEF w
<1>5. /\ Parted(d, e) \in States
      /\ Parted(d, e).ok = d.ok /\ Parted(d, e).slots = d.slots /\ Parted(d, e).unused = d.unused
      /\ Parted(d, e).content = d.content /\ Parted(d, e).out = d.out
      /\ Parted(d, e).work = w
  BY Zenon, <1>3, <1>4 DEF States
<1> QED
  BY Zenon, <1>3, <1>5 DEF w, more

LEMMA PartedKeeps ==
  ASSUME NEW d \in States, NEW e \in EventSet
  PROVE  (Owned(d) => Owned(Parted(d, e))) /\ (Reached(d) => Reached(Parted(d, e)))
<1>1. /\ Parted(d, e).slots = d.slots /\ Parted(d, e).unused = d.unused /\ Parted(d, e).out = d.out
      /\ Parted(d, e).work.active = d.work.active /\ Parted(d, e).work.surface = d.work.surface
  BY Zenon, PartedFacts
<1> QED
  BY Zenon, <1>1 DEF Owned, Reached, UnderWay, Drawn

LEMMA ErrorFacts ==
  ASSUME NEW d \in States
  PROVE  /\ Error(d) \in States /\ ~Error(d).ok
         /\ Error(d).work = d.work /\ Error(d).slots = d.slots /\ Error(d).unused = d.unused
         /\ Error(d).content = d.content /\ Error(d).out = d.out
BY Zenon DEF Error, States

LEMMA ErrorKeeps ==
  ASSUME NEW d \in States
  PROVE  (Owned(d) => Owned(Error(d))) /\ (Reached(d) => Reached(Error(d)))
<1>1. /\ Error(d).slots = d.slots /\ Error(d).unused = d.unused /\ Error(d).out = d.out /\ Error(d).work = d.work
  BY Zenon, ErrorFacts
<1> QED
  BY Zenon, <1>1 DEF Owned, Reached, UnderWay, Drawn

\* Apply keeps the owners when the new slots hold old surfaces of slots.
LEMMA ApplyKeeps ==
  ASSUME NEW d \in States, Owned(d), d.ok, NEW next \in SlotMaps, Range(next) \subseteq Range(d.slots) \cup {None}
  PROVE  Owned(Apply(d, next)) /\ (Reached(d) => Reached(Apply(d, next)))
<1> DEFINE r == Apply(d, next)
<1>1. /\ r.slots = next /\ r.unused = d.unused \cup ((Range(d.slots) \ Range(next)) \ {None})
      /\ r.work = d.work /\ r.out = d.out
  BY Zenon, ApplyFacts
<1>2. None \notin Surfaces /\ d.unused \subseteq Surfaces
  BY Zenon, SerialAssumption DEF States
<1> HIDE DEF r
<1>3. Owned(r)
  BY <1>1, <1>2 DEF Owned
<1>4. ASSUME Reached(d) PROVE Reached(r)
  <2>1. UnderWay(r) = UnderWay(d) /\ Drawn(r) = Drawn(d)
    BY Zenon, <1>1 DEF UnderWay, Drawn
  <2> QED
    BY Zenon, <1>1, <1>2, <1>4, <2>1 DEF Reached
<1> QED
  BY Zenon, <1>3, <1>4 DEF r

LEMMA AbortKept ==
  ASSUME NEW d \in States, Owned(d), d.ok
  PROVE  Owned(Abort(d)) /\ (Reached(d) => Reached(Abort(d)))
<1> DEFINE r == Abort(d)
<1>1. /\ r.slots = d.slots /\ r.unused = d.unused \cup UnderWay(d) /\ ~r.work.active /\ r.out = d.out
  BY Zenon, AbortFacts
<1> HIDE DEF r
<1>2. Owned(r)
  BY Zenon, <1>1 DEF Owned, UnderWay
<1>3. Reached(d) => Reached(r)
  <2>1. UnderWay(r) = {} /\ Drawn(r) = Drawn(d)
    BY Zenon, <1>1 DEF UnderWay, Drawn
  <2> QED
    BY Zenon, <1>1, <2>1 DEF Reached
<1> QED
  BY Zenon, <1>2, <1>3 DEF r

\* AbortIfEventDropsFrameWork and the reference reset never fail.
LEMMA DropFacts ==
  ASSUME NEW d \in States, Owned(d), d.ok, NEW e \in EventSet
  PROVE  /\ Drop(d, e) \in States /\ Drop(d, e).ok /\ ~Drop(d, e).work.active
         /\ Drop(d, e).slots = IF e.new THEN [s \in Slots |-> None] ELSE d.slots
         /\ Drop(d, e).content = d.content /\ Drop(d, e).out = d.out
         /\ Owned(Drop(d, e)) /\ (Reached(d) => Reached(Drop(d, e)))
<1> DEFINE r == Abort(d)
           none == [s \in Slots |-> None]
<1>1. /\ r \in States /\ r.ok /\ ~r.work.active /\ r.slots = d.slots /\ r.content = d.content /\ r.out = d.out
      /\ Owned(r) /\ (Reached(d) => Reached(r))
  BY Zenon, AbortFacts, AbortKept
<1>2. none \in SlotMaps /\ Range(none) \subseteq {None}
  BY Zenon DEF SlotMaps, Range
<1>3. Drop(d, e) = IF e.new THEN Apply(r, none) ELSE r
  BY Zenon, <1>1 DEF Drop, ResetFrameSurfaceReferences
<1> HIDE DEF r, none
<1>4. CASE ~e.new
  BY Zenon, <1>1, <1>3, <1>4
<1>5. CASE e.new
  <2>1. /\ Apply(r, none) \in States /\ Apply(r, none).ok /\ Apply(r, none).slots = none
        /\ Apply(r, none).work = r.work /\ Apply(r, none).content = r.content /\ Apply(r, none).out = r.out
    BY Zenon, <1>1, <1>2, ApplyFacts
  <2>2. Owned(Apply(r, none)) /\ (Reached(r) => Reached(Apply(r, none)))
    BY Zenon, <1>1, <1>2, ApplyKeeps
  <2> QED
    BY Zenon, <1>1, <1>3, <1>5, <2>1, <2>2 DEF none
<1> QED
  BY Zenon, <1>4, <1>5

\* FrameWorkState.ShowExisting fails only for an empty slot.
LEMMA ShowExistingFacts ==
  ASSUME NEW d \in States, Owned(d), d.ok, NEW e \in EventSet, e.slot \in Slots, d.slots[e.slot] # None
  PROVE  LET surface == d.slots[e.slot]
             r == ShowExisting(d, e)
         IN  /\ surface \in Surfaces
             /\ r \in States /\ r.ok /\ ~r.work.active
             /\ r.slots = IF e.frame.key THEN [s \in Slots |-> surface] ELSE d.slots
             /\ r.content = d.content
             /\ r.out = d.out \cup {[surface |-> surface, frame |-> d.content[surface]]}
             /\ Owned(r) /\ (Reached(d) => Reached(r))
<1> DEFINE surface == d.slots[e.slot]
           r == Abort(d)
           all == [s \in Slots |-> surface]
           k == IF e.frame.key THEN Apply(r, all) ELSE r
           o == [surface |-> surface, frame |-> d.content[surface]]
<1>1. /\ r \in States /\ r.ok /\ ~r.work.active /\ r.slots = d.slots /\ r.content = d.content /\ r.out = d.out
      /\ Owned(r) /\ (Reached(d) => Reached(r))
  BY Zenon, AbortFacts, AbortKept
<1>2. surface \in Surfaces /\ surface \in Range(d.slots)
  BY Zenon, RangeOf DEF States, SlotMaps, Range
<1>3. all \in SlotMaps /\ Range(all) \subseteq {surface}
  BY Zenon, <1>2 DEF SlotMaps, Range
<1>4. e.frame.key \in BOOLEAN
  BY Zenon DEF EventSet, Frames
<1> HIDE DEF r, all
<1>5. /\ k \in States /\ k.ok /\ ~k.work.active /\ k.content = d.content /\ k.out = d.out
      /\ k.slots = IF e.frame.key THEN all ELSE d.slots
      /\ Owned(k) /\ (Reached(d) => Reached(k))
  <2>1. CASE ~e.frame.key
    BY Zenon, <1>1, <2>1
  <2>2. CASE e.frame.key
    <3>1. /\ Apply(r, all) \in States /\ Apply(r, all).ok /\ Apply(r, all).slots = all
          /\ Apply(r, all).work = r.work /\ Apply(r, all).content = r.content /\ Apply(r, all).out = r.out
      BY Zenon, <1>1, <1>3, ApplyFacts
    <3>2. Owned(Apply(r, all)) /\ (Reached(r) => Reached(Apply(r, all)))
      BY Zenon, <1>1, <1>2, <1>3, ApplyKeeps
    <3> QED
      BY Zenon, <1>1, <2>2, <3>1, <3>2
  <2> QED
    BY Zenon, <1>4, <2>1, <2>2
<1>6. ShowExisting(d, e) = [k EXCEPT !.out = @ \cup {[surface |-> surface, frame |-> k.content[surface]]}]
  BY Zenon, <1>1, <1>5 DEF ShowExisting, r, all
<1> HIDE DEF k
<1>7. o \in Outs
  BY Zenon, <1>2 DEF Outs, States
<1>8. LET x == ShowExisting(d, e)
      IN  /\ x \in States /\ x.ok = k.ok /\ x.work = k.work /\ x.slots = k.slots /\ x.unused = k.unused
          /\ x.content = k.content /\ x.out = k.out \cup {o}
  <2>1. ShowExisting(d, e) = [k EXCEPT !.out = @ \cup {o}]
    BY Zenon, <1>5, <1>6
  <2> HIDE DEF o
  <2>2. LET x == ShowExisting(d, e)
        IN  /\ x.ok = k.ok /\ x.work = k.work /\ x.slots = k.slots /\ x.unused = k.unused
            /\ x.content = k.content /\ x.out = k.out \cup {o}
    BY Zenon, <1>5, <2>1 DEF States
  <2>3. k.out \cup {o} \in SUBSET Outs
    BY Zenon, <1>5, <1>7 DEF States
  <2>4. ShowExisting(d, e) \in States
    BY Zenon, <1>5, <2>1, <2>3 DEF States
  <2> QED
    BY Zenon, <2>2, <2>4
<1>9. Owned(ShowExisting(d, e))
  BY Zenon, <1>5, <1>8 DEF Owned
<1>10. Reached(k) => Reached(ShowExisting(d, e))
  <2>1. UnderWay(ShowExisting(d, e)) = UnderWay(k) /\ Drawn(k) \subseteq Drawn(ShowExisting(d, e))
    BY Zenon, <1>8 DEF UnderWay, Drawn
  <2> QED
    BY Zenon, <1>8, <2>1 DEF Reached
<1> QED
  BY Zenon, <1>2, <1>5, <1>8, <1>9, <1>10 DEF all

LEMMA BeginKeeps ==
  ASSUME NEW d \in States, Owned(d), d.ok, NEW e \in EventSet, NEW surface \in d.unused,
         ~d.work.active, HasReferences(d, e)
  PROVE  Owned(Begin(d, e, surface)) /\ (Reached(d) => Reached(Begin(d, e, surface)))
<1> DEFINE r == Begin(d, e, surface)
<1>1. surface \in Surfaces
  BY Zenon DEF States
<1>2. /\ r.work.active /\ r.work.surface = surface /\ r.slots = d.slots /\ r.unused = d.unused \ {surface}
      /\ r.out = d.out
  <2>1. /\ Begin(d, e, surface) \in States /\ Begin(d, e, surface).ok
        /\ Begin(d, e, surface).work = [active |-> TRUE, surface |-> surface, inter |-> e.frame.inter, parts |-> {}]
        /\ Begin(d, e, surface).slots = d.slots
        /\ Begin(d, e, surface).unused = d.unused \ {surface}
        /\ Begin(d, e, surface).content = [d.content EXCEPT ![surface] = 0]
        /\ Begin(d, e, surface).out = d.out
    BY Zenon, <1>1, BeginFacts
  <2> QED
    BY <2>1
<1> HIDE DEF r
<1>3. Owned(r)
  BY Zenon, <1>1, <1>2 DEF Owned
<1>4. UnderWay(r) = {surface} /\ UnderWay(d) = {} /\ Drawn(r) = Drawn(d)
  BY Zenon, <1>2 DEF UnderWay, Drawn
<1> QED
  BY Zenon, <1>1, <1>2, <1>3, <1>4 DEF Reached, r

LEMMA DecodeCases ==
  ASSUME NEW d \in States, NEW e \in EventSet
  PROVE  /\ ~d.work.active \/ d.work.inter # e.frame.inter => Decode(d, e) = Error(d)
         /\ d.work.active /\ d.work.inter = e.frame.inter =>
              Decode(d, e) = IF Tiles \in e.tiles THEN Finish(Parted(d, e), e.frame) ELSE Parted(d, e)
BY Zenon DEF Decode, Parted

\* A frame that is shown or kept for reference.
Kept(f) == f.show \/ f.refresh # {}

\* A result of an event keeps every surface with one owner, and outputs a
\* frame only for an event that shows one.
Keeps(d, r, e) ==
  /\ r \in States
  /\ Owned(r)
  /\ Reached(d) /\ (e.kind \in {"frame", "tiles"} => Kept(e.frame)) => Reached(r)
  /\ ~Shows(e) \/ ~r.ok => r.out = d.out
  /\ r.out # d.out => ~r.work.active

LEMMA DecodeKeeps ==
  ASSUME NEW d \in States, Owned(d), d.ok, NEW e \in EventSet, e.kind \in {"frame", "tiles"}
  PROVE  Keeps(d, Decode(d, e), e)
<1> DEFINE p == Parted(d, e)
<1>1. e.frame \in Frames /\ d.work.active \in BOOLEAN
  BY Zenon DEF EventSet, States, Works
<1>2. /\ p \in States /\ p.ok = d.ok /\ p.work.active = d.work.active /\ p.out = d.out
      /\ Owned(p) /\ (Reached(d) => Reached(p))
  BY Zenon, PartedFacts, PartedKeeps
<1> HIDE DEF p
<1>3. CASE ~d.work.active \/ d.work.inter # e.frame.inter
  BY Zenon, <1>3, DecodeCases, ErrorFacts, ErrorKeeps DEF Keeps
<1>4. CASE d.work.active /\ d.work.inter = e.frame.inter /\ Tiles \notin e.tiles
  BY Zenon, <1>2, <1>4, DecodeCases DEF Keeps, p
<1>5. CASE d.work.active /\ d.work.inter = e.frame.inter /\ Tiles \in e.tiles
  <2>1. Decode(d, e) = Finish(p, e.frame)
    BY Zenon, <1>5, DecodeCases DEF p
  <2>2. /\ Finish(p, e.frame) \in States /\ Finish(p, e.frame).ok /\ ~Finish(p, e.frame).work.active
    <3>1. Finish(p, e.frame) \in States /\ Finish(p, e.frame).ok /\ Finish(p, e.frame).work = Idle
      BY Zenon, <1>1, <1>2, <1>5, FinishFacts
    <3>2. ~Idle.active
      BY Zenon DEF Idle
    <3> QED
      BY Zenon, <3>1, <3>2
  <2>3. /\ Owned(Finish(p, e.frame))
        /\ Reached(p) /\ (e.frame.show \/ e.frame.refresh # {}) => Reached(Finish(p, e.frame))
        /\ ~e.frame.show => Finish(p, e.frame).out = p.out
    BY Zenon, <1>1, <1>2, <1>5, FinishKeeps
  <2>4. ~Shows(e) => ~e.frame.show
    BY Zenon, <1>5 DEF Shows
  <2> QED
    BY Zenon, <1>2, <2>1, <2>2, <2>3, <2>4 DEF Keeps, Kept
<1> QED
  BY Zenon, <1>1, <1>3, <1>4, <1>5

LEMMA NowFacts ==
  ASSUME TypeInv
  PROVE  /\ Now \in States /\ Now.ok
         /\ Now.work = work /\ Now.slots = slots /\ Now.unused = unused /\ Now.content = content /\ Now.out = out
         /\ SurfacesHeld /\ (work.active => work.surface \in Surfaces) => Owned(Now)
<1>1. /\ Now \in States /\ Now.ok
      /\ Now.work = work /\ Now.slots = slots /\ Now.unused = unused /\ Now.content = content /\ Now.out = out
  BY Zenon DEF TypeInv, States, Now
<1>2. None \notin unused
  BY Zenon, SerialAssumption DEF TypeInv
<1>3. ASSUME SurfacesHeld, work.active => work.surface \in Surfaces PROVE Owned(Now)
  <2>1. Range(slots) \cap unused = {}
    BY Zenon, <1>2, <1>3 DEF SurfacesHeld, Held
  <2>2. work.active => work.surface \in Surfaces \ (unused \cup Range(slots))
    BY Zenon, <1>3, SerialAssumption DEF SurfacesHeld, Held
  <2> QED
    BY Zenon, <1>1, <2>1, <2>2 DEF Owned
<1> QED
  BY Zenon, <1>1, <1>3

LEMMA BeginKept ==
  ASSUME TypeInv, Owned(Now), NEW e \in ProperEvents, NEW surface \in unused
  PROVE  Keeps(Now, Begin(Now, e, surface), e) /\ Begin(Now, e, surface).out = Now.out
<1>1. Now \in States /\ Now.ok /\ Now.unused = unused /\ e \in EventSet
  BY Zenon, NowFacts DEF ProperEvents
<1>2. CASE Now.work.active \/ ~HasReferences(Now, e)
  <2>1. Begin(Now, e, surface) = Error(Now)
    BY Zenon, <1>2 DEF Begin, HasReferences
  <2> QED
    BY Zenon, <1>1, <2>1, ErrorFacts, ErrorKeeps DEF Keeps
<1>3. CASE ~Now.work.active /\ HasReferences(Now, e)
  <2>1. surface \in Now.unused /\ surface \in Surfaces
    BY Zenon, <1>1 DEF TypeInv
  <2> DEFINE b == Begin(Now, e, surface)
  <2>2. b \in States /\ b.ok /\ b.out = Now.out
    BY Zenon, <1>1, <1>3, <2>1, BeginFacts
  <2>3. Owned(b) /\ (Reached(Now) => Reached(b))
    BY Zenon, <1>1, <1>3, <2>1, BeginKeeps
  <2> QED
    BY Zenon, <2>2, <2>3 DEF Keeps
<1> QED
  BY Zenon, <1>2, <1>3

\* Every event keeps the owners.
LEMMA RanKeeps ==
  ASSUME TypeInv, Owned(Now), NEW e \in ProperEvents, NEW surface, Begins(e) => surface \in unused
  PROVE  Keeps(Now, Ran(e, surface), e)
<1>1. Now \in States /\ Now.ok /\ Now.unused = unused
  BY Zenon, NowFacts
<1>2. e \in EventSet /\ (e.kind = "existing" => e.slot \in Slots) /\ (e.new => e.kind = "sequence")
  BY Zenon DEF ProperEvents
<1>3. e.kind \in Kinds /\ e.new \in BOOLEAN
  BY Zenon, <1>2 DEF EventSet
<1>4. CASE e.kind = "existing"
  <2>1. Ran(e, surface) = ShowExisting(Now, e)
    BY Zenon, <1>2, <1>4 DEF Ran
  <2>2. CASE Now.slots[e.slot] = None
    <3>1. ShowExisting(Now, e) = Error(Now)
      BY Zenon, <2>2 DEF ShowExisting
    <3> QED
      BY Zenon, <1>1, <2>1, <3>1, ErrorFacts, ErrorKeeps DEF Keeps
  <2>3. CASE Now.slots[e.slot] # None
    BY Zenon, <1>1, <1>2, <1>4, <2>1, <2>3, ShowExistingFacts DEF Keeps, Shows
  <2> QED
    BY Zenon, <2>2, <2>3
<1>5. CASE e.kind = "delimiter" \/ e.new
  <2>1. Ran(e, surface) = Drop(Now, e)
    BY Zenon, <1>2, <1>5 DEF Ran
  <2> QED
    BY Zenon, <1>1, <1>2, <2>1, DropFacts DEF Keeps
<1>6. ASSUME Begins(e) PROVE Keeps(Now, Begin(Now, e, surface), e) /\ Begin(Now, e, surface).out = Now.out
  BY Zenon, <1>6, BeginKept
<1>7. CASE e.kind = "header"
  BY Zenon, <1>2, <1>6, <1>7 DEF Ran, Begins
<1>8. CASE e.kind = "frame"
  <2> DEFINE b == Begin(Now, e, surface)
  <2>1. Ran(e, surface) = IF b.ok THEN Decode(b, e) ELSE b
    BY Zenon, <1>2, <1>8 DEF Ran
  <2>2. Keeps(Now, b, e)
    BY Zenon, <1>6, <1>8 DEF Begins
  <2> HIDE DEF b
  <2>3. CASE ~b.ok
    BY Zenon, <2>1, <2>2, <2>3
  <2>4. CASE b.ok
    <3>1. b \in States /\ Owned(b) /\ (Reached(Now) /\ Kept(e.frame) => Reached(b))
      BY Zenon, <2>2, <1>8 DEF Keeps
    <3>2. Keeps(b, Decode(b, e), e)
      BY Zenon, <1>2, <1>8, <2>4, <3>1, DecodeKeeps
    <3>3. b.out = Now.out
      BY Zenon, <1>6, <1>8 DEF Begins, b
    <3> QED
      BY Zenon, <1>8, <2>1, <2>4, <3>1, <3>2, <3>3 DEF Keeps
  <2> QED
    BY Zenon, <2>3, <2>4
<1>9. CASE e.kind = "tiles"
  <2>1. Ran(e, surface) = Decode(Now, e)
    BY Zenon, <1>2, <1>9 DEF Ran
  <2> QED
    BY Zenon, <1>1, <1>2, <1>9, <2>1, DecodeKeeps
<1>10. CASE e.kind \in {"redundant", "ignored"} \/ (e.kind = "sequence" /\ ~e.new)
  <2>1. Ran(e, surface) = Now
    BY Zenon, <1>2, <1>10 DEF Ran
  <2> QED
    BY Zenon, <1>1, <2>1 DEF Keeps
<1> QED
  BY Zenon, <1>3, <1>4, <1>5, <1>7, <1>8, <1>9, <1>10 DEF Kinds

-----------------------------------------------------------------------------
(* What a parsed unit does to the Stream and which event it leaves.        *)

Accepted(st, f, n) == [st EXCEPT !.refs = Updated(@, f), !.next = n, !.frame = f, !.header = TRUE]
Behind(st, f, last) == IF last = Tiles THEN Cleared(Accepted(st, f, last + 1)) ELSE Accepted(st, f, last + 1)
Existing(st, ref) ==
  [Cleared(st) EXCEPT !.refs = IF ref.key THEN [t \in Slots |-> [ref EXCEPT !.showable = FALSE]] ELSE @]

\* The event e takes the Stream from st to s, and drops no frame under way.
Parsed(st, e, s) ==
  /\ \/ e.kind = "sequence" /\ e.new /\ s = [EmptyStream EXCEPT !.have = TRUE]
     \/ e.kind = "sequence" /\ ~e.new /\ s = st
     \/ e.kind = "ignored" /\ s = st
     \/ e.kind = "delimiter" /\ s = Cleared(st)
     \/ e.kind \in {"header", "redundant"} /\ e.tiles = {} /\ s = Accepted(st, e.frame, 1)
     \/ /\ e.kind = "frame"
        /\ \E last \in 1 .. Tiles : e.tiles = 1 .. last /\ s = Behind(st, e.frame, last)
     \/ /\ e.kind = "tiles" /\ st.header /\ e.frame = st.frame /\ st.next \in 1 .. Tiles
        /\ \E last \in st.next .. Tiles :
             /\ e.tiles = st.next .. last
             /\ s = IF last = Tiles THEN Cleared(st) ELSE [st EXCEPT !.next = last + 1]
     \/ /\ e.kind = "existing" /\ e.slot \in Slots
        /\ st.refs[e.slot].id = e.frame.id /\ e.frame.id # 0 /\ st.refs[e.slot].key = e.frame.key
        /\ s = Existing(st, st.refs[e.slot])
  /\ e.kind \in {"header", "redundant", "frame"} => e.frame.id # 0
  /\ st.header => e.kind \in {"tiles", "ignored"} \/ (e.kind = "sequence" /\ ~e.new)

\* The frame whose header was parsed last.
HeaderInv ==
  stream.header => /\ stream.frame.id \in 1 .. sent
                   /\ stream.next \in 1 .. Tiles
                   /\ NoOrphans => Kept(stream.frame)

LEMMA Constructors ==
  /\ NoFrame \in Frames
  /\ NoRef \in Refs
  /\ EmptyStream \in Streams
  /\ [EmptyStream EXCEPT !.have = TRUE] \in Streams
  /\ \A st \in Streams : Cleared(st) \in Streams /\ ~Cleared(st).header /\ Cleared(st).frame = NoFrame
                         /\ Cleared(st).refs = st.refs
<1>1. NoFrame \in Frames /\ NoRef \in Refs
  BY Zenon DEF NoFrame, Frames, NoRef, Refs
<1>2. EmptyStream \in Streams /\ [EmptyStream EXCEPT !.have = TRUE] \in Streams
  BY Zenon, <1>1 DEF EmptyStream, Streams
<1>3. ASSUME NEW st \in Streams
      PROVE  Cleared(st) \in Streams /\ ~Cleared(st).header /\ Cleared(st).frame = NoFrame /\ Cleared(st).refs = st.refs
  BY Zenon, <1>1 DEF Cleared, Streams
<1> QED
  BY Zenon, <1>1, <1>2, <1>3

LEMMA AcceptedFacts ==
  ASSUME NEW st \in Streams, NEW f \in Frames, NEW n \in Nat
  PROVE  /\ Accepted(st, f, n) \in Streams
         /\ Accepted(st, f, n).header /\ Accepted(st, f, n).frame = f /\ Accepted(st, f, n).next = n
         /\ Accepted(st, f, n).refs = Updated(st.refs, f)
         /\ Updated(st.refs, f) \in [Slots -> Refs]
<1>1. Updated(st.refs, f) \in [Slots -> Refs]
  <2>1. st.refs \in [Slots -> Refs]
    BY Zenon DEF Streams
  <2>2. [id |-> f.id, key |-> f.key, showable |-> ~(f.key /\ f.show)] \in Refs
    BY Zenon DEF Frames, Refs
  <2> QED
    BY Zenon, <2>1, <2>2 DEF Updated
<1> QED
  BY Zenon, <1>1 DEF Accepted, Streams

LEMMA SentFacts ==
  ASSUME TypeInv, NEW f \in Templates
  PROVE  /\ Sent(f) \in Frames /\ Sent(f).id = sent + 1
         /\ Sent(f).key = f.key /\ Sent(f).show = f.show /\ Sent(f).refresh = f.refresh /\ Sent(f).refs = f.refs
         /\ Sent(f).inter = f.inter
         /\ NoOrphans => Kept(Sent(f))
         /\ Sent(f).key => Sent(f).refs = {}
<1>1. f \in [key : BOOLEAN, inter : BOOLEAN, show : BOOLEAN, refresh : SUBSET Slots, refs : SUBSET Slots]
  BY Zenon, SerialAssumption
<1>2. sent + 1 \in Nat
  BY DEF TypeInv
<1>3. Sent(f) \in Frames /\ Sent(f).id = sent + 1
      /\ Sent(f).key = f.key /\ Sent(f).show = f.show /\ Sent(f).refresh = f.refresh /\ Sent(f).refs = f.refs
      /\ Sent(f).inter = f.inter
  BY Zenon, <1>1, <1>2 DEF Sent, Frames
<1>4. f.key => f.refs = {}
  BY Zenon, SerialAssumption
<1> QED
  BY Zenon, <1>3, <1>4 DEF NoOrphans, Kept

\* A unit that was parsed.
Shaped(u, s, e) ==
  /\ u \in Units /\ s \in Streams /\ e \in ProperEvents
  /\ Push(u, s, e)
  /\ sent' \in Nat
  /\ u.kind = "sequence" /\ u.last => e.kind = "sequence" /\ e.new
  /\ u.kind = "key" => e.kind = "frame" /\ e.frame.refs = {}
  /\ NoOrphans /\ e.kind \in {"frame", "tiles"} => Kept(e.frame)
  /\ HeaderInv'
  /\ ~tainted' => Parsed(stream, e, s)

LEMMA EventFacts ==
  ASSUME NEW kind \in Kinds, NEW frame \in Frames, NEW tiles \in SUBSET (1 .. Tiles), NEW slot \in Slots \cup {None},
         NEW new \in BOOLEAN, kind = "existing" => slot \in Slots, new => kind = "sequence"
  PROVE  /\ Event(kind, frame, tiles, slot, new) \in ProperEvents
         /\ Event(kind, frame, tiles, slot, new).kind = kind /\ Event(kind, frame, tiles, slot, new).frame = frame
         /\ Event(kind, frame, tiles, slot, new).tiles = tiles /\ Event(kind, frame, tiles, slot, new).slot = slot
         /\ Event(kind, frame, tiles, slot, new).new = new
<1>1. Event(kind, frame, tiles, slot, new) \in EventSet
  BY Zenon DEF Event, EventSet
<1> QED
  BY Zenon, <1>1 DEF Event, ProperEvents

LEMMA UnitFacts ==
  ASSUME NEW kind \in UnitKinds, NEW last \in BOOLEAN
  PROVE  Unit(kind, last) \in Units /\ Unit(kind, last).kind = kind /\ Unit(kind, last).last = last
BY Zenon DEF Unit, Units

LEMMA PushFacts ==
  ASSUME TypeInv, HeaderInv, NEW u, NEW s, NEW e, Push(u, s, e), ~tainted', stream.header, u.kind # "tiles"
  PROVE  s.frame = stream.frame
BY Zenon DEF Push

LEMMA ShapedSequence ==
  ASSUME TypeInv, HeaderInv, NEW new \in BOOLEAN, PushSequenceHeader(new)
  PROVE  \E u, s, e : Shaped(u, s, e)
<1> DEFINE fresh == new \/ ~stream.have
           u == Unit("sequence", fresh)
           s == IF fresh THEN [EmptyStream EXCEPT !.have = TRUE] ELSE stream
           e == Event("sequence", NoFrame, {}, None, fresh)
<1>1. Push(u, s, e) /\ sent' = sent
  BY Zenon DEF PushSequenceHeader
<1>2. u \in Units /\ u.kind = "sequence" /\ u.last = fresh
  BY Zenon, UnitFacts DEF UnitKinds
<1>3. s \in Streams
  BY Zenon, Constructors DEF TypeInv
<1>4. e \in ProperEvents /\ e.kind = "sequence" /\ e.new = fresh
  <2>1. /\ "sequence" \in Kinds /\ NoFrame \in Frames /\ {} \in SUBSET (1 .. Tiles) /\ None \in Slots \cup {None}
        /\ fresh \in BOOLEAN /\ ("sequence" = "existing" => None \in Slots) /\ (fresh => "sequence" = "sequence")
    BY Zenon, Constructors DEF Kinds
  <2> HIDE DEF fresh
  <2> QED
    BY <2>1, EventFacts
<1>5. fresh => ~s.header /\ s.frame = NoFrame
  BY Zenon DEF EmptyStream
<1>6. stream' = s
  BY Zenon, <1>1 DEF Push
<1>7. HeaderInv'
  BY Zenon, <1>1, <1>5, <1>6 DEF HeaderInv
<1>8. stream.header => stream.frame # NoFrame
  BY DEF HeaderInv, NoFrame, TypeInv
<1> HIDE DEF u, e
<1>9. ~tainted' => Parsed(stream, e, s)
  <2> SUFFICES ASSUME ~tainted' PROVE Parsed(stream, e, s)
    BY Zenon
  <2>1. stream.header => s.frame = stream.frame
    BY Zenon, <1>1, <1>2, PushFacts
  <2>2. stream.header => ~fresh
    BY Zenon, <2>1, <1>5, <1>8
  <2> QED
    BY Zenon, <1>4, <2>2 DEF Parsed
<1> QED
  BY Zenon, <1>1, <1>2, <1>3, <1>4, <1>7, <1>9 DEF Shaped, TypeInv

LEMMA ShapedDelimiter ==
  ASSUME TypeInv, HeaderInv, PushTemporalDelimiter
  PROVE  \E u, s, e : Shaped(u, s, e)
<1> DEFINE u == Unit("delimiter", FALSE)
           s == Cleared(stream)
           e == Event("delimiter", NoFrame, {}, None, FALSE)
<1>1. Push(u, s, e) /\ sent' = sent
  BY Zenon DEF PushTemporalDelimiter
<1>2. u \in Units /\ u.kind = "delimiter"
  BY Zenon, UnitFacts DEF UnitKinds
<1>3. s \in Streams /\ ~s.header /\ s.frame = NoFrame
  BY Zenon, Constructors DEF TypeInv
<1>4. e \in ProperEvents /\ e.kind = "delimiter" /\ ~e.new
  BY Zenon, Constructors DEF Event, ProperEvents, EventSet, Kinds
<1>6. stream' = s
  BY Zenon, <1>1 DEF Push
<1>7. HeaderInv'
  BY Zenon, <1>3, <1>6 DEF HeaderInv
<1>8. stream.header => stream.frame # NoFrame
  BY DEF HeaderInv, NoFrame, TypeInv
<1>9. ~tainted' => Parsed(stream, e, s)
  <2> SUFFICES ASSUME ~tainted' PROVE Parsed(stream, e, s)
    BY Zenon
  <2> HIDE DEF u, e
  <2>1. stream.header => s.frame = stream.frame
    BY Zenon, <1>1, <1>2, PushFacts
  <2> QED
    BY Zenon, <1>3, <1>4, <1>8, <2>1 DEF Parsed
<1> HIDE DEF u, e
<1> QED
  BY Zenon, <1>1, <1>2, <1>3, <1>4, <1>7, <1>9 DEF Shaped, TypeInv

\* The unit cannot be parsed, and is neither of those that start anew.
Turned(u) == u \in Units /\ u.kind \notin {"sequence", "key"} /\ Refuse(u) /\ sent' \in Nat /\ sent' >= sent

LEMMA AnotherFrame ==
  ASSUME TypeInv, HeaderInv, NEW f, NEW u, NEW s, NEW e, f.id = sent + 1, s.frame = f \/ s.frame = NoFrame,
         Push(u, s, e), u.kind # "tiles", ~tainted'
  PROVE  ~stream.header
<1>1. stream.header => stream.frame.id \in 1 .. sent /\ sent \in Nat
  BY Zenon DEF HeaderInv, TypeInv
<1>2. NoFrame.id = 0
  BY Zenon DEF NoFrame
<1>3. stream.header => s.frame = stream.frame
  BY Zenon, PushFacts
<1> QED
  BY <1>1, <1>2, <1>3

LEMMA ShapedHeader ==
  ASSUME TypeInv, HeaderInv, NEW t \in Templates, NEW kind \in {"header", "redundant"},
         acceptFrameHeader(kind, Sent(t)), sent' = sent + 1
  PROVE  (\E u, s, e : Shaped(u, s, e)) \/ (\E u : Turned(u))
<1> DEFINE f == Sent(t)
           u == Unit(kind, FALSE)
           s == Accepted(stream, f, 1)
           e == Event(kind, f, {}, None, FALSE)
<1>1. f \in Frames /\ f.id = sent + 1 /\ (NoOrphans => Kept(f))
  BY Zenon, SentFacts
<1> HIDE DEF f
<1>2. u \in Units /\ u.kind = kind
  BY Zenon DEF Unit, Units, UnitKinds
<1>3. sent \in Nat /\ sent' \in Nat /\ sent' >= sent /\ stream \in Streams
  BY DEF TypeInv
<1>4. CASE ~Parses(f)
  <2>1. Refuse(u)
    BY Zenon, <1>4 DEF acceptFrameHeader, f
  <2> HIDE DEF u
  <2> QED
    BY Zenon, <1>2, <1>3, <2>1 DEF Turned
<1>5. CASE Parses(f)
  <2>1. Push(u, s, e)
    BY Zenon, <1>5 DEF acceptFrameHeader, Accepted, f
  <2>2. s \in Streams /\ s.header /\ s.frame = f /\ s.next = 1
    BY <1>1, <1>3, AcceptedFacts
  <2>3. e \in ProperEvents /\ e.kind = kind /\ e.frame = f /\ e.tiles = {} /\ ~e.new
    BY Zenon, <1>1 DEF Event, ProperEvents, EventSet, Kinds
  <2> HIDE DEF u, e
  <2>4. stream' = s
    BY Zenon, <2>1 DEF Push
  <2>5. HeaderInv'
    BY <1>1, <1>3, <2>2, <2>4, SerialAssumption DEF HeaderInv
  <2>6. ~tainted' => Parsed(stream, e, s)
    <3> SUFFICES ASSUME ~tainted' PROVE Parsed(stream, e, s)
      BY Zenon
    <3>1. ~stream.header
      BY Zenon, <1>1, <1>2, <2>1, <2>2, AnotherFrame
    <3> QED
      BY <1>1, <1>3, <2>3, <3>1 DEF Parsed
  <2> HIDE DEF s
  <2>7. Shaped(u, s, e)
    BY Zenon, <1>1, <1>2, <1>3, <2>1, <2>2, <2>3, <2>5, <2>6 DEF Shaped
  <2> QED
    BY Zenon, <2>7
<1> QED
  BY Zenon, <1>4, <1>5

LEMMA ShapedRedundant ==
  ASSUME TypeInv, HeaderInv, NEW t \in Templates, PushRedundantFrameHeader(Sent(t))
  PROVE  (\E u, s, e : Shaped(u, s, e)) \/ (\E u : Turned(u))
<1>1. CASE ~stream.header
  BY Zenon, <1>1, ShapedHeader DEF PushRedundantFrameHeader
<1>2. CASE stream.header
  <2> DEFINE u == Unit("redundant", FALSE)
             e == Event("ignored", NoFrame, {}, None, FALSE)
  <2>1. Push(u, stream, e) /\ sent' = sent
    BY Zenon, <1>2 DEF PushRedundantFrameHeader
  <2>2. u \in Units /\ u.kind = "redundant"
    BY Zenon DEF Unit, Units, UnitKinds
  <2>3. e \in ProperEvents /\ e.kind = "ignored" /\ ~e.new
    BY Zenon, Constructors DEF Event, ProperEvents, EventSet, Kinds
  <2> HIDE DEF u, e
  <2>4. HeaderInv'
    BY Zenon, <2>1 DEF HeaderInv, Push
  <2>5. Parsed(stream, e, stream)
    BY Zenon, <2>3 DEF Parsed
  <2>6. Shaped(u, stream, e)
    BY Zenon, <2>1, <2>2, <2>3, <2>4, <2>5 DEF Shaped, TypeInv
  <2> QED
    BY Zenon, <2>6
<1> QED
  BY Zenon, <1>1, <1>2

LEMMA ShapedFrame ==
  ASSUME TypeInv, HeaderInv, NEW t \in Templates, NEW last \in 1 .. Tiles, PushFrame(Sent(t), last)
  PROVE  (\E u, s, e : Shaped(u, s, e)) \/ (\E u : Turned(u))
<1> DEFINE f == Sent(t)
           s == Behind(stream, f, last)
           e == Event("frame", f, 1 .. last, None, FALSE)
<1>1. f \in Frames /\ f.id = sent + 1 /\ (NoOrphans => Kept(f)) /\ (f.key => f.refs = {})
  BY Zenon, SentFacts
<1>3. sent \in Nat /\ sent' = sent + 1 /\ sent' \in Nat /\ sent' >= sent /\ stream \in Streams /\ Tiles \in Nat
  BY SerialAssumption DEF TypeInv, PushFrame
<1>4. CASE ~Parses(f)
  <2> DEFINE u == Unit("frame", last = Tiles)
  <2>1. Refuse(u)
    BY Zenon, <1>4 DEF PushFrame
  <2>2. u \in Units /\ u.kind = "frame"
    BY Zenon DEF Unit, Units, UnitKinds
  <2> HIDE DEF u
  <2> QED
    BY Zenon, <1>3, <2>1, <2>2 DEF Turned
<1>5. CASE Parses(f)
  <2> DEFINE u == Unit(IF f.key THEN "key" ELSE "frame", last = Tiles)
  <2>1. Push(u, s, e)
    BY Zenon, <1>5 DEF PushFrame, Accepted, Behind
  <2> HIDE DEF f
  <2>2. u \in Units /\ u.kind \in {"key", "frame"} /\ (u.kind = "key" => f.key)
    BY Zenon, <1>1 DEF Unit, Units, UnitKinds, Frames
  <2>3. s \in Streams /\ (s.header => s.frame = f /\ last + 1 \in 1 .. Tiles /\ s.next = last + 1)
        /\ (s.frame = f \/ s.frame = NoFrame)
    <3> DEFINE a == Accepted(stream, f, last + 1)
    <3>1. a \in Streams /\ a.frame = f /\ a.next = last + 1
      BY <1>1, <1>3, AcceptedFacts
    <3>2. Cleared(a) \in Streams /\ ~Cleared(a).header /\ Cleared(a).frame = NoFrame
      BY Zenon, <3>1, Constructors
    <3>3. s = IF last = Tiles THEN Cleared(a) ELSE a
      BY Zenon DEF Behind
    <3> HIDE DEF a, s
    <3>4. CASE last = Tiles
      BY Zenon, <3>2, <3>3, <3>4
    <3>5. CASE last # Tiles
      BY <1>3, <3>1, <3>3, <3>5
    <3> QED
      BY Zenon, <3>4, <3>5
  <2>4. e \in ProperEvents /\ e.kind = "frame" /\ e.frame = f /\ e.tiles = 1 .. last /\ ~e.new
    BY <1>1, <1>3 DEF Event, ProperEvents, EventSet, Kinds
  <2> HIDE DEF u, e
  <2>5. stream' = s
    BY Zenon, <2>1 DEF Push
  <2>6. HeaderInv'
    <3> SUFFICES ASSUME s.header PROVE f.id \in 1 .. sent' /\ s.next \in 1 .. Tiles /\ (NoOrphans => Kept(f)) /\ s.frame = f
      BY Zenon, <2>5 DEF HeaderInv
    <3> HIDE DEF s
    <3> QED
      BY <1>1, <1>3, <2>3
  <2>7. ~tainted' => Parsed(stream, e, s)
    <3> SUFFICES ASSUME ~tainted' PROVE Parsed(stream, e, s)
      BY Zenon
    <3> HIDE DEF s
    <3>1. ~stream.header
      BY Zenon, <1>1, <2>1, <2>2, <2>3, AnotherFrame
    <3> QED
      BY <1>1, <1>3, <2>4, <3>1 DEF Parsed, s
  <2> HIDE DEF s
  <2>8. Shaped(u, s, e)
    BY Zenon, <1>1, <1>3, <2>1, <2>2, <2>3, <2>4, <2>6, <2>7 DEF Shaped
  <2> QED
    BY Zenon, <2>8
<1> QED
  BY Zenon, <1>4, <1>5

LEMMA ShapedTiles ==
  ASSUME TypeInv, HeaderInv, NEW first \in 1 .. Tiles, NEW last \in first .. Tiles, PushTileGroup(first, last)
  PROVE  (\E u, s, e : Shaped(u, s, e)) \/ (\E u : Turned(u))
<1> DEFINE s == IF last = Tiles THEN Cleared(stream) ELSE [stream EXCEPT !.next = last + 1]
           e == Event("tiles", stream.frame, first .. last, None, FALSE)
<1>1. sent' = sent /\ sent \in Nat /\ sent' \in Nat /\ sent' >= sent /\ stream \in Streams /\ Tiles \in Nat /\ first \in Nat /\ last \in Nat
      /\ stream.frame \in Frames
  BY SerialAssumption DEF TypeInv, PushTileGroup, Streams
<1>2. CASE ~TileGroupParses(first)
  <2> DEFINE u == Unit("tiles", FALSE)
  <2>1. Refuse(u)
    BY Zenon, <1>2 DEF PushTileGroup
  <2>2. u \in Units /\ u.kind = "tiles"
    BY Zenon DEF Unit, Units, UnitKinds
  <2> HIDE DEF u
  <2> QED
    BY Zenon, <1>1, <2>1, <2>2 DEF Turned
<1>3. CASE TileGroupParses(first)
  <2> DEFINE u == Unit("tiles", last = Tiles)
  <2>1. Push(u, s, e)
    BY Zenon, <1>3 DEF PushTileGroup
  <2>2. u \in Units /\ u.kind = "tiles"
    BY Zenon DEF Unit, Units, UnitKinds
  <2>3. s \in Streams /\ (s.header => s.frame = stream.frame /\ last + 1 \in 1 .. Tiles /\ s.next = last + 1)
    <3>1. CASE last = Tiles
      <4>1. s = Cleared(stream)
        BY Zenon, <3>1
      <4> HIDE DEF s
      <4> QED
        BY Zenon, <1>1, <4>1, Constructors
    <3>2. CASE last # Tiles
      <4>1. s = [stream EXCEPT !.next = last + 1]
        BY Zenon, <3>2
      <4> HIDE DEF s
      <4> QED
        BY <1>1, <3>2, <4>1 DEF Streams
    <3> QED
      BY Zenon, <3>1, <3>2
  <2>4. stream.header /\ first = stream.next
    BY Zenon, <1>3 DEF TileGroupParses
  <2>5. e \in ProperEvents /\ e.kind = "tiles" /\ e.frame = stream.frame /\ e.tiles = first .. last /\ ~e.new
    <3>1. first .. last \in SUBSET (1 .. Tiles)
      BY <1>1
    <3> QED
      BY Zenon, <1>1, <3>1 DEF Event, ProperEvents, EventSet, Kinds
  <2> HIDE DEF u, e
  <2>6. stream' = s
    BY Zenon, <2>1 DEF Push
  <2>7. HeaderInv'
    <3> HIDE DEF s
    <3> SUFFICES ASSUME s.header PROVE s.frame.id \in 1 .. sent' /\ s.next \in 1 .. Tiles /\ (NoOrphans => Kept(s.frame))
      BY Zenon, <2>6 DEF HeaderInv
    <3> QED
      BY Zenon, <1>1, <2>3, <2>4 DEF HeaderInv
  <2>8. Parsed(stream, e, s)
    BY Zenon, <1>1, <2>4, <2>5 DEF Parsed
  <2>9. NoOrphans => Kept(stream.frame)
    BY Zenon, <2>4 DEF HeaderInv
  <2> HIDE DEF s
  <2>10. Shaped(u, s, e)
    BY Zenon, <1>1, <2>1, <2>2, <2>3, <2>5, <2>7, <2>8, <2>9 DEF Shaped
  <2> QED
    BY Zenon, <2>10
<1> QED
  BY Zenon, <1>2, <1>3

LEMMA ShapedExisting ==
  ASSUME TypeInv, HeaderInv, NEW slot \in Slots, PushExistingFrame(slot)
  PROVE  (\E u, s, e : Shaped(u, s, e)) \/ (\E u : Turned(u))
<1> DEFINE ref == stream.refs[slot]
           u == Unit("existing", FALSE)
           s == Existing(stream, ref)
           f == [NoFrame EXCEPT !.id = ref.id, !.key = ref.key]
           e == Event("existing", f, {}, slot, FALSE)
<1>1. sent' = sent /\ sent \in Nat /\ sent' \in Nat /\ sent' >= sent /\ stream \in Streams
  BY DEF TypeInv, PushExistingFrame
<1>2. u \in Units /\ u.kind = "existing"
  BY Zenon DEF Unit, Units, UnitKinds
<1>3. CASE ~(stream.have /\ ref.id # 0 /\ ref.showable)
  <2>1. Refuse(u)
    BY Zenon, <1>3 DEF PushExistingFrame
  <2> HIDE DEF u
  <2> QED
    BY Zenon, <1>1, <1>2, <2>1 DEF Turned
<1>4. CASE stream.have /\ ref.id # 0 /\ ref.showable
  <2>1. Push(u, s, e)
    BY Zenon, <1>4 DEF PushExistingFrame, Existing
  <2>2. ref \in Refs /\ [ref EXCEPT !.showable = FALSE] \in Refs /\ [t \in Slots |-> [ref EXCEPT !.showable = FALSE]] \in [Slots -> Refs]
    <3>1. ref \in Refs
      BY Zenon, <1>1 DEF Streams
    <3> HIDE DEF ref
    <3> QED
      BY Zenon, <3>1 DEF Refs
  <2>3. s \in Streams /\ ~s.header /\ s.frame = NoFrame
    <3>1. Cleared(stream) \in Streams /\ ~Cleared(stream).header /\ Cleared(stream).frame = NoFrame
      BY Zenon, <1>1, Constructors
    <3> HIDE DEF ref
    <3>2. CASE ref.key
      <4>1. s = [Cleared(stream) EXCEPT !.refs = [t \in Slots |-> [ref EXCEPT !.showable = FALSE]]]
        BY Zenon, <3>2 DEF Existing
      <4> QED
        BY Zenon, <2>2, <3>1, <4>1 DEF Streams
    <3>3. CASE ~ref.key
      <4>1. s = [Cleared(stream) EXCEPT !.refs = Cleared(stream).refs]
        BY Zenon, <3>3 DEF Existing
      <4> QED
        BY Zenon, <3>1, <4>1 DEF Streams
    <3> QED
      BY Zenon, <3>2, <3>3
  <2>4. f \in Frames /\ f.id = ref.id /\ f.key = ref.key
    BY Zenon, <2>2, Constructors DEF NoFrame, Frames, Refs
  <2>5. e \in ProperEvents /\ e.kind = "existing" /\ e.frame = f /\ e.slot = slot /\ ~e.new
    <3> HIDE DEF f
    <3> QED
      BY Zenon, <2>4 DEF Event, ProperEvents, EventSet, Kinds
  <2> HIDE DEF u, e, s
  <2>6. stream' = s
    BY Zenon, <2>1 DEF Push
  <2>7. HeaderInv'
    BY Zenon, <2>3, <2>6 DEF HeaderInv
  <2>8. ~tainted' => Parsed(stream, e, s)
    <3> SUFFICES ASSUME ~tainted' PROVE Parsed(stream, e, s)
      BY Zenon
    <3>1. stream.header => s.frame = stream.frame
      BY Zenon, <1>2, <2>1, PushFacts
    <3>2. stream.header => stream.frame # NoFrame
      BY <1>1 DEF HeaderInv, NoFrame
    <3>3. ~stream.header
      BY Zenon, <2>3, <3>1, <3>2
    <3>4. s = Existing(stream, stream.refs[e.slot])
      BY Zenon, <2>5 DEF s
    <3> QED
      BY Zenon, <1>4, <2>4, <2>5, <3>3, <3>4 DEF Parsed
  <2>9. Shaped(u, s, e)
    BY Zenon, <1>1, <1>2, <2>1, <2>3, <2>5, <2>7, <2>8 DEF Shaped
  <2> QED
    BY Zenon, <2>9
<1> QED
  BY Zenon, <1>3, <1>4

\* Every unit is parsed into an event, or ends the call.
LEMMA PushShape ==
  ASSUME TypeInv, HeaderInv, PushUnitInto
  PROVE  (MayFollow /\ \E u, s, e : Shaped(u, s, e)) \/ (\E u : Turned(u))
<1>1. CASE PushCorrupt
  <2> DEFINE u == Unit("corrupt", FALSE)
  <2>1. Refuse(u) /\ sent' = sent
    BY Zenon, <1>1 DEF PushCorrupt
  <2>2. u \in Units /\ u.kind = "corrupt"
    BY Zenon DEF Unit, Units, UnitKinds
  <2> HIDE DEF u
  <2> QED
    BY <2>1, <2>2 DEF Turned, TypeInv
<1>2. CASE \E new \in BOOLEAN : PushSequenceHeader(new) /\ MayFollow
  BY Zenon, <1>2, ShapedSequence
<1>3. CASE PushTemporalDelimiter /\ MayFollow
  BY Zenon, <1>3, ShapedDelimiter
<1>4. CASE MayFollow /\ \E first \in 1 .. Tiles : \E last \in first .. Tiles : PushTileGroup(first, last)
  BY Zenon, <1>4, ShapedTiles
<1>5. CASE MayFollow /\ \E s \in Slots : PushExistingFrame(s)
  BY Zenon, <1>5, ShapedExisting
<1>6. ASSUME NEW t \in Templates, MayFollow, PushFrameHeader(Sent(t)) \/ PushRedundantFrameHeader(Sent(t)) \/ \E last \in 1 .. Tiles : PushFrame(Sent(t), last)
      PROVE  (MayFollow /\ \E u, s, e : Shaped(u, s, e)) \/ (\E u : Turned(u))
  BY Zenon, <1>6, ShapedHeader, ShapedRedundant, ShapedFrame DEF PushFrameHeader
<1> QED
  BY Zenon, <1>1, <1>2, <1>3, <1>4, <1>5, <1>6 DEF PushUnitInto

-----------------------------------------------------------------------------
(* The invariant behind NothingLeaks.                                      *)

LastShows == \A k \in DOMAIN events : Shows(events[k]) => k = Len(events)
KeptEvents == \A k \in DOMAIN events : events[k].kind \in {"frame", "tiles"} => Kept(events[k].frame)

\* Within a call nothing is noted for release, and a frame is output by the
\* last event only; a frame is output when none is under way any more.
OneShown ==
  /\ phase # "idle" => shown = {}
  /\ phase = "parse" \/ (phase = "run" /\ events # <<>>) => out = {}
  /\ out # {} \/ shown # {} => ~work.active
  /\ LastShows

\* The part that wants every frame shown or kept for reference.
AllReached ==
  /\ KeptEvents
  /\ phase # "idle" => Reached(Now)
  /\ InReach
  /\ PoolSuffices

OwnInv == TypeInv /\ HeaderInv /\ Owned(Now) /\ OneShown /\ (NoOrphans => AllReached)

LEMMA OwnInit == Init => OwnInv
<1> SUFFICES ASSUME Init PROVE OwnInv
  BY Zenon
<1>1. TypeInv
  <2>1. Idle \in Works
    BY Zenon DEF Idle, Works
  <2>2. slots \in SlotMaps /\ content \in [Surfaces -> Int]
    BY DEF Init, SlotMaps
  <2>3. stream \in Streams
    BY Zenon, Constructors DEF Init
  <2> QED
    <3>1. /\ phase = "idle" /\ events = <<>> /\ work = Idle /\ unused = Surfaces /\ shown = {} /\ out = {} /\ result = "ok"
          /\ pushed = <<>> /\ sent = 0 /\ tainted = FALSE
      BY Zenon DEF Init
    <3>2. events \in Seq(ProperEvents) /\ pushed \in Seq(Units)
      BY <3>1
    <3> QED
      BY Zenon, <2>1, <2>2, <2>3, <3>1, <3>2 DEF TypeInv
<1>2. HeaderInv
  BY Zenon DEF Init, HeaderInv, EmptyStream
<1>3. Range(slots) \subseteq {None}
  BY Zenon, <1>1, RangeOf DEF Init, TypeInv
<1>4. Owned(Now)
  BY <1>1, <1>3, NowFacts, SerialAssumption DEF Init, Owned, Idle
<1>5. OneShown
  BY DEF Init, OneShown, LastShows
<1>6. AllReached
  BY DEF Init, AllReached, KeptEvents, InReach, PoolSuffices, Used
<1> QED
  BY Zenon, <1>1, <1>2, <1>4, <1>5, <1>6 DEF OwnInv

LEMMA NowStays ==
  ASSUME UNCHANGED <<work, slots, unused, content, out>>
  PROVE  /\ Owned(Now) => Owned(Now)'
         /\ Reached(Now) => Reached(Now)'
BY Zenon DEF Now, Owned, Reached, UnderWay, Drawn

LEMMA OwnCall ==
  ASSUME OwnInv, Call PROVE OwnInv'
<1>1. /\ unused' = unused \cup ((shown \cap Used) \ Held) /\ shown' = {} /\ out' = {} /\ phase' = "parse"
      /\ events' = <<>> /\ pushed' = <<>> /\ result' = "ok" /\ phase = "idle"
      /\ UNCHANGED <<stream, work, slots, content, sent, tainted>>
  BY Zenon DEF Call, releaseShownSurfaces
<1>2. TypeInv'
  BY <1>1 DEF OwnInv, TypeInv, Used
<1>3. HeaderInv'
  BY Zenon, <1>1 DEF OwnInv, HeaderInv
<1>4. Owned(Now) <=> /\ Range(slots) \cap unused = {}
                     /\ work.active => work.surface \in Surfaces \ (unused \cup Range(slots))
  BY Zenon DEF Owned, Now
<1>5. Owned(Now)' <=> /\ Range(slots)' \cap unused' = {}
                      /\ work'.active => work'.surface \in Surfaces \ (unused' \cup Range(slots)')
  BY Zenon DEF Owned, Now
<1>6. shown # {} => ~work.active
  BY Zenon DEF OwnInv, OneShown
<1>7. Range(slots)' = Range(slots) /\ None \notin Surfaces
  BY Zenon, <1>1, SerialAssumption
<1>8. Owned(Now)'
  <2>1. shown \subseteq Surfaces
    BY Zenon DEF OwnInv, TypeInv
  <2> QED
    BY Zenon, <1>1, <1>4, <1>5, <1>6, <1>7, <2>1 DEF OwnInv, Held
<1>9. OneShown'
  BY <1>1 DEF OneShown, LastShows
<1>10. ASSUME NoOrphans PROVE AllReached'
  <2>1. Used \subseteq Held \cup shown \cup (IF work.active THEN {work.surface} ELSE {})
    BY Zenon, <1>1, <1>10 DEF OwnInv, AllReached, InReach
  <2>2. Surfaces \ unused' \subseteq Range(slots) \cup (IF work.active THEN {work.surface} ELSE {})
    BY Zenon, <1>1, <2>1 DEF Used, Held
  <2>3. Reached(Now)'
    BY Zenon, <1>1, <2>2 DEF Reached, Now, UnderWay
  <2> QED
    BY <1>1, <2>3 DEF AllReached, KeptEvents, InReach, PoolSuffices
<1> QED
  BY Zenon, <1>2, <1>3, <1>8, <1>9, <1>10 DEF OwnInv, NoOrphans

LEMMA OwnPush ==
  ASSUME OwnInv, PushUnitInto PROVE OwnInv'
<1> USE DEF OwnInv
<1>1. CASE MayFollow /\ \E u, s, e : Shaped(u, s, e)
  <2> PICK u, s, e : Shaped(u, s, e)
    BY Zenon, <1>1
  <2>1. /\ u \in Units /\ s \in Streams /\ e \in ProperEvents /\ sent' \in Nat /\ HeaderInv'
        /\ NoOrphans /\ e.kind \in {"frame", "tiles"} => Kept(e.frame)
    BY Zenon DEF Shaped
  <2>2. /\ phase = "parse" /\ pushed' = Append(pushed, u) /\ stream' = s /\ events' = Append(events, e)
        /\ tainted' \in BOOLEAN
        /\ UNCHANGED <<phase, work, slots, unused, content, shown, out, result>>
    BY Zenon DEF Shaped, Push, decoder, TypeInv
  <2>3. TypeInv'
    BY <2>1, <2>2 DEF TypeInv
  <2>4. /\ DOMAIN events' = 1 .. Len(events) + 1 /\ Len(events') = Len(events) + 1
        /\ \A k \in DOMAIN events' : events'[k] = IF k = Len(events) + 1 THEN e ELSE events[k]
        /\ DOMAIN events = 1 .. Len(events) /\ Len(events) \in Nat
    BY <2>1, <2>2 DEF TypeInv
  <2>5. LastShows'
    BY <1>1, <2>4 DEF LastShows, MayFollow
  <2>6. OneShown'
    BY Zenon, <2>2, <2>5 DEF OneShown
  <2>7. ASSUME NoOrphans PROVE AllReached'
    <3>1. KeptEvents'
      BY <2>1, <2>4, <2>7 DEF AllReached, KeptEvents
    <3> QED
      BY Zenon, <2>2, <2>7, <3>1, NowStays DEF AllReached, InReach, PoolSuffices
  <2> QED
    BY Zenon, <2>1, <2>2, <2>3, <2>6, <2>7, NowStays DEF NoOrphans
<1>2. CASE \E u : Turned(u)
  <2> PICK u : Turned(u)
    BY Zenon, <1>2
  <2>1. /\ u \in Units /\ sent' \in Nat /\ sent' >= sent
        /\ phase = "parse" /\ phase' = "idle" /\ pushed' = Append(pushed, u) /\ result' = "unparsed" /\ out' = {} /\ tainted' = TRUE
        /\ UNCHANGED <<stream, events, work, slots, unused, content, shown>>
    BY Zenon DEF Turned, Refuse, Fail
  <2>2. out = {} /\ shown = {}
    BY Zenon, <2>1 DEF OneShown
  <2>3. TypeInv'
    BY <2>1 DEF TypeInv
  <2>4. HeaderInv'
    BY <2>1 DEF HeaderInv, TypeInv
  <2>5. OneShown'
    BY Zenon, <2>1, <2>2 DEF OneShown, LastShows
  <2>6. ASSUME NoOrphans PROVE AllReached'
    <3>1. Reached(Now)
      BY Zenon, <2>1, <2>6 DEF AllReached
    <3>2. Surfaces \ unused \subseteq Range(slots) \cup (IF work.active THEN {work.surface} ELSE {})
      BY Zenon, <2>2, <3>1 DEF Reached, Now, UnderWay, Drawn
    <3>3. InReach'
      BY Zenon, <2>1, <3>2, SerialAssumption DEF InReach, Used, Held
    <3> QED
      BY Zenon, <2>1, <2>6, <3>3 DEF AllReached, KeptEvents, PoolSuffices
  <2> QED
    BY Zenon, <2>1, <2>2, <2>3, <2>4, <2>5, <2>6, NowStays DEF NoOrphans
<1> QED
  BY Zenon, <1>1, <1>2, PushShape

LEMMA OwnRunParsed ==
  ASSUME OwnInv, RunParsedEvents PROVE OwnInv'
<1> USE DEF OwnInv
<1>1. phase = "parse" /\ phase' = "run"
      /\ UNCHANGED <<stream, events, work, slots, unused, content, shown, out, result, pushed, sent, tainted>>
  BY Zenon DEF RunParsedEvents, decoder
<1>2. TypeInv' /\ HeaderInv'
  BY Zenon, <1>1 DEF TypeInv, HeaderInv
<1>3. OneShown'
  BY Zenon, <1>1 DEF OneShown, LastShows
<1>4. ASSUME NoOrphans PROVE AllReached'
  BY Zenon, <1>1, <1>4, NowStays DEF AllReached, KeptEvents, InReach, PoolSuffices
<1> QED
  BY Zenon, <1>1, <1>2, <1>3, <1>4, NowStays DEF NoOrphans

LEMMA OwnReturn ==
  ASSUME OwnInv, Return PROVE OwnInv'
<1> USE DEF OwnInv
<1>1. phase = "run" /\ events = <<>> /\ phase' = "idle" /\ shown' = {o.surface : o \in out} \cap Used
      /\ UNCHANGED <<stream, events, work, slots, unused, content, out, result, pushed, sent, tainted>>
  BY Zenon DEF Return, trackShownSurfaces
<1>2. TypeInv' /\ HeaderInv'
  BY Zenon, <1>1 DEF TypeInv, HeaderInv, Used
<1>3. OneShown'
  BY Zenon, <1>1 DEF OneShown, LastShows
<1>4. ASSUME NoOrphans PROVE AllReached'
  <2>1. Reached(Now)
    BY Zenon, <1>1, <1>4 DEF AllReached
  <2>2. Surfaces \ unused \subseteq Range(slots) \cup (IF work.active THEN {work.surface} ELSE {}) \cup {o.surface : o \in out}
    BY Zenon, <2>1 DEF Reached, Now, UnderWay, Drawn
  <2>3. InReach'
    BY Zenon, <1>1, <2>2, SerialAssumption DEF InReach, Used, Held
  <2> QED
    BY Zenon, <1>1, <1>4, <2>3 DEF AllReached, KeptEvents, PoolSuffices
<1> QED
  BY Zenon, <1>1, <1>2, <1>3, <1>4, NowStays DEF NoOrphans

LEMMA OwnReset ==
  ASSUME OwnInv, Reset PROVE OwnInv'
<1> USE DEF OwnInv
<1>1. /\ phase = "idle" /\ stream' = EmptyStream /\ work' = Idle /\ slots' = [s \in Slots |-> None]
      /\ unused' = Surfaces /\ shown' = {} /\ out' = {} /\ result' = "ok" /\ pushed' = <<>> /\ events' = <<>>
      /\ tainted' = FALSE /\ UNCHANGED <<phase, content, sent>>
  BY Zenon DEF Reset, ResetStream
<1>2. TypeInv'
  <2>1. Idle \in Works
    BY Zenon DEF Idle, Works
  <2>2. slots' \in SlotMaps
    BY Zenon, <1>1 DEF SlotMaps
  <2>3. stream' \in Streams
    BY Zenon, <1>1, Constructors
  <2> QED
    <3>1. events' \in Seq(ProperEvents) /\ pushed' \in Seq(Units)
      BY <1>1
    <3> QED
      BY Zenon, <1>1, <2>1, <2>2, <2>3, <3>1 DEF TypeInv
<1>3. HeaderInv'
  BY Zenon, <1>1 DEF HeaderInv, EmptyStream
<1>4. Range(slots') \subseteq {None}
  BY Zenon, <1>1, <1>2, RangeOf DEF TypeInv
<1>5. Owned(Now)'
  <2>1. Owned(Now)' <=> /\ Range(slots') \cap unused' = {}
                        /\ work'.active => work'.surface \in Surfaces \ (unused' \cup Range(slots'))
    BY Zenon DEF Owned, Now
  <2> QED
    BY Zenon, <1>1, <1>4, <2>1, SerialAssumption DEF Idle
<1>6. OneShown'
  BY <1>1 DEF OneShown, LastShows
<1>7. AllReached'
  BY <1>1 DEF AllReached, KeptEvents, InReach, PoolSuffices, Used
<1> QED
  BY Zenon, <1>2, <1>3, <1>5, <1>6, <1>7

\* The outcome d of the event at the head of the queue.
Outcome(e, surface, d) ==
  /\ phase = "run" /\ events # <<>> /\ e = Head(events) /\ e \in ProperEvents
  /\ Begins(e) => surface \in unused
  /\ d = Ran(e, surface)

LEMMA RunShape ==
  ASSUME TypeInv, Run
  PROVE  /\ UNCHANGED <<stream, shown, pushed, sent>>
         /\ \/ /\ phase = "run" /\ events # <<>> /\ Begins(Head(events)) /\ unused = {}
               /\ Fail(IF work.active \/ \E s \in Head(events).frame.refs : slots[s] = None THEN "refused" ELSE "empty")
               /\ UNCHANGED <<events, work, slots, unused, content>>
            \/ \E e, surface, d :
                 /\ Outcome(e, surface, d) /\ Becomes(d)
                 /\ \/ d.ok /\ out' = d.out /\ events' = Tail(events) /\ UNCHANGED <<phase, result, tainted>>
                    \/ ~d.ok /\ Fail("refused") /\ UNCHANGED events
<1> DEFINE e == Head(events)
<1>1. phase = "run" /\ events # <<>> /\ UNCHANGED <<stream, shown, pushed, sent>>
  BY Zenon DEF Run
<1>2. e \in ProperEvents
  BY <1>1 DEF TypeInv
<1>3. None \notin unused
  BY Zenon, SerialAssumption DEF TypeInv
<1>4. PICK surface \in IF Begins(e) /\ unused # {} THEN unused ELSE {None} :
        \/ /\ Begins(e) /\ surface = None
           /\ Fail(IF work.active \/ \E s \in e.frame.refs : slots[s] = None THEN "refused" ELSE "empty")
           /\ UNCHANGED <<events, work, slots, unused, content>>
        \/ /\ ~(Begins(e) /\ surface = None)
           /\ Ran(e, surface).ok /\ Becomes(Ran(e, surface)) /\ out' = Ran(e, surface).out /\ events' = Tail(events)
           /\ UNCHANGED <<phase, result, tainted>>
        \/ /\ ~(Begins(e) /\ surface = None)
           /\ ~Ran(e, surface).ok /\ Becomes(Ran(e, surface)) /\ Fail("refused") /\ UNCHANGED events
  BY Zenon DEF Run
<1> HIDE DEF e
<1>5. CASE Begins(e) /\ surface = None
  BY Zenon, <1>1, <1>3, <1>4, <1>5 DEF e
<1>6. CASE ~(Begins(e) /\ surface = None)
  <2> DEFINE d == Ran(e, surface)
  <2>1. Outcome(e, surface, d)
    BY Zenon, <1>1, <1>2, <1>4, <1>6 DEF Outcome, e
  <2>2. \/ d.ok /\ Becomes(d) /\ out' = d.out /\ events' = Tail(events) /\ UNCHANGED <<phase, result, tainted>>
        \/ ~d.ok /\ Becomes(d) /\ Fail("refused") /\ UNCHANGED events
    BY Zenon, <1>4, <1>6
  <2> HIDE DEF d
  <2> QED
    BY Zenon, <1>1, <2>1, <2>2
<1> QED
  BY Zenon, <1>5, <1>6

\* A step that puts d in place of the surfaces' state, and fails or goes on.
LEMMA OwnFails ==
  ASSUME OwnInv, phase = "run", events # <<>>, NEW e, e = Head(events), NEW d, Keeps(Now, d, e), d.out = out,
         Becomes(d), NEW how \in {"refused", "failed"}, Fail(how), UNCHANGED <<stream, events, shown, pushed, sent>>
  PROVE  OwnInv'
<1> USE DEF OwnInv
<1>1. /\ phase' = "idle" /\ result' = how /\ out' = {} /\ tainted' = TRUE
      /\ work' = d.work /\ slots' = d.slots /\ unused' = d.unused /\ content' = d.content
  BY Zenon DEF Fail, Becomes
<1>2. d \in States /\ Owned(d)
  BY Zenon DEF Keeps
<1>3. out = {} /\ shown = {}
  BY Zenon DEF OneShown
<1>4. TypeInv'
  BY Zenon, <1>1, <1>2 DEF TypeInv, States
<1>5. HeaderInv'
  BY Zenon DEF HeaderInv
<1>6. Owned(Now)'
  BY Zenon, <1>1, <1>2 DEF Owned, Now
<1>7. OneShown'
  BY Zenon, <1>1, <1>3 DEF OneShown, LastShows
<1>8. ASSUME NoOrphans PROVE AllReached'
  <2>1. 1 \in DOMAIN events /\ events[1] = e
    BY DEF TypeInv
  <2>2. Reached(Now) /\ (e.kind \in {"frame", "tiles"} => Kept(e.frame))
    BY Zenon, <1>8, <2>1 DEF AllReached, KeptEvents
  <2>3. Reached(d) /\ d.out = {}
    BY Zenon, <1>3, <2>2 DEF Keeps
  <2>4. Surfaces \ unused' \subseteq Range(slots') \cup (IF work'.active THEN {work'.surface} ELSE {})
    BY Zenon, <1>1, <2>3 DEF Reached, UnderWay, Drawn
  <2>5. InReach'
    BY Zenon, <2>4, SerialAssumption DEF InReach, Used, Held
  <2> QED
    BY Zenon, <1>1, <1>8, <2>5 DEF AllReached, KeptEvents, PoolSuffices
<1> QED
  BY Zenon, <1>4, <1>5, <1>6, <1>7, <1>8 DEF NoOrphans

LEMMA OwnGoesOn ==
  ASSUME OwnInv, phase = "run", events # <<>>, NEW e, e = Head(events), NEW d, Keeps(Now, d, e), d.ok,
         Becomes(d), out' = d.out, events' = Tail(events), UNCHANGED <<phase, result, tainted, stream, shown, pushed, sent>>
  PROVE  OwnInv'
<1> USE DEF OwnInv
<1>1. work' = d.work /\ slots' = d.slots /\ unused' = d.unused /\ content' = d.content
  BY Zenon DEF Becomes
<1>2. d \in States /\ Owned(d) /\ (~Shows(e) => d.out = Now.out) /\ (d.out # Now.out => ~d.work.active)
  BY Zenon DEF Keeps
<1>3. out = {} /\ shown = {} /\ Now.out = out
  BY Zenon DEF OneShown, Now
<1>4. TypeInv'
  BY <1>1, <1>2 DEF TypeInv, States
<1>5. HeaderInv'
  BY Zenon DEF HeaderInv
<1>6. Owned(Now)'
  BY Zenon, <1>1, <1>2 DEF Owned, Now
<1>7. /\ Len(events) \in Nat \ {0} /\ DOMAIN events = 1 .. Len(events) /\ events[1] = e
      /\ Len(events') = Len(events) - 1 /\ DOMAIN events' = 1 .. Len(events) - 1
      /\ \A k \in DOMAIN events' : events'[k] = events[k + 1] /\ k + 1 \in DOMAIN events
      /\ events' # <<>> => Len(events) # 1
  BY DEF TypeInv
<1>8. LastShows'
  BY <1>7 DEF OneShown, LastShows
<1>9. OneShown'
  <2>1. events' # <<>> => ~Shows(e)
    BY <1>7 DEF OneShown, LastShows
  <2> QED
    BY Zenon, <1>1, <1>2, <1>3, <1>8, <2>1 DEF OneShown
<1>10. ASSUME NoOrphans PROVE AllReached'
  <2>1. Reached(Now) /\ (e.kind \in {"frame", "tiles"} => Kept(e.frame)) /\ PoolSuffices /\ KeptEvents
    BY <1>7, <1>10 DEF AllReached, KeptEvents
  <2>2. Reached(d)
    BY Zenon, <2>1 DEF Keeps
  <2>3. Reached(Now)'
    BY Zenon, <1>1, <2>2 DEF Reached, Now, UnderWay, Drawn
  <2>4. KeptEvents'
    BY Zenon, <1>7, <2>1 DEF KeptEvents
  <2> QED
    BY Zenon, <2>1, <2>3, <2>4 DEF AllReached, InReach, PoolSuffices
<1> QED
  BY Zenon, <1>4, <1>5, <1>6, <1>9, <1>10 DEF NoOrphans

\* There is one more surface than slots: without a frame under way one is free.
LEMMA OneIsFree ==
  ASSUME OwnInv, NoOrphans, phase = "run", events # <<>>, ~work.active
  PROVE  unused # {}
<1> SUFFICES ASSUME unused = {} PROVE FALSE
  BY Zenon
<1>1. out = {} /\ Reached(Now) /\ slots \in [Slots -> Surfaces \cup {None}]
  BY Zenon DEF OwnInv, OneShown, AllReached, TypeInv, SlotMaps
<1>2. Surfaces \subseteq Range(slots)
  BY Zenon, <1>1 DEF Reached, Now, UnderWay, Drawn
<1> DEFINE f == [p \in Surfaces |-> CHOOSE s \in Slots : slots[s] = p]
<1>3. \A p \in Surfaces : f[p] \in Slots /\ slots[f[p]] = p
  <2> SUFFICES ASSUME NEW p \in Surfaces PROVE f[p] \in Slots /\ slots[f[p]] = p
    BY Zenon
  <2>1. \E s \in Slots : slots[s] = p
    BY Zenon, <1>1, <1>2 DEF Range
  <2> QED
    BY Zenon, <2>1
<1>4. f \in [Surfaces -> Slots]
  BY Zenon, <1>3
<1> HIDE DEF f
<1>5. /\ IsFiniteSet(Surfaces) /\ IsFiniteSet(Slots) /\ Cardinality(Slots) < Cardinality(Surfaces)
  BY SerialAssumption, FS_CardinalityType
<1>6. \E x, y \in Surfaces : x # y /\ f[x] = f[y]
  BY Zenon, <1>4, <1>5, FS_PigeonHole
<1> QED
  BY Zenon, <1>3, <1>6

LEMMA OwnRun ==
  ASSUME OwnInv, Run PROVE OwnInv'
<1>0. TypeInv /\ Owned(Now) /\ Now.out = out
  BY Zenon DEF OwnInv, Now
<1>1. UNCHANGED <<stream, shown, pushed, sent>>
  BY Zenon, <1>0, RunShape
<1>2. CASE /\ phase = "run" /\ events # <<>> /\ Begins(Head(events)) /\ unused = {}
           /\ Fail(IF work.active \/ \E s \in Head(events).frame.refs : slots[s] = None THEN "refused" ELSE "empty")
           /\ UNCHANGED <<events, work, slots, unused, content>>
  <2>1. /\ phase' = "idle" /\ out' = {} /\ tainted' = TRUE /\ result' \in {"refused", "empty"}
        /\ ~work.active \/ result' = "refused"
    BY Zenon, <1>2 DEF Fail
  <2>2. out = {} /\ shown = {}
    BY Zenon, <1>2 DEF OwnInv, OneShown
  <2>3. TypeInv'
    BY Zenon, <1>1, <1>2, <2>1 DEF OwnInv, TypeInv
  <2>4. HeaderInv'
    BY Zenon, <1>1 DEF OwnInv, HeaderInv
  <2>5. OneShown'
    BY Zenon, <1>1, <1>2, <2>1, <2>2 DEF OwnInv, OneShown, LastShows
  <2>6. Owned(Now)'
    BY Zenon, <1>2, <2>1, <2>2, NowStays DEF OwnInv
  <2>7. ASSUME NoOrphans PROVE AllReached'
    <3>1. result' = "refused"
      BY Zenon, <1>2, <2>1, <2>7, OneIsFree
    <3>2. Reached(Now) /\ KeptEvents
      BY Zenon, <1>2, <2>7 DEF OwnInv, AllReached
    <3>3. Surfaces \ unused \subseteq Range(slots) \cup (IF work.active THEN {work.surface} ELSE {})
      BY Zenon, <2>2, <3>2 DEF Reached, Now, UnderWay, Drawn
    <3>4. InReach'
      BY Zenon, <1>2, <3>3, SerialAssumption DEF InReach, Used, Held
    <3> QED
      BY Zenon, <1>2, <2>1, <3>1, <3>2, <3>4 DEF AllReached, KeptEvents, PoolSuffices
  <2> QED
    BY Zenon, <2>3, <2>4, <2>5, <2>6, <2>7 DEF OwnInv, NoOrphans
<1>3. ASSUME NEW e, NEW surface, NEW d, Outcome(e, surface, d), Becomes(d),
             \/ d.ok /\ out' = d.out /\ events' = Tail(events) /\ UNCHANGED <<phase, result, tainted>>
             \/ ~d.ok /\ Fail("refused") /\ UNCHANGED events
      PROVE  OwnInv'
  <2>1. phase = "run" /\ events # <<>> /\ e = Head(events) /\ e \in ProperEvents /\ (Begins(e) => surface \in unused) /\ d = Ran(e, surface)
    BY Zenon, <1>3 DEF Outcome
  <2>2. Keeps(Now, d, e)
    BY Zenon, <1>0, <2>1, RanKeeps
  <2>3. CASE d.ok
    BY Zenon, <1>1, <1>3, <2>1, <2>2, <2>3, OwnGoesOn
  <2>4. CASE ~d.ok
    <3>1. d.out = out
      BY Zenon, <1>0, <2>2, <2>4 DEF Keeps
    <3> QED
      BY Zenon, <1>1, <1>3, <2>1, <2>2, <2>4, <3>1, OwnFails
  <2> QED
    BY Zenon, <2>3, <2>4
<1> QED
  BY Zenon, <1>0, <1>2, <1>3, RunShape

LEMMA OwnRunFails ==
  ASSUME OwnInv, RunFails PROVE OwnInv'
<1> DEFINE e == Head(events)
<1>1. phase = "run" /\ events # <<>> /\ Fail("failed") /\ UNCHANGED <<stream, events, shown, pushed, sent>>
  BY Zenon DEF RunFails
<1>2. TypeInv /\ Owned(Now) /\ Now.out = out /\ e \in ProperEvents
  BY <1>1 DEF OwnInv, Now, TypeInv
<1>3. CASE e.kind = "frame"
  <2>1. PICK surface \in unused : Becomes(Begin(Now, e, surface))
    BY Zenon, <1>3 DEF RunFails
  <2> DEFINE d == Begin(Now, e, surface)
  <2>2. Keeps(Now, d, e) /\ d.out = out
    BY Zenon, <1>2, BeginKept
  <2> HIDE DEF d
  <2> QED
    BY Zenon, <1>1, <2>1, <2>2, OwnFails DEF d
<1>4. CASE e.kind # "frame"
  <2>1. Becomes(Now)
    BY Zenon, <1>4 DEF RunFails
  <2>2. Keeps(Now, Now, e)
    BY Zenon, <1>2, NowFacts DEF Keeps
  <2> QED
    BY Zenon, <1>1, <1>2, <2>1, <2>2, OwnFails
<1> QED
  BY Zenon, <1>3, <1>4

LEMMA OwnStep ==
  ASSUME OwnInv, [Next]_vars PROVE OwnInv'
<1>1. CASE UNCHANGED vars
  BY ZenonT(60), <1>1 DEF vars, OwnInv, TypeInv, HeaderInv, Now, Owned, OneShown, LastShows, AllReached, KeptEvents, Reached, UnderWay,
              Drawn, InReach, Used, Held, PoolSuffices, NoOrphans
<1> QED
  BY Zenon, <1>1, OwnCall, OwnPush, OwnRunParsed, OwnRun, OwnRunFails, OwnReturn, OwnReset DEF Next

\* No surface has two owners in any state, whatever fails and whatever the
\* frames are: what a slot holds or a frame is decoded into is not in the pool
\* (SurfaceReferences.apply, FrameWorkState.Abort, releaseShownSurfaces).
THEOREM OneOwner == Spec => []SurfacesHeld
<1>1. OwnInv => SurfacesHeld
  BY Zenon DEF OwnInv, Owned, Now, SurfacesHeld, Held
<1>2. Init => OwnInv
  BY Zenon, OwnInit
<1>3. OwnInv /\ [Next]_vars => OwnInv'
  BY Zenon, OwnStep
<1> QED
  BY <1>1, <1>2, <1>3, PTL DEF Spec

\* No surface is lost and a frame is never refused for want of one, for any
\* number of slots and tiles and any frames that are shown or kept.
THEOREM SurfacesSuffice == NoOrphans => (Spec => []NothingLeaks)
<1> SUFFICES ASSUME NoOrphans PROVE Spec => []NothingLeaks
  BY Zenon
<1>1. OwnInv => NothingLeaks
  BY Zenon DEF OwnInv, Owned, Now, NothingLeaks, SurfacesHeld, Held, AllReached
<1>2. Init => OwnInv
  BY Zenon, OwnInit
<1>3. OwnInv /\ [Next]_vars => OwnInv'
  BY Zenon, OwnStep
<1> QED
  BY <1>1, <1>2, <1>3, PTL DEF Spec

-----------------------------------------------------------------------------
(* The invariant behind KeyRecovers.                                       *)

NewSequence(e) == e.kind = "sequence" /\ e.new
KeyEvent(e) == e.kind = "frame" /\ e.frame.refs = {}

\* The event that unit u was parsed into.
Meant(u, e) == /\ u.kind = "sequence" /\ u.last => NewSequence(e)
               /\ u.kind = "key" => KeyEvent(e)

\* What is left to run of a payload that starts anew.
Ahead == \/ Len(events) = 2 /\ NewSequence(events[1]) /\ KeyEvent(events[2])
         \/ Len(events) = 1 /\ KeyEvent(events[1]) /\ ~work.active
         \/ events = <<>>

KeyInv ==
  /\ phase # "idle" => result = "ok"
  /\ phase = "parse" => Len(events) = Len(pushed) /\ \A k \in DOMAIN pushed : Meant(pushed[k], events[k])
  /\ phase = "run" /\ Restart => Ahead
  /\ KeyRecovers

LEMMA KeyPush ==
  ASSUME OwnInv, KeyInv, PushUnitInto PROVE KeyInv'
<1>0. TypeInv /\ HeaderInv
  BY Zenon DEF OwnInv
<1>1. CASE \E u, s, e : Shaped(u, s, e)
  <2> PICK u, s, e : Shaped(u, s, e)
    BY Zenon, <1>1
  <2>1. u \in Units /\ e \in ProperEvents /\ Meant(u, e)
    BY Zenon DEF Shaped, Meant, NewSequence, KeyEvent
  <2>2. phase = "parse" /\ pushed' = Append(pushed, u) /\ events' = Append(events, e) /\ UNCHANGED <<phase, result>>
    BY Zenon DEF Shaped, Push
  <2>3. /\ pushed \in Seq(Units) /\ events \in Seq(ProperEvents) /\ Len(events) = Len(pushed)
        /\ \A k \in DOMAIN pushed : Meant(pushed[k], events[k])
    BY Zenon, <1>0, <2>2 DEF TypeInv, KeyInv
  <2>4. Len(events') = Len(pushed') /\ DOMAIN pushed' = 1 .. Len(pushed) + 1 /\ DOMAIN pushed = 1 .. Len(pushed)
    BY <2>1, <2>2, <2>3
  <2>5. \A k \in DOMAIN pushed' : Meant(pushed'[k], events'[k])
    <3> SUFFICES ASSUME NEW k \in 1 .. Len(pushed) + 1 PROVE Meant(pushed'[k], events'[k])
      BY Zenon, <2>4
    <3>1. CASE k = Len(pushed) + 1
      <4>1. pushed'[k] = u /\ events'[k] = e
        BY <2>1, <2>2, <2>3, <3>1
      <4> QED
        BY Zenon, <2>1, <4>1
    <3>2. CASE k # Len(pushed) + 1
      <4>1. k \in DOMAIN pushed /\ pushed'[k] = pushed[k] /\ events'[k] = events[k]
        BY <2>1, <2>2, <2>3, <3>2
      <4> QED
        BY Zenon, <2>3, <4>1
    <3> QED
      BY Zenon, <3>1, <3>2
  <2> QED
    BY Zenon, <2>2, <2>4, <2>5 DEF KeyInv, KeyRecovers
<1>2. CASE \E u : Turned(u)
  <2>1. phase' = "idle" /\ result' = "unparsed"
    BY Zenon, <1>2 DEF Turned, Refuse, Fail
  <2> QED
    BY Zenon, <2>1 DEF KeyInv, KeyRecovers
<1> QED
  BY Zenon, <1>0, <1>1, <1>2, PushShape

\* A frame without references finds the decoder idle and a surface free.
LEMMA KeyDecodes ==
  ASSUME TypeInv, Owned(Now), NEW e \in ProperEvents, KeyEvent(e), ~work.active, NEW surface \in unused
  PROVE  Ran(e, surface).ok
<1> DEFINE b == Begin(Now, e, surface)
<1>1. Now \in States /\ Now.ok /\ Now.work = work /\ e \in EventSet /\ surface \in Surfaces /\ Now.unused = unused
  BY Zenon, NowFacts DEF ProperEvents, TypeInv
<1>2. HasReferences(Now, e)
  BY Zenon DEF KeyEvent, HasReferences
<1>3. b \in States /\ b.ok /\ b.work = [active |-> TRUE, surface |-> surface, inter |-> e.frame.inter, parts |-> {}]
  BY ZenonT(60), <1>1, <1>2, BeginFacts
<1>4. b.work.active /\ b.work.inter = e.frame.inter
  BY <1>3
<1>5. Owned(b)
  BY Zenon, <1>1, <1>2, BeginKeeps
<1>6. Ran(e, surface) = IF b.ok THEN Decode(b, e) ELSE b
  BY Zenon DEF Ran, KeyEvent, ProperEvents
<1> HIDE DEF b
<1> DEFINE p == Parted(b, e)
<1>7. p \in States /\ p.ok /\ p.work.active /\ e.frame \in Frames
  BY Zenon, <1>1, <1>3, <1>4, PartedFacts DEF EventSet
<1>8. Owned(p)
  BY Zenon, <1>1, <1>3, <1>5, PartedKeeps
<1> HIDE DEF p
<1>9. Finish(p, e.frame).ok
  BY Zenon, <1>7, <1>8, FinishFacts
<1>10. Decode(b, e) = IF Tiles \in e.tiles THEN Finish(p, e.frame) ELSE p
  BY Zenon, <1>1, <1>3, <1>4, DecodeCases DEF p
<1> QED
  BY Zenon, <1>3, <1>6, <1>7, <1>9, <1>10

LEMMA KeyRun ==
  ASSUME NoOrphans, OwnInv, KeyInv, Run PROVE KeyInv'
<1>0. TypeInv /\ Owned(Now) /\ Now \in States /\ Now.ok
  BY Zenon, NowFacts DEF OwnInv
<1>1. UNCHANGED <<stream, shown, pushed, sent>> /\ (Restart' <=> Restart) /\ events \in Seq(ProperEvents) /\ phase = "run" /\ events # <<>>
  BY Zenon, <1>0, RunShape DEF Restart, Outcome, TypeInv
<1>2. Restart => Ahead
  BY Zenon, <1>1 DEF KeyInv
<1>3. CASE /\ Begins(Head(events)) /\ unused = {}
           /\ Fail(IF work.active \/ \E s \in Head(events).frame.refs : slots[s] = None THEN "refused" ELSE "empty")
  <2>1. work.active
    BY Zenon, <1>1, <1>3, OneIsFree
  <2>2. ~Ahead
    BY <1>1, <1>3, <2>1 DEF Ahead, Begins, NewSequence
  <2> QED
    BY Zenon, <1>1, <1>2, <1>3, <2>2 DEF Fail, KeyInv, KeyRecovers
<1>4. ASSUME NEW e, NEW surface, NEW d, Outcome(e, surface, d), Becomes(d),
             \/ d.ok /\ out' = d.out /\ events' = Tail(events) /\ UNCHANGED <<phase, result, tainted>>
             \/ ~d.ok /\ Fail("refused") /\ UNCHANGED events
      PROVE  KeyInv'
  <2>1. e = Head(events) /\ e = events[1] /\ e \in ProperEvents /\ (Begins(e) => surface \in unused) /\ d = Ran(e, surface) /\ work' = d.work
    BY <1>1, <1>4 DEF Outcome, Becomes
  <2>2. CASE ~Restart
    <3>1. phase' # "parse" /\ (phase' # "idle" => result' = "ok")
      BY Zenon, <1>1, <1>4, <2>2 DEF Fail, KeyInv
    <3> QED
      BY Zenon, <1>1, <2>2, <3>1 DEF KeyInv, KeyRecovers
  <2>3. CASE Restart /\ Len(events) = 2 /\ NewSequence(e) /\ KeyEvent(events[2])
    <3>1. d = Drop(Now, e) /\ e \in EventSet
      BY Zenon, <2>1, <2>3 DEF Ran, NewSequence, ProperEvents
    <3>2. d.ok /\ ~d.work.active
      BY Zenon, <1>0, <3>1, DropFacts
    <3>3. events' = Tail(events) /\ Len(events') = 1 /\ events'[1] = events[2] /\ UNCHANGED <<phase, result>>
      <4>1. events' = Tail(events) /\ UNCHANGED <<phase, result>>
        BY Zenon, <1>4, <3>2
      <4>2. Len(events) = 2 /\ events \in Seq(ProperEvents)
        BY Zenon, <1>1, <2>3
      <4>3. Len(Tail(events)) = Len(events) - 1 /\ \A k \in 1 .. Len(events) - 1 : Tail(events)[k] = events[k + 1]
        BY <1>1, <4>2
      <4>4. Len(Tail(events)) = 1 /\ Tail(events)[1] = events[2]
        BY <4>2, <4>3
      <4> QED
        BY Zenon, <4>1, <4>4
    <3>4. phase' = "run" /\ result' = "ok" /\ Ahead'
      BY Zenon, <1>1, <2>1, <2>3, <3>2, <3>3 DEF KeyInv, Ahead
    <3> QED
      BY Zenon, <3>4 DEF KeyInv, KeyRecovers
  <2>4. CASE Restart /\ Len(events) = 1 /\ KeyEvent(e) /\ ~work.active
    <3>1. surface \in unused
      BY Zenon, <2>1, <2>4 DEF KeyEvent, Begins
    <3>2. d.ok
      BY Zenon, <1>0, <2>1, <2>4, <3>1, KeyDecodes
    <3>3. events' = Tail(events) /\ events' = <<>> /\ UNCHANGED <<phase, result>>
      BY <1>1, <1>4, <2>4, <3>2
    <3>4. phase' = "run" /\ result' = "ok" /\ Ahead'
      BY Zenon, <1>1, <3>3 DEF KeyInv, Ahead
    <3> QED
      BY Zenon, <3>4 DEF KeyInv, KeyRecovers
  <2> QED
    BY Zenon, <1>1, <1>2, <2>1, <2>2, <2>3, <2>4 DEF Ahead
<1> QED
  BY Zenon, <1>0, <1>3, <1>4, RunShape

LEMMA KeyStep ==
  ASSUME NoOrphans, OwnInv, KeyInv, [Next]_vars PROVE KeyInv'
<1>1. CASE UNCHANGED vars
  BY Zenon, <1>1 DEF vars, KeyInv, KeyRecovers, Restart, Ahead
<1>2. CASE Call
  BY <1>2 DEF Call, KeyInv, KeyRecovers, Restart
<1>3. CASE RunParsedEvents
  <2>1. /\ phase = "parse" /\ phase' = "run" /\ UNCHANGED <<events, work, result, pushed>>
    BY Zenon, <1>3 DEF RunParsedEvents, decoder
  <2>2. ASSUME Restart PROVE Ahead
    <3>1. Len(pushed) = 2 /\ Len(events) = 2 /\ 1 \in DOMAIN pushed /\ 2 \in DOMAIN pushed
      BY <2>1, <2>2 DEF Restart, KeyInv, OwnInv, TypeInv
    <3>2. Meant(pushed[1], events[1]) /\ Meant(pushed[2], events[2])
      BY Zenon, <2>1, <3>1 DEF KeyInv
    <3> QED
      BY Zenon, <2>2, <3>1, <3>2 DEF Restart, Meant, Ahead
  <2> QED
    BY Zenon, <2>1, <2>2 DEF KeyInv, KeyRecovers, Restart, Ahead
<1>4. CASE RunFails
  BY Zenon, <1>4 DEF RunFails, Fail, KeyInv, KeyRecovers
<1>5. CASE Return
  BY Zenon, <1>5 DEF Return, KeyInv, KeyRecovers
<1>6. CASE Reset
  BY Zenon, <1>6 DEF Reset, KeyInv, KeyRecovers, Restart
<1> QED
  BY Zenon, <1>1, <1>2, <1>3, <1>4, <1>5, <1>6, KeyPush, KeyRun DEF Next

\* Whatever failed before, a payload with a new sequence header and a key frame
\* is decoded unless its own tile work fails, for any number of slots and
\* tiles: the new sequence drops the frame under way and every reference, and a
\* surface is free.
THEOREM AlwaysRecovers == NoOrphans => (Spec => []KeyRecovers)
<1> SUFFICES ASSUME NoOrphans PROVE Spec => []KeyRecovers
  BY Zenon
<1>1. OwnInv /\ KeyInv => KeyRecovers
  BY Zenon DEF KeyInv
<1>2. Init => OwnInv /\ KeyInv
  BY Zenon, OwnInit DEF Init, KeyInv, KeyRecovers, Restart
<1>3. OwnInv /\ KeyInv /\ [Next]_vars => OwnInv' /\ KeyInv'
  BY Zenon, OwnStep, KeyStep
<1> QED
  BY <1>1, <1>2, <1>3, PTL DEF Spec

-----------------------------------------------------------------------------
(* The invariant behind ReferencesAgree: the parser ran ahead of the       *)
(* surfaces by the events that wait.                                       *)

\* Slot s holds the frame of number id.
Stands(d, id, s) ==
  IF id = 0 THEN d.slots[s] = None ELSE d.slots[s] # None /\ d.content[d.slots[s]] = id

\* The surfaces are where the Stream was in state st.
Matches(d, st) ==
  /\ st.header => st.frame.id # 0
  /\ d.work.active => /\ st.header /\ d.work.inter = st.frame.inter
                      /\ d.work.parts = {<<st.frame.id, t>> : t \in 1 .. (st.next - 1)}
  /\ \A s \in Slots : IF st.header /\ s \in st.frame.refresh THEN st.refs[s].id = st.frame.id
                      ELSE Stands(d, st.refs[s].id, s)

\* No published frame lacks a tile or has one of another frame.
Whole(d) == \A p \in (Range(d.slots) \ {None}) \cup Drawn(d) : d.content[p] >= 0

LEMMA WholeIs ==
  ASSUME NEW d \in States
  PROVE  /\ Range(d.slots) \ {None} \subseteq Surfaces /\ Drawn(d) \subseteq Surfaces
         /\ Whole(d) <=> (\A s \in Slots : d.slots[s] # None => d.content[d.slots[s]] >= 0)
                         /\ \A o \in d.out : d.content[o.surface] >= 0
<1>1. d.slots \in SlotMaps /\ d.out \in SUBSET Outs
  BY Zenon DEF States
<1>2. \A x : x \in Range(d.slots) <=> \E s \in Slots : d.slots[s] = x
  BY Zenon, <1>1, RangeOf
<1>3. Range(d.slots) \ {None} \subseteq Surfaces /\ Drawn(d) \subseteq Surfaces
  BY Zenon, <1>1, RangeOf DEF Drawn, Outs
<1> QED
  BY Zenon, <1>2, <1>3 DEF Whole, Drawn

\* The surfaces follow when the tiles of a group are decoded, up to Finish.
LEMMA DecodeMatches ==
  ASSUME NEW d \in States, Owned(d), d.ok, NEW st \in Streams, Matches(d, st), Whole(d), st.header,
         NEW e \in EventSet, e.frame = st.frame, st.next \in 1 .. Tiles, NEW last \in st.next .. Tiles, e.tiles = st.next .. last,
         NEW s \in Streams, s.refs = st.refs, s.header <=> last # Tiles, s.header => s.frame = st.frame /\ s.next = last + 1,
         Decode(d, e).ok
  PROVE  Matches(Decode(d, e), s) /\ Whole(Decode(d, e))
<1> DEFINE p == Parted(d, e)
           f == st.frame
<1>0. /\ f \in Frames /\ f.id \in Nat \ {0} /\ Tiles \in Nat /\ st.next \in Nat /\ last \in Nat /\ f.refresh \subseteq Slots
      /\ st.refs \in [Slots -> Refs]
  BY SerialAssumption DEF Streams, Frames, Matches
<1>1. d.work.active /\ d.work.inter = e.frame.inter
  <2>1. d.work.active \in BOOLEAN /\ ~Error(d).ok
    BY Zenon, ErrorFacts DEF States, Works
  <2> QED
    BY Zenon, <2>1, DecodeCases
<1>2. Decode(d, e) = IF Tiles \in e.tiles THEN Finish(p, f) ELSE p
  BY Zenon, <1>1, DecodeCases
<1>3. /\ p \in States /\ p.ok = d.ok /\ p.slots = d.slots /\ p.unused = d.unused /\ p.content = d.content /\ p.out = d.out
      /\ p.work.active = d.work.active /\ p.work.surface = d.work.surface /\ p.work.inter = d.work.inter
      /\ p.work.parts = d.work.parts \cup {<<e.frame.id, t>> : t \in e.tiles}
  BY Zenon, PartedFacts
<1>4. Owned(p)
  BY Zenon, PartedKeeps
<1> HIDE DEF p
<1>5. p.work.parts = {<<f.id, t>> : t \in 1 .. last}
  <2>1. d.work.parts = {<<f.id, t>> : t \in 1 .. (st.next - 1)}
    BY Zenon, <1>1 DEF Matches
  <2>2. 1 .. last = (1 .. (st.next - 1)) \cup (st.next .. last)
    BY <1>0
  <2> HIDE DEF f
  <2>3. {<<f.id, t>> : t \in 1 .. last} = {<<f.id, t>> : t \in 1 .. (st.next - 1)} \cup {<<f.id, t>> : t \in st.next .. last}
    BY Zenon, <2>2
  <2> QED
    BY ZenonT(60), <1>3, <2>1, <2>3 DEF f
<1>6. CASE last # Tiles
  <2>1. Decode(d, e) = p
    BY <1>0, <1>2, <1>6
  <2>2. s.header /\ s.frame = f /\ s.next - 1 = last
    BY <1>0, <1>6
  <2>3. Matches(p, s)
    <3>1. p.work.inter = s.frame.inter /\ p.work.parts = {<<s.frame.id, t>> : t \in 1 .. (s.next - 1)}
      BY ZenonT(60), <1>1, <1>3, <1>5, <2>2
    <3>2. \A t \in Slots : IF t \in f.refresh THEN st.refs[t].id = f.id ELSE Stands(d, st.refs[t].id, t)
      BY Zenon DEF Matches
    <3>3. \A t \in Slots : IF t \in s.frame.refresh THEN s.refs[t].id = s.frame.id ELSE Stands(p, s.refs[t].id, t)
      BY <1>3, <2>2, <3>2 DEF Stands
    <3> QED
      BY Zenon, <1>0, <2>2, <3>1, <3>3 DEF Matches
  <2>4. Whole(p)
    BY Zenon, <1>3 DEF Whole, Drawn
  <2> QED
    BY Zenon, <2>1, <2>3, <2>4
<1>7. CASE last = Tiles
  <2> DEFINE r == Finish(p, f)
             w == d.work.surface
  <2>1. Decode(d, e) = r
    BY Zenon, <1>0, <1>2, <1>7
  <2>2. /\ r \in States /\ r.work = Idle
        /\ r.slots = Refreshed(p, f, p.work.surface)
        /\ r.content = [p.content EXCEPT ![p.work.surface] = Decoded(p, f)]
        /\ r.out = IF f.show THEN p.out \cup {[surface |-> p.work.surface, frame |-> Decoded(p, f)]} ELSE p.out
    BY Zenon, <1>0, <1>1, <1>3, <1>4, FinishFacts
  <2>3. Decoded(p, f) = f.id
    BY Zenon, <1>5, <1>7 DEF Decoded
  <2>4. w \in Surfaces /\ w # None /\ w \notin Range(d.slots) /\ d.content \in [Surfaces -> Int] /\ d.slots \in SlotMaps
    BY Zenon, <1>1, SerialAssumption DEF Owned, States
  <2> HIDE DEF r, w
  <2>5. /\ \A t \in Slots : r.slots[t] = IF t \in f.refresh THEN w ELSE d.slots[t]
        /\ \A q \in Surfaces : r.content[q] = IF q = w THEN f.id ELSE d.content[q]
    BY <1>3, <2>2, <2>3, <2>4 DEF Refreshed, w
  <2>6. \A t \in Slots : d.slots[t] # w /\ (d.slots[t] # None => d.slots[t] \in Surfaces)
    BY Zenon, <2>4, RangeOf DEF SlotMaps
  <2>7. ~r.work.active
    BY <2>2 DEF Idle
  <2>8. \A t \in Slots : Stands(r, s.refs[t].id, t)
    <3> SUFFICES ASSUME NEW t \in Slots PROVE Stands(r, st.refs[t].id, t)
      BY Zenon
    <3>1. CASE t \in f.refresh
      <4>1. st.refs[t].id = f.id
        BY Zenon, <3>1 DEF Matches
      <4> QED
        BY Zenon, <1>0, <2>4, <2>5, <3>1, <4>1 DEF Stands
    <3>2. CASE t \notin f.refresh
      <4>1. Stands(d, st.refs[t].id, t)
        BY Zenon, <3>2 DEF Matches
      <4> QED
        BY Zenon, <2>5, <2>6, <3>2, <4>1 DEF Stands
    <3> QED
      BY Zenon, <3>1, <3>2
  <2>9. Matches(r, s)
    BY Zenon, <1>7, <2>7, <2>8 DEF Matches
  <2>10. Whole(r)
    <3>1. /\ \A t \in Slots : d.slots[t] # None => d.content[d.slots[t]] >= 0
          /\ \A o \in d.out : d.content[o.surface] >= 0
      BY Zenon, WholeIs
    <3>2. \A t \in Slots : r.slots[t] # None => r.content[r.slots[t]] >= 0
      BY <1>0, <2>4, <2>5, <2>6, <3>1
    <3>3. \A o \in r.out : o.surface = w \/ o \in d.out
      BY <1>3, <2>2 DEF w
    <3>4. \A o \in d.out : o.surface \in Surfaces
      BY Zenon DEF States, Outs
    <3>5. \A o \in r.out : r.content[o.surface] >= 0
      BY <1>0, <2>4, <2>5, <3>1, <3>3, <3>4
    <3> QED
      BY Zenon, <2>2, <3>2, <3>5, WholeIs
  <2> QED
    BY Zenon, <2>1, <2>9, <2>10
<1> QED
  BY Zenon, <1>6, <1>7

\* Begin follows acceptFrameHeader.
LEMMA BeginMatches ==
  ASSUME NEW d \in States, Owned(d), d.ok, NEW st \in Streams, Matches(d, st), Whole(d), ~st.header,
         NEW e \in EventSet, e.frame.id # 0, NEW surface \in d.unused, Begin(d, e, surface).ok
  PROVE  LET b == Begin(d, e, surface)
         IN  /\ b \in States /\ Owned(b) /\ Whole(b)
             /\ Matches(b, Accepted(st, e.frame, 1))
<1> DEFINE b == Begin(d, e, surface)
           f == e.frame
           s == Accepted(st, f, 1)
<1>0. f \in Frames /\ surface \in Surfaces /\ d.content \in [Surfaces -> Int] /\ d.slots \in SlotMaps
  BY Zenon DEF EventSet, States
<1>1. ~d.work.active /\ HasReferences(d, e)
  <2>1. ~Error(d).ok
    BY Zenon, ErrorFacts
  <2> QED
    BY Zenon, <2>1 DEF Begin, HasReferences
<1>2. /\ b \in States /\ b.work = [active |-> TRUE, surface |-> surface, inter |-> f.inter, parts |-> {}]
      /\ b.slots = d.slots /\ b.content = [d.content EXCEPT ![surface] = 0] /\ b.out = d.out
  BY <1>0, <1>1, BeginFacts
<1>3. Owned(b)
  BY Zenon, <1>0, <1>1, BeginKeeps
<1>4. s.header /\ s.frame = f /\ s.next = 1 /\ s.refs = Updated(st.refs, f)
  BY <1>0, AcceptedFacts
<1> HIDE DEF b, s
<1>5. \A t \in Slots : d.slots[t] # surface /\ (d.slots[t] # None => d.slots[t] \in Surfaces)
  BY Zenon, <1>0, RangeOf DEF Owned, SlotMaps
<1>6. \A q \in Surfaces : b.content[q] = IF q = surface THEN 0 ELSE d.content[q]
  BY Zenon, <1>0, <1>2
<1>7. \A t \in Slots : IF t \in f.refresh THEN s.refs[t].id = f.id ELSE Stands(b, s.refs[t].id, t)
  <2> SUFFICES ASSUME NEW t \in Slots PROVE IF t \in f.refresh THEN s.refs[t].id = f.id ELSE Stands(b, s.refs[t].id, t)
    BY Zenon
  <2>1. CASE t \in f.refresh
    BY <1>4, <2>1 DEF Updated
  <2>2. CASE t \notin f.refresh
    <3>1. s.refs[t] = st.refs[t]
      BY Zenon, <1>4, <2>2 DEF Updated
    <3>2. Stands(d, st.refs[t].id, t)
      BY Zenon DEF Matches
    <3> QED
      BY <1>2, <1>5, <1>6, <2>2, <3>1, <3>2 DEF Stands
  <2> QED
    BY Zenon, <2>1, <2>2
<1>8. b.work.inter = f.inter /\ b.work.parts = {<<f.id, t>> : t \in 1 .. (s.next - 1)}
  BY <1>2, <1>4
<1>9. Matches(b, s)
  BY Zenon, <1>4, <1>7, <1>8 DEF Matches
<1>10. Whole(b)
  <2>1. /\ \A t \in Slots : d.slots[t] # None => d.content[d.slots[t]] >= 0
        /\ \A o \in d.out : d.content[o.surface] >= 0
    BY Zenon, WholeIs
  <2>2. \A o \in d.out : o.surface \in Surfaces
    BY Zenon DEF States, Outs
  <2>3. /\ \A t \in Slots : b.slots[t] # None => b.content[b.slots[t]] >= 0
        /\ \A o \in b.out : b.content[o.surface] >= 0
    BY <1>2, <1>5, <1>6, <2>1, <2>2
  <2> QED
    BY Zenon, <1>2, <2>3, WholeIs
<1> QED
  BY Zenon, <1>2, <1>3, <1>9, <1>10 DEF b, s

\* ShowExisting follows acceptExistingFrame.
LEMMA ExistingMatches ==
  ASSUME NEW d \in States, Owned(d), d.ok, NEW st \in Streams, Matches(d, st), Whole(d), ~st.header,
         NEW e \in EventSet, e.slot \in Slots, st.refs[e.slot].id = e.frame.id, e.frame.id # 0,
         st.refs[e.slot].key = e.frame.key
  PROVE  Matches(ShowExisting(d, e), Existing(st, st.refs[e.slot])) /\ Whole(ShowExisting(d, e))
<1> DEFINE r == ShowExisting(d, e)
           p == d.slots[e.slot]
           ref == st.refs[e.slot]
           s == Existing(st, ref)
<1>1. p # None /\ d.content[p] = ref.id
  BY Zenon DEF Matches, Stands
<1>2. /\ r \in States /\ ~r.work.active
      /\ r.slots = IF e.frame.key THEN [t \in Slots |-> p] ELSE d.slots
      /\ r.content = d.content
      /\ r.out = d.out \cup {[surface |-> p, frame |-> d.content[p]]}
  BY Zenon, <1>1, ShowExistingFacts
<1>3. /\ ~s.header
      /\ \A t \in Slots : s.refs[t].id = IF e.frame.key THEN ref.id ELSE st.refs[t].id
  <2>1. Cleared(st) \in Streams /\ ~Cleared(st).header /\ Cleared(st).refs = st.refs
    BY Zenon, Constructors
  <2>2. ref \in Refs
    BY Zenon DEF Streams
  <2> HIDE DEF ref
  <2>3. CASE ref.key
    <3>1. s = [Cleared(st) EXCEPT !.refs = [t \in Slots |-> [ref EXCEPT !.showable = FALSE]]]
      BY Zenon, <2>3 DEF Existing
    <3>2. ~s.header /\ s.refs = [t \in Slots |-> [ref EXCEPT !.showable = FALSE]]
      BY Zenon, <2>1, <3>1 DEF Streams
    <3>3. \A t \in Slots : s.refs[t].id = ref.id
      BY Zenon, <2>2, <3>2 DEF Refs
    <3> QED
      BY Zenon, <2>3, <3>2, <3>3 DEF ref
  <2>4. CASE ~ref.key
    <3>1. s = [Cleared(st) EXCEPT !.refs = Cleared(st).refs]
      BY Zenon, <2>4 DEF Existing
    <3>2. ~s.header /\ s.refs = st.refs
      BY Zenon, <2>1, <3>1 DEF Streams
    <3> QED
      BY Zenon, <2>4, <3>2 DEF ref
  <2> QED
    BY Zenon, <2>3, <2>4
<1>4. ref.id # 0
  BY Zenon
<1> HIDE DEF r, s, ref, p
<1>5. \A t \in Slots : r.slots[t] = IF e.frame.key THEN p ELSE d.slots[t]
  BY Zenon, <1>2
<1>6. \A t \in Slots : Stands(r, s.refs[t].id, t)
  <2> SUFFICES ASSUME NEW t \in Slots PROVE Stands(r, s.refs[t].id, t)
    BY Zenon
  <2>1. Stands(d, st.refs[t].id, t)
    BY Zenon DEF Matches
  <2> QED
    BY Zenon, <1>1, <1>2, <1>3, <1>4, <1>5, <2>1 DEF Stands
<1>7. Matches(r, s)
  BY Zenon, <1>2, <1>3, <1>6 DEF Matches
<1>8. Whole(r)
  <2>1. /\ \A t \in Slots : d.slots[t] # None => d.content[d.slots[t]] >= 0
        /\ \A o \in d.out : d.content[o.surface] >= 0
    BY Zenon, WholeIs
  <2>2. d.content[p] >= 0
    BY Zenon, <1>1, <2>1 DEF p
  <2>3. /\ \A t \in Slots : r.slots[t] # None => r.content[r.slots[t]] >= 0
        /\ \A o \in r.out : r.content[o.surface] >= 0
    BY <1>2, <1>5, <2>1, <2>2
  <2> QED
    BY Zenon, <1>2, <2>3, WholeIs
<1> QED
  BY Zenon, <1>7, <1>8 DEF r, s, ref

\* The reference numbers of s are those of st, or none behind a new sequence.
Numbered(s, e, st) == \A t \in Slots : s.refs[t].id = IF e.new THEN 0 ELSE st.refs[t].id

\* AbortIfEventDropsFrameWork follows a new sequence or a delimiter.
LEMMA DropMatches ==
  ASSUME NEW d \in States, Owned(d), d.ok, NEW st \in Streams, Matches(d, st), Whole(d), ~st.header,
         NEW e \in EventSet, NEW s, ~s.header, Numbered(s, e, st)
  PROVE  Matches(Drop(d, e), s) /\ Whole(Drop(d, e))
<1> DEFINE r == Drop(d, e)
<1>1. /\ r \in States /\ ~r.work.active /\ r.slots = IF e.new THEN [t \in Slots |-> None] ELSE d.slots
      /\ r.content = d.content /\ r.out = d.out
  BY Zenon, DropFacts
<1> HIDE DEF r
<1>2. \A t \in Slots : r.slots[t] = IF e.new THEN None ELSE d.slots[t]
  BY Zenon, <1>1
<1>3. \A t \in Slots : Stands(d, st.refs[t].id, t)
  BY Zenon DEF Matches
<1>4. \A t \in Slots : Stands(r, s.refs[t].id, t)
  BY Zenon, <1>1, <1>2, <1>3 DEF Stands, Numbered
<1>5. Matches(r, s)
  BY Zenon, <1>1, <1>4 DEF Matches
<1>6. Whole(r)
  BY Zenon, <1>1, <1>2, WholeIs
<1> QED
  BY Zenon, <1>5, <1>6 DEF r

\* One event takes the surfaces where one unit took the Stream.
LEMMA RanMatches ==
  ASSUME TypeInv, Owned(Now), NEW st \in Streams, NEW s \in Streams, Matches(Now, st), Whole(Now),
         NEW e \in ProperEvents, Parsed(st, e, s), NEW surface, Begins(e) => surface \in unused, Ran(e, surface).ok
  PROVE  Matches(Ran(e, surface), s) /\ Whole(Ran(e, surface))
<1> DEFINE d == Ran(e, surface)
<1>1. Now \in States /\ Now.ok /\ Now.unused = unused
  BY Zenon, NowFacts
<1>2. e \in EventSet /\ (e.kind = "existing" => e.slot \in Slots) /\ (e.new => e.kind = "sequence") /\ e.frame \in Frames
      /\ e.kind \in Kinds /\ e.new \in BOOLEAN
  BY Zenon DEF ProperEvents, EventSet
<1>3. /\ e.kind \in {"header", "redundant", "frame"} => e.frame.id # 0
      /\ st.header => e.kind \in {"tiles", "ignored"} \/ (e.kind = "sequence" /\ ~e.new)
  BY Zenon DEF Parsed
<1>4. CASE e.kind = "existing"
  <2>1. d = ShowExisting(Now, e)
    BY Zenon, <1>2, <1>4 DEF Ran
  <2>2. /\ st.refs[e.slot].id = e.frame.id /\ e.frame.id # 0 /\ st.refs[e.slot].key = e.frame.key
        /\ s = Existing(st, st.refs[e.slot]) /\ ~st.header
    BY Zenon, <1>4 DEF Parsed
  <2> HIDE DEF d
  <2> QED
    BY Zenon, <1>1, <1>2, <1>4, <2>1, <2>2, ExistingMatches DEF d
<1>5. CASE e.kind = "delimiter" \/ e.new
  <2>1. d = Drop(Now, e)
    BY Zenon, <1>2, <1>5 DEF Ran
  <2>2. ~st.header
    BY Zenon, <1>2, <1>3, <1>5
  <2>3. ~s.header /\ Numbered(s, e, st)
    <3>1. CASE e.new
      <4>1. s = [EmptyStream EXCEPT !.have = TRUE]
        BY Zenon, <1>2, <3>1 DEF Parsed
      <4> QED
        BY Zenon, <3>1, <4>1 DEF EmptyStream, NoRef, Numbered
    <3>2. CASE ~e.new
      <4>1. s = Cleared(st)
        BY Zenon, <1>5, <3>2 DEF Parsed
      <4> QED
        BY Zenon, <3>2, <4>1, Constructors DEF Numbered
    <3> QED
      BY Zenon, <1>2, <3>1, <3>2
  <2> HIDE DEF d
  <2> QED
    BY Zenon, <1>1, <1>2, <2>1, <2>2, <2>3, DropMatches DEF d
<1>6. CASE e.kind = "header"
  <2>1. d = Begin(Now, e, surface) /\ surface \in unused
    BY Zenon, <1>2, <1>6 DEF Ran, Begins
  <2>2. s = Accepted(st, e.frame, 1) /\ ~st.header /\ e.frame.id # 0
    BY Zenon, <1>3, <1>6 DEF Parsed
  <2>3. Begin(Now, e, surface).ok
    BY Zenon, <2>1
  <2> HIDE DEF d
  <2> QED
    BY Zenon, <1>1, <1>2, <2>1, <2>2, <2>3, BeginMatches DEF d
<1>7. CASE e.kind = "frame"
  <2> DEFINE b == Begin(Now, e, surface)
             a == Accepted(st, e.frame, 1)
  <2>1. d = (IF b.ok THEN Decode(b, e) ELSE b) /\ surface \in unused
    BY Zenon, <1>2, <1>7 DEF Ran, Begins
  <2>2. b.ok /\ d = Decode(b, e)
    BY Zenon, <2>1
  <2>3. ~st.header /\ e.frame.id # 0
    BY Zenon, <1>3, <1>7
  <2>4. b \in States /\ Owned(b) /\ Whole(b) /\ Matches(b, a)
    BY Zenon, <1>1, <1>2, <2>1, <2>2, <2>3, BeginMatches
  <2>5. PICK last \in 1 .. Tiles : e.tiles = 1 .. last /\ s = Behind(st, e.frame, last)
    BY Zenon, <1>7 DEF Parsed
  <2>6. a \in Streams /\ a.header /\ a.frame = e.frame /\ a.next = 1 /\ a.refs = Updated(st.refs, e.frame)
    BY <1>2, AcceptedFacts
  <2> DEFINE c == Accepted(st, e.frame, last + 1)
  <2>7. c \in Streams /\ c.header /\ c.frame = e.frame /\ c.next = last + 1 /\ c.refs = Updated(st.refs, e.frame)
    BY <1>2, AcceptedFacts, SerialAssumption
  <2>8. s = IF last = Tiles THEN Cleared(c) ELSE c
    BY Zenon, <2>5 DEF Behind
  <2>12. Cleared(c) \in Streams /\ ~Cleared(c).header /\ Cleared(c).refs = c.refs
    BY Zenon, <2>7, Constructors
  <2> HIDE DEF a, b, c, d
  <2>9. s.refs = a.refs /\ (s.header <=> last # Tiles) /\ (s.header => s.frame = a.frame /\ s.next = last + 1)
    BY Zenon, <2>6, <2>7, <2>8, <2>12
  <2>10. a.next \in 1 .. Tiles /\ last \in a.next .. Tiles /\ e.tiles = a.next .. last /\ e.frame = a.frame
    BY <2>5, <2>6, SerialAssumption
  <2>11. Decode(b, e).ok
    BY Zenon, <2>2 DEF d
  <2> QED
    BY Zenon, <1>2, <2>2, <2>4, <2>6, <2>9, <2>10, <2>11, DecodeMatches DEF d
<1>8. CASE e.kind = "tiles"
  <2>1. d = Decode(Now, e)
    BY Zenon, <1>2, <1>8 DEF Ran
  <2>2. /\ st.header /\ e.frame = st.frame /\ st.next \in 1 .. Tiles
        /\ \E last \in st.next .. Tiles :
             /\ e.tiles = st.next .. last
             /\ s = IF last = Tiles THEN Cleared(st) ELSE [st EXCEPT !.next = last + 1]
    BY Zenon, <1>8 DEF Parsed
  <2>3. PICK last \in st.next .. Tiles :
             /\ e.tiles = st.next .. last
             /\ s = IF last = Tiles THEN Cleared(st) ELSE [st EXCEPT !.next = last + 1]
    BY Zenon, <2>2
  <2>4. s.refs = st.refs /\ (s.header <=> last # Tiles) /\ (s.header => s.frame = st.frame /\ s.next = last + 1)
    <3>1. CASE last = Tiles
      BY Zenon, <2>3, <3>1, Constructors
    <3>2. CASE last # Tiles
      BY Zenon, <2>2, <2>3, <3>2 DEF Streams
    <3> QED
      BY Zenon, <3>1, <3>2
  <2>5. Decode(Now, e).ok
    BY Zenon, <2>1
  <2> HIDE DEF d
  <2>6. st.header /\ e.frame = st.frame /\ st.next \in 1 .. Tiles /\ e.tiles = st.next .. last /\ last \in st.next .. Tiles
    BY Zenon, <2>2, <2>3
  <2>7. Matches(Decode(Now, e), s) /\ Whole(Decode(Now, e))
    BY Zenon, <1>1, <1>2, <2>4, <2>5, <2>6, DecodeMatches
  <2> QED
    BY Zenon, <2>1, <2>7 DEF d
<1>9. CASE e.kind \in {"redundant", "ignored"} \/ (e.kind = "sequence" /\ ~e.new)
  <2>1. d = Now
    BY Zenon, <1>2, <1>9 DEF Ran
  <2>2. CASE e.kind # "redundant"
    <3>1. s = st
      BY Zenon, <1>2, <1>9, <2>2 DEF Parsed
    <3> QED
      BY Zenon, <2>1, <3>1
  <2>3. CASE e.kind = "redundant"
    <3>1. s = Accepted(st, e.frame, 1) /\ ~st.header /\ e.frame.id # 0
      BY Zenon, <1>3, <2>3 DEF Parsed
    <3>2. s.header /\ s.frame = e.frame /\ s.refs = Updated(st.refs, e.frame)
      BY <1>2, <3>1, AcceptedFacts
    <3>3. ~Now.work.active
      BY Zenon, <1>1, <3>1 DEF Matches
    <3>4. \A t \in Slots : IF t \in e.frame.refresh THEN s.refs[t].id = e.frame.id ELSE Stands(Now, s.refs[t].id, t)
      BY <3>1, <3>2 DEF Matches, Updated
    <3>5. Matches(Now, s)
      BY Zenon, <3>1, <3>2, <3>3, <3>4 DEF Matches
    <3> QED
      BY Zenon, <2>1, <3>5
  <2> QED
    BY Zenon, <2>2, <2>3
<1> QED
  BY Zenon, <1>2, <1>4, <1>5, <1>6, <1>7, <1>8, <1>9 DEF Kinds

\* The Stream was in state v[k] behind the k-th of the events that wait.
Trail(v) ==
  /\ v[Len(events)] = stream
  /\ Matches(Now, v[0])
  /\ \A k \in 1 .. Len(events) : Parsed(v[k - 1], events[k], v[k])

AgreeInv ==
  ~tainted => /\ phase = "idle" => events = <<>>
              /\ Whole(Now)
              /\ \E v \in [0 .. Len(events) -> Streams] : Trail(v)

LEMMA AgreeInit == Init => AgreeInv
<1> SUFFICES ASSUME Init PROVE AgreeInv
  BY Zenon
<1> DEFINE v == [k \in 0 .. 0 |-> stream]
<1>1. events = <<>> /\ Len(events) = 0 /\ stream = EmptyStream /\ EmptyStream \in Streams
  BY Zenon, Constructors DEF Init
<1>2. v \in [0 .. Len(events) -> Streams] /\ v[0] = stream
  BY <1>1
<1>3. Matches(Now, stream)
  BY Zenon DEF Init, Now, Matches, EmptyStream, Idle, Stands, NoRef
<1>4. Trail(v)
  <2> HIDE DEF v
  <2> QED
    BY <1>1, <1>2, <1>3 DEF Trail
<1>5. Whole(Now)
  <2>1. Now \in States
    BY Zenon, OwnInit, NowFacts DEF OwnInv
  <2>2. \A s \in Slots : Now.slots[s] = None
    BY Zenon DEF Init, Now
  <2>3. Now.out = {}
    BY Zenon DEF Init, Now
  <2> QED
    BY Zenon, <2>1, <2>2, <2>3, WholeIs
<1> HIDE DEF v
<1> QED
  BY Zenon, <1>1, <1>2, <1>4, <1>5 DEF AgreeInv

\* Steps that leave the queue, the Stream and the surfaces of the frames.
LEMMA AgreeStays ==
  ASSUME AgreeInv, UNCHANGED <<stream, work, slots, content>>, events' = events, out' \in {out, {}},
         ~tainted' => ~tainted, phase' # "idle" \/ events = <<>>
  PROVE  AgreeInv'
<1> SUFFICES ASSUME ~tainted' PROVE /\ phase' = "idle" => events' = <<>>
                                    /\ Whole(Now)' /\ \E v \in [0 .. Len(events') -> Streams] : Trail(v)'
  BY Zenon DEF AgreeInv
<1>1. Whole(Now) /\ \E v \in [0 .. Len(events) -> Streams] : Trail(v)
  BY Zenon DEF AgreeInv
<1>2. \A st : Matches(Now, st) => Matches(Now, st)'
  BY Zenon DEF Matches, Now, Stands
<1>3. Whole(Now)'
  BY Zenon, <1>1 DEF Whole, Now, Drawn
<1>4. \A v : Trail(v) => Trail(v)'
  BY Zenon, <1>2 DEF Trail
<1> QED
  BY Zenon, <1>1, <1>3, <1>4

LEMMA AgreePush ==
  ASSUME OwnInv, AgreeInv, PushUnitInto PROVE AgreeInv'
<1>0. TypeInv /\ HeaderInv
  BY Zenon DEF OwnInv
<1> SUFFICES ASSUME ~tainted' PROVE /\ phase' = "idle" => events' = <<>>
                                    /\ Whole(Now)' /\ \E v \in [0 .. Len(events') -> Streams] : Trail(v)'
  BY Zenon DEF AgreeInv
<1>1. ~\E u : Turned(u)
  BY Zenon DEF Turned, Refuse, Fail
<1>2. PICK u, s, e : Shaped(u, s, e)
  BY Zenon, <1>0, <1>1, PushShape
<1>3. e \in ProperEvents /\ s \in Streams /\ Parsed(stream, e, s)
  BY Zenon, <1>2 DEF Shaped
<1>4. /\ ~tainted /\ phase = "parse" /\ phase' = "parse" /\ stream' = s /\ events' = Append(events, e)
      /\ UNCHANGED <<work, slots, unused, content, shown, out>>
  BY Zenon, <1>2 DEF Shaped, Push, decoder
<1>5. PICK v \in [0 .. Len(events) -> Streams] : Trail(v)
  BY Zenon, <1>4 DEF AgreeInv
<1>6. events \in Seq(ProperEvents) /\ Len(events) \in Nat
  BY <1>0 DEF TypeInv
<1>7. PICK n \in Nat : n = Len(events)
  BY Zenon, <1>6
<1>13. Len(events') = n + 1 /\ (\A k \in 1 .. n : events'[k] = events[k]) /\ events'[n + 1] = e
  BY <1>3, <1>4, <1>6, <1>7
<1>8. PICK w \in [0 .. n + 1 -> Streams] : w[n + 1] = s /\ (\A k \in 0 .. n : w[k] = v[k])
  <2> DEFINE x == [k \in 0 .. n + 1 |-> IF k = n + 1 THEN s ELSE v[k]]
  <2>1. \A k \in 0 .. n + 1 : (IF k = n + 1 THEN s ELSE v[k]) \in Streams
    BY <1>3, <1>5, <1>7
  <2>2. x \in [0 .. n + 1 -> Streams] /\ x[n + 1] = s /\ (\A k \in 0 .. n : x[k] = v[k])
    BY <2>1
  <2> QED
    BY Zenon, <2>2
<1>9. v[n] = stream /\ Matches(Now, v[0]) /\ \A k \in 1 .. n : Parsed(v[k - 1], events[k], v[k])
  BY Zenon, <1>5, <1>7 DEF Trail
<1>10. Matches(Now, w[0])'
  <2>1. w[0] = v[0]
    BY <1>8
  <2> QED
    BY <1>4, <1>9, <2>1 DEF Matches, Now, Stands
<1>11. \A k \in 1 .. Len(events') : Parsed(w[k - 1], events'[k], w[k])
  <2> SUFFICES ASSUME NEW k \in 1 .. n + 1 PROVE Parsed(w[k - 1], events'[k], w[k])
    BY Zenon, <1>13
  <2>1. CASE k = n + 1
    <3>1. w[k - 1] = stream /\ w[k] = s /\ events'[k] = e
      BY <1>13, <1>8, <1>9, <2>1
    <3> QED
      BY Zenon, <1>3, <3>1
  <2>2. CASE k # n + 1
    <3>1. k \in 1 .. n /\ w[k - 1] = v[k - 1] /\ w[k] = v[k] /\ events'[k] = events[k]
      BY <1>13, <1>8, <2>2
    <3> QED
      BY Zenon, <1>9, <3>1
  <2> QED
    BY Zenon, <2>1, <2>2
<1>12. Whole(Now)'
  BY Zenon, <1>4 DEF AgreeInv, Whole, Now, Drawn
<1> QED
  <2>1. Trail(w)'
    BY Zenon, <1>4, <1>8, <1>10, <1>11, <1>13 DEF Trail
  <2> QED
    BY Zenon, <1>4, <1>12, <1>13, <2>1

LEMMA AgreeRun ==
  ASSUME OwnInv, AgreeInv, Run PROVE AgreeInv'
<1>0. TypeInv /\ Owned(Now) /\ Now \in States
  BY Zenon, NowFacts DEF OwnInv
<1> SUFFICES ASSUME ~tainted' PROVE /\ phase' = "idle" => events' = <<>>
                                    /\ Whole(Now)' /\ \E v \in [0 .. Len(events') -> Streams] : Trail(v)'
  BY Zenon DEF AgreeInv
<1>1. UNCHANGED stream
  BY Zenon DEF Run
<1>2. PICK e, surface, d :
        /\ Outcome(e, surface, d) /\ Becomes(d)
        /\ d.ok /\ out' = d.out /\ events' = Tail(events) /\ UNCHANGED <<phase, result, tainted>>
  BY Zenon, <1>0, RunShape DEF Fail
<1>3. /\ phase = "run" /\ events # <<>> /\ e = Head(events) /\ e \in ProperEvents /\ (Begins(e) => surface \in unused)
      /\ d = Ran(e, surface) /\ work' = d.work /\ slots' = d.slots /\ unused' = d.unused /\ content' = d.content
      /\ events \in Seq(ProperEvents) /\ ~tainted
  BY Zenon, <1>0, <1>2 DEF Outcome, Becomes, TypeInv
<1>4. PICK v \in [0 .. Len(events) -> Streams] : Trail(v)
  BY Zenon, <1>3 DEF AgreeInv
<1>5. PICK n \in Nat \ {0} : n = Len(events)
  BY <1>3
<1>6. Len(events') = n - 1 /\ e = events[1] /\ \A k \in 1 .. n - 1 : events'[k] = events[k + 1]
  BY <1>2, <1>3, <1>5
<1>7. v[n] = stream /\ Matches(Now, v[0]) /\ \A k \in 1 .. n : Parsed(v[k - 1], events[k], v[k])
  BY Zenon, <1>4, <1>5 DEF Trail
<1>8. PICK w \in [0 .. n - 1 -> Streams] : \A k \in 0 .. n - 1 : w[k] = v[k + 1]
  <2> DEFINE x == [k \in 0 .. n - 1 |-> v[k + 1]]
  <2>1. \A k \in 0 .. n - 1 : v[k + 1] \in Streams
    BY <1>4, <1>5
  <2>2. x \in [0 .. n - 1 -> Streams] /\ \A k \in 0 .. n - 1 : x[k] = v[k + 1]
    BY Zenon, <2>1
  <2> QED
    BY Zenon, <2>2
<1>9. v[0] \in Streams /\ v[1] \in Streams /\ Parsed(v[0], e, v[1]) /\ w[0] = v[1] /\ w[n - 1] = v[n]
  <2>1. 0 \in 0 .. n - 1 /\ n - 1 \in 0 .. n - 1 /\ (n - 1) + 1 = n /\ 0 + 1 = 1 /\ 1 - 1 = 0
        /\ 0 \in 0 .. n /\ 1 \in 0 .. n /\ 1 \in 1 .. n
    BY <1>5
  <2>2. v[0] \in Streams /\ v[1] \in Streams
    BY Zenon, <1>4, <1>5, <2>1
  <2>3. Parsed(v[0], e, v[1])
    BY Zenon, <1>6, <1>7, <2>1
  <2>4. w[0] = v[0 + 1] /\ w[n - 1] = v[(n - 1) + 1]
    BY Zenon, <1>8, <2>1
  <2> QED
    BY Zenon, <2>1, <2>2, <2>3, <2>4
<1>10. Whole(Now)
  BY Zenon, <1>3 DEF AgreeInv
<1>11. Matches(d, v[1]) /\ Whole(d)
  BY Zenon, <1>0, <1>2, <1>3, <1>7, <1>9, <1>10, RanMatches
<1>12. Matches(Now, w[0])'
  <2>1. Now'.work = d.work /\ Now'.slots = d.slots /\ Now'.content = d.content
    BY Zenon, <1>3 DEF Now
  <2>2. Matches(d, w[0])
    BY Zenon, <1>9, <1>11
  <2> QED
    BY Zenon, <2>1, <2>2 DEF Matches, Stands
<1>13. Whole(Now)'
  BY Zenon, <1>2, <1>3, <1>11 DEF Whole, Now, Drawn
<1>14. \A k \in 1 .. n - 1 : Parsed(w[k - 1], events'[k], w[k])
  <2> SUFFICES ASSUME NEW k \in 1 .. n - 1 PROVE Parsed(w[k - 1], events'[k], w[k])
    BY Zenon
  <2>1. w[k - 1] = v[k] /\ w[k] = v[k + 1] /\ events'[k] = events[k + 1] /\ k + 1 \in 1 .. n /\ (k + 1) - 1 = k
    BY <1>5, <1>6, <1>8
  <2>2. Parsed(v[(k + 1) - 1], events[k + 1], v[k + 1])
    BY Zenon, <1>7, <2>1
  <2> QED
    BY Zenon, <2>1, <2>2
<1>15. Trail(w)'
  BY Zenon, <1>1, <1>6, <1>7, <1>9, <1>12, <1>14 DEF Trail
<1> QED
  BY Zenon, <1>2, <1>3, <1>6, <1>13, <1>15

LEMMA AgreeStep ==
  ASSUME OwnInv, AgreeInv, [Next]_vars PROVE AgreeInv'
<1>1. CASE UNCHANGED vars
  BY ZenonT(60), <1>1 DEF vars, AgreeInv, Whole, Now, Drawn, Trail, Matches, Stands
<1>2. CASE Call
  <2>1. /\ UNCHANGED <<stream, work, slots, content, tainted>> /\ out' = {} /\ events' = <<>> /\ phase = "idle" /\ phase' = "parse"
    BY Zenon, <1>2 DEF Call
  <2>2. CASE tainted
    BY Zenon, <2>1, <2>2 DEF AgreeInv
  <2>3. CASE ~tainted
    <3>1. events' = events
      BY Zenon, <2>1, <2>3 DEF AgreeInv
    <3> QED
      BY Zenon, <2>1, <3>1, AgreeStays
  <2> QED
    BY Zenon, <2>2, <2>3
<1>3. CASE RunParsedEvents
  BY Zenon, <1>3, AgreeStays DEF RunParsedEvents, decoder
<1>4. CASE RunFails
  BY Zenon, <1>4 DEF RunFails, Fail, AgreeInv
<1>5. CASE Return
  BY Zenon, <1>5, AgreeStays DEF Return
<1>6. CASE Reset
  <2>1. /\ phase' = "idle" /\ stream' = EmptyStream /\ work' = Idle /\ slots' = [s \in Slots |-> None] /\ out' = {} /\ events' = <<>>
    BY Zenon, <1>6 DEF Reset, ResetStream
  <2>2. PICK v \in [0 .. 0 -> Streams] : v[0] = EmptyStream
    <3> DEFINE x == [k \in 0 .. 0 |-> EmptyStream]
    <3>1. x \in [0 .. 0 -> Streams] /\ x[0] = EmptyStream
      BY Constructors
    <3> QED
      BY Zenon, <3>1
  <2>3. Matches(Now, v[0])'
    <3>1. ~Now'.work.active /\ Now'.slots = [s \in Slots |-> None]
      BY <2>1 DEF Now, Idle
    <3>2. ~v[0].header /\ \A s \in Slots : v[0].refs[s].id = 0
      BY <2>2 DEF EmptyStream, NoRef
    <3>3. \A s \in Slots : Now'.slots[s] = None
      BY Zenon, <3>1
    <3> QED
      BY Zenon, <3>1, <3>2, <3>3 DEF Matches, Stands
  <2>4. Len(events') = 0
    BY Zenon, <2>1
  <2>5. Trail(v)'
    BY <2>1, <2>2, <2>3, <2>4 DEF Trail
  <2>6. Whole(Now)'
    <3>1. Range(slots') \subseteq {None}
      BY Zenon, <2>1 DEF Range
    <3> QED
      BY Zenon, <2>1, <3>1 DEF Whole, Now, Drawn
  <2> QED
    BY Zenon, <2>1, <2>2, <2>4, <2>5, <2>6 DEF AgreeInv
<1> QED
  BY Zenon, <1>1, <1>2, <1>3, <1>4, <1>5, <1>6, AgreePush, AgreeRun DEF Next

\* Although the Stream parses a whole payload before the first event is run,
\* and updates its references at a header where the surfaces wait for the last
\* tile, the two mean the same frames between calls, and every published frame
\* is whole, as long as no call failed and no frame was dropped.  For any
\* payloads, frames, slots and tiles.
THEOREM ReferencesStayAgreed == Spec => []ReferencesAgree
<1>1. OwnInv /\ AgreeInv => ReferencesAgree
  <2> SUFFICES ASSUME OwnInv, AgreeInv, ~tainted PROVE ReferencesAgree
    BY Zenon DEF ReferencesAgree, SameReferences, PublishedWhole
  <2>1. Whole(Now) /\ \E v \in [0 .. Len(events) -> Streams] : Trail(v)
    BY Zenon DEF AgreeInv
  <2>2. PublishedWhole
    BY Zenon, <2>1 DEF PublishedWhole, Published, Held, Whole, Now, Drawn
  <2>3. ASSUME phase = "idle", ~stream.header
        PROVE  \A s \in Slots : IF stream.refs[s].id = 0 THEN slots[s] = None
                                ELSE slots[s] # None /\ content[slots[s]] = stream.refs[s].id
    <3>1. Len(events) = 0
      BY <2>3 DEF AgreeInv
    <3>2. Matches(Now, stream)
      BY Zenon, <2>1, <3>1 DEF Trail
    <3> QED
      BY Zenon, <2>3, <3>2 DEF Matches, Stands, Now
  <2> QED
    BY Zenon, <2>2, <2>3 DEF ReferencesAgree, SameReferences
<1>2. Init => OwnInv /\ AgreeInv
  BY Zenon, OwnInit, AgreeInit
<1>3. OwnInv /\ AgreeInv /\ [Next]_vars => OwnInv' /\ AgreeInv'
  BY Zenon, OwnStep, AgreeStep
<1> QED
  BY <1>1, <1>2, <1>3, PTL DEF Spec
=============================================================================
