------------------------ MODULE EntropyHandlesProofs ------------------------
(***************************************************************************)
(* The reference counts of EntropyHandles are exact, the pools never run   *)
(* out, no frame overwrites what an earlier one reads and no wait is       *)
(* circular: for every number of slots, references and contexts, and for   *)
(* each of the three pools.                                                *)
(***************************************************************************)
EXTENDS EntropyHandles, FiniteSetTheorems, TLAPS

Kinds == {"cdf", "mv", "seg"}

\* The handles a frame holds at most, and the handles a frame in planning takes.
Width == IF kind = "mv" THEN 1 + InterRefs ELSE 2
Spare == IF kind = "cdf" THEN 2 ELSE 1

\* The holds of all frames in flight at most.
MostHolds == (InterRefs + 2) * MaxFrames

Frame == [reads : Seq(0 .. Size), writes : 0 .. Size, holds : Seq(0 .. Size),
          pc : {"wait", "parse", "ok", "failed"}]

TypeOK ==
  /\ kind \in Kinds
  /\ refs \in [1 .. Size -> Nat]
  /\ slot \in [Slots -> 0 .. Size]
  /\ prog \in [1 .. Size -> {0, Done, Error}]
  /\ ring \in Seq(Frame)
  /\ Len(ring) <= MaxFrames

\* A frame holds what it reads and writes, and writes nothing it reads.
FrameOK(f) ==
  /\ Len(f.holds) <= Width
  /\ Range(f.reads) \subseteq Range(f.holds) \cup {None}
  /\ f.writes \in Range(f.holds) \cup {None}
  /\ f.writes # None => f.writes \notin Range(f.reads)

FramesOK == \A i \in 1 .. Len(ring) : FrameOK(ring[i])

\* What is still being written has a running writer; a grid or a map is being
\* written for as long as its writer runs.
Written ==
  /\ \A h \in 1 .. Size : prog[h] = 0 => \E j \in 1 .. Len(ring) : ring[j].writes = h /\ ~Ended(ring[j])
  /\ \A i \in 1 .. Len(ring) : ring[i].writes # None /\ ~Ended(ring[i]) /\ kind # "cdf" =>
       prog[ring[i].writes] = 0

\* A frame past its wait for the previous map has a good one.
MapGood == \A i \in 1 .. Len(ring) : kind = "seg" /\ ring[i].pc = "parse" => ReadProgress(i) \subseteq {Done}

HandleInv == TypeOK /\ FramesOK /\ CountsExact /\ InputsStable /\ Written /\ MapGood

-----------------------------------------------------------------------------
(* Sizes.                                                                  *)

LEMMA SizeFacts ==
  ASSUME kind \in Kinds
  PROVE  /\ Size \in Nat /\ RefFrames \in Nat /\ Width \in Nat /\ Spare \in Nat
         /\ Size = RefFrames + Spare + Width * MaxFrames
         /\ Width <= InterRefs + 2
<1>1. RefFrames \in Nat
  BY HandleAssumption, FS_CardinalityType DEF RefFrames
<1> QED
  BY <1>1, HandleAssumption DEF Kinds, Size, Width, Spare

LEMMA HoldFacts == MostHolds \in Nat /\ RefFrames \in Nat /\ RefFrames + MostHolds < 256
<1>1. RefFrames \in Nat
  BY HandleAssumption, FS_CardinalityType DEF RefFrames
<1> QED
  BY <1>1, HandleAssumption DEF MostHolds

LEMMA Interval ==
  ASSUME NEW n \in Nat
  PROVE  IsFiniteSet(1 .. n) /\ Cardinality(1 .. n) = n
BY FS_Interval

\* The values of a function are no more than its arguments.
LEMMA ImageCardinality ==
  ASSUME NEW S, IsFiniteSet(S), NEW f, f = [x \in S |-> f[x]]
  PROVE  LET T == {f[x] : x \in S}
         IN IsFiniteSet(T) /\ Cardinality(T) <= Cardinality(S)
<1> DEFINE T == {f[x] : x \in S}
<1>1. f \in Surjection(S, T)
  BY DEF Surjection
<1> QED
  BY <1>1, FS_Surjection

\* One-to-one images have as many elements.
LEMMA SameCardinality ==
  ASSUME NEW S, IsFiniteSet(S), NEW T, NEW f \in [S -> T],
         \A x, y \in S : f[x] = f[y] => x = y,
         \A t \in T : \E x \in S : f[x] = t
  PROVE  IsFiniteSet(T) /\ Cardinality(T) = Cardinality(S)
<1>1. f \in Bijection(S, T)
  BY DEF Bijection, Injection, Surjection, IsInjective
<1>2. ExistsBijection(S, T)
  BY <1>1 DEF ExistsBijection
<1> QED
  BY <1>2, FS_Bijection

\* Two finite sets without a common element.
LEMMA DisjointCardinality ==
  ASSUME NEW S, IsFiniteSet(S), NEW T, IsFiniteSet(T), S \cap T = {}
  PROVE  /\ IsFiniteSet(S \cup T) /\ Cardinality(S) \in Nat /\ Cardinality(T) \in Nat
         /\ Cardinality(S \cup T) = Cardinality(S) + Cardinality(T)
BY FS_Union, FS_EmptySet, FS_CardinalityType

\* The lowest handle of a set is one of it.
LEMMA LowestFree ==
  ASSUME NEW r, kind \in Kinds, Free(r) # {}
  PROVE  Lowest(r) \in Free(r)
<1>1. Free(r) \subseteq Nat
  BY SizeFacts DEF Free
<1>2. PICK x \in Free(r) : \A y \in Free(r) : ~(<<y, x>> \in OpToRel(<, Nat))
  BY <1>1, NatLessThanWellFounded, WFMin, Zenon
<1>3. \A y \in Free(r) : ~(y < x)
  BY <1>1, <1>2, Zenon DEF OpToRel
<1>4. \A y \in Free(r) : x <= y
  BY <1>1, <1>3
<1> QED
  BY <1>4 DEF Lowest, Min

LEMMA TimesFacts ==
  ASSUME NEW S, NEW hs \in Seq(S), NEW h
  PROVE  /\ IsFiniteSet({j \in DOMAIN hs : hs[j] = h})
         /\ Times(hs, h) \in Nat
         /\ Times(hs, h) <= Len(hs)
<1>1. DOMAIN hs = 1 .. Len(hs) /\ Len(hs) \in Nat
  OBVIOUS
<1>2. IsFiniteSet(1 .. Len(hs)) /\ Cardinality(1 .. Len(hs)) = Len(hs)
  BY <1>1, FS_Interval
<1>3. {j \in DOMAIN hs : hs[j] = h} \in SUBSET (1 .. Len(hs))
  BY <1>1
<1> QED
  BY <1>1, <1>2, <1>3, FS_Subset, FS_CardinalityType DEF Times

-----------------------------------------------------------------------------
(* The two parts of a reference count.                                     *)

LEMMA CountTypes ==
  ASSUME TypeOK, NEW h
  PROVE  /\ IsFiniteSet({s \in Slots : slot[s] = h})
         /\ Cardinality({s \in Slots : slot[s] = h}) \in 0 .. RefFrames
         /\ IsFiniteSet(InFlight(h))
         /\ Cardinality(InFlight(h)) \in 0 .. MostHolds
<1>1. {s \in Slots : slot[s] = h} \in SUBSET Slots
  OBVIOUS
<1>2. /\ IsFiniteSet({s \in Slots : slot[s] = h})
      /\ Cardinality({s \in Slots : slot[s] = h}) \in 0 .. RefFrames
  BY <1>1, HandleAssumption, FS_Subset, FS_CardinalityType DEF RefFrames
<1>3. Len(ring) \in Nat /\ InterRefs + 2 \in Nat /\ Len(ring) <= MaxFrames /\ MaxFrames \in Nat
  BY HandleAssumption DEF TypeOK
<1>4. /\ IsFiniteSet(1 .. Len(ring)) /\ Cardinality(1 .. Len(ring)) = Len(ring)
      /\ IsFiniteSet(1 .. InterRefs + 2) /\ Cardinality(1 .. InterRefs + 2) = InterRefs + 2
  BY <1>3, Interval
<1> DEFINE places == (1 .. Len(ring)) \X (1 .. InterRefs + 2)
<1>5. IsFiniteSet(places) /\ Cardinality(places) = Len(ring) * (InterRefs + 2)
  <2>1. /\ IsFiniteSet(places)
        /\ Cardinality(places) = Cardinality(1 .. Len(ring)) * Cardinality(1 .. InterRefs + 2)
    BY <1>4, FS_Product, Zenon
  <2> QED
    BY <1>4, <2>1
<1>6. InFlight(h) \in SUBSET places
  BY DEF InFlight
<1>7. IsFiniteSet(InFlight(h)) /\ Cardinality(InFlight(h)) <= Cardinality(places)
  BY <1>5, <1>6, FS_Subset
<1>8. Len(ring) * (InterRefs + 2) <= MostHolds
  BY <1>3 DEF MostHolds
<1>9. Cardinality(InFlight(h)) \in Nat /\ Cardinality(places) \in Nat
  BY <1>5, <1>7, FS_CardinalityType
<1>10. Cardinality(InFlight(h)) <= MostHolds
  BY <1>5, <1>7, <1>8, <1>9, HoldFacts
<1> QED
  BY <1>2, <1>7, <1>9, <1>10, HoldFacts

\* Counts stay far below the uint8 they are kept in.
LEMMA CountBound ==
  ASSUME TypeOK, CountsExact, NEW h \in 1 .. Size
  PROVE  refs[h] \in 0 .. 255
<1>1. refs[h] = Cardinality({s \in Slots : slot[s] = h}) + Cardinality(InFlight(h))
  BY DEF CountsExact
<1>2. /\ Cardinality({s \in Slots : slot[s] = h}) \in 0 .. RefFrames
      /\ Cardinality(InFlight(h)) \in 0 .. MostHolds
  BY CountTypes
<1> QED
  BY <1>1, <1>2, HoldFacts

\* Nobody names a handle that is free.
LEMMA FreeUnnamed ==
  ASSUME TypeOK, CountsExact, NEW h \in 1 .. Size, refs[h] = 0
  PROVE  /\ \A s \in Slots : slot[s] # h
         /\ InFlight(h) = {}
<1>1. refs[h] = Cardinality({s \in Slots : slot[s] = h}) + Cardinality(InFlight(h))
  BY DEF CountsExact
<1>2. Cardinality({s \in Slots : slot[s] = h}) = 0 /\ Cardinality(InFlight(h)) = 0
  BY <1>1, CountTypes, HoldFacts
<1>3. {s \in Slots : slot[s] = h} = {} /\ InFlight(h) = {}
  BY <1>2, CountTypes, FS_EmptySet
<1> QED
  BY <1>3

\* A handle a frame in flight holds is in InFlight.
LEMMA HeldInFlight ==
  ASSUME TypeOK, FramesOK, NEW i \in 1 .. Len(ring), NEW h \in Range(ring[i].holds)
  PROVE  InFlight(h) # {}
<1>1. ring[i] \in Frame /\ FrameOK(ring[i])
  BY DEF TypeOK, FramesOK
<1>2. ring[i].holds \in Seq(0 .. Size) /\ Len(ring[i].holds) <= Width
  BY <1>1 DEF Frame, FrameOK
<1>3. PICK j \in DOMAIN ring[i].holds : ring[i].holds[j] = h
  BY DEF Range
<1>4. j \in 1 .. InterRefs + 2
  <2>1. Width \in Nat /\ Width <= InterRefs + 2 /\ InterRefs + 2 \in Nat
    BY SizeFacts, HandleAssumption DEF TypeOK
  <2>2. j \in 1 .. Len(ring[i].holds) /\ Len(ring[i].holds) \in Nat
    BY <1>2, <1>3
  <2> QED
    BY <1>2, <2>1, <2>2
<1>5. <<i, j>> \in InFlight(h)
  BY <1>3, <1>4 DEF InFlight
<1> QED
  BY <1>5

-----------------------------------------------------------------------------
(* The pools are large enough.                                             *)

LEMMA NeverOut ==
  ASSUME TypeOK, FramesOK, CountsExact
  PROVE  NeverExhausted
<1> SUFFICES ASSUME Room PROVE Cardinality(Free(refs)) >= Spare
  BY DEF NeverExhausted, Spare
<1>0. /\ Size \in Nat /\ RefFrames \in Nat /\ Width \in Nat /\ Spare \in Nat
      /\ Size = RefFrames + Spare + Width * MaxFrames
      /\ Len(ring) \in Nat /\ MaxFrames \in Nat /\ Len(ring) < MaxFrames
  BY SizeFacts, HandleAssumption DEF TypeOK, Room
<1> DEFINE busy == {h \in 1 .. Size : refs[h] # 0}
           places == (1 .. Len(ring)) \X (1 .. Width)
           hold == [p \in places |-> ring[p[1]].holds[p[2]]]
           named == {slot[s] : s \in Slots}
           held == {hold[p] : p \in places}
<1>1. IsFiniteSet(named) /\ Cardinality(named) <= RefFrames
  <2>1. slot = [s \in Slots |-> slot[s]]
    BY DEF TypeOK
  <2> QED
    BY <2>1, ImageCardinality, HandleAssumption DEF RefFrames
<1>2. IsFiniteSet(places) /\ Cardinality(places) = Len(ring) * Width
  <2>1. /\ IsFiniteSet(1 .. Len(ring)) /\ Cardinality(1 .. Len(ring)) = Len(ring)
        /\ IsFiniteSet(1 .. Width) /\ Cardinality(1 .. Width) = Width
    BY <1>0, Interval
  <2>2. /\ IsFiniteSet(places)
        /\ Cardinality(places) = Cardinality(1 .. Len(ring)) * Cardinality(1 .. Width)
    BY <2>1, FS_Product, Zenon
  <2> QED
    BY <2>1, <2>2
<1>3. IsFiniteSet(held) /\ Cardinality(held) <= Cardinality(places)
  <2>1. hold = [p \in places |-> hold[p]]
    OBVIOUS
  <2> HIDE DEF hold, places
  <2> QED
    BY <1>2, <2>1, ImageCardinality
<1>4. busy \in SUBSET (named \cup held)
  <2> SUFFICES ASSUME NEW h \in 1 .. Size, refs[h] # 0, h \notin named PROVE h \in held
    OBVIOUS
  <2>1. {s \in Slots : slot[s] = h} = {}
    OBVIOUS
  <2>2. Cardinality(InFlight(h)) # 0
    BY <2>1, FS_EmptySet, CountTypes, HoldFacts DEF CountsExact
  <2>3. PICK p : p \in InFlight(h)
    BY <2>2, FS_EmptySet
  <2>4. /\ p \in (1 .. Len(ring)) \X (1 .. InterRefs + 2) /\ p[2] \in DOMAIN ring[p[1]].holds
        /\ ring[p[1]].holds[p[2]] = h
    BY <2>3 DEF InFlight
  <2>5. ring[p[1]] \in Frame /\ FrameOK(ring[p[1]])
    BY <2>4 DEF TypeOK, FramesOK
  <2>6. p[2] \in 1 .. Width
    BY <2>4, <2>5, <1>0 DEF Frame, FrameOK
  <2>7. p \in places /\ hold[p] = h
    BY <2>4, <2>6
  <2> QED
    BY <2>7
<1> HIDE DEF places, hold, named, held
<1>5. /\ IsFiniteSet(named \cup held)
      /\ Cardinality(named \cup held) <= Cardinality(named) + Cardinality(held)
      /\ Cardinality(named) \in Nat /\ Cardinality(held) \in Nat /\ Cardinality(named \cup held) \in Nat
  <2>1. /\ IsFiniteSet(named \cup held) /\ IsFiniteSet(named \cap held)
        /\ Cardinality(named \cup held) = Cardinality(named) + Cardinality(held) - Cardinality(named \cap held)
    BY <1>1, <1>3, FS_Union, FS_Intersection
  <2>2. /\ Cardinality(named) \in Nat /\ Cardinality(held) \in Nat
        /\ Cardinality(named \cup held) \in Nat /\ Cardinality(named \cap held) \in Nat
    BY <1>1, <1>3, <2>1, FS_CardinalityType
  <2> QED
    BY <2>1, <2>2
<1>6. /\ IsFiniteSet(busy) /\ Cardinality(busy) \in Nat
      /\ Cardinality(busy) <= Cardinality(named \cup held)
  BY <1>4, <1>5, FS_Subset, FS_CardinalityType
<1>7. Free(refs) = (1 .. Size) \ busy /\ (1 .. Size) \cap busy = busy
  BY DEF Free
<1> HIDE DEF busy
<1>8. Cardinality(Free(refs)) = Size - Cardinality(busy)
  <2>1. IsFiniteSet(1 .. Size) /\ Cardinality(1 .. Size) = Size
    BY <1>0, Interval
  <2>2. Cardinality((1 .. Size) \ busy) = Cardinality(1 .. Size) - Cardinality((1 .. Size) \cap busy)
    BY <2>1, FS_Difference, Zenon
  <2> QED
    BY <1>7, <2>1, <2>2, Zenon
<1>9. Cardinality(busy) <= RefFrames + Len(ring) * Width
  <2>1. Cardinality(places) \in Nat
    BY <1>2, FS_CardinalityType
  <2> QED
    BY <2>1, <1>0, <1>1, <1>2, <1>3, <1>5, <1>6
<1>10. Len(ring) * Width <= Width * MaxFrames
  BY <1>0
<1> QED
  BY <1>0, <1>6, <1>8, <1>9, <1>10

-----------------------------------------------------------------------------
(* How the steps of the planning goroutine change the two parts.           *)

\* The slots that name x, of the slots q; those that drop it.
NamedBy(q, x) == Cardinality({s \in Slots : q[s] = x})
DroppedBy(slots, x) == Cardinality({s \in slots : slot[s] = x})

\* Renaming slots moves their count to the new handle.
LEMMA RenameCount ==
  ASSUME TypeOK, NEW slots \in SUBSET Slots, NEW h, NEW x
  PROVE  /\ DroppedBy(slots, x) \in 0 .. NamedBy(slot, x) /\ Cardinality(slots) \in Nat
         /\ NamedBy(Renamed(slots, h), x) =
              NamedBy(slot, x) - DroppedBy(slots, x) + IF x = h THEN Cardinality(slots) ELSE 0
<1> DEFINE drop == {s \in slots : slot[s] = x}
           keep == {s \in Slots \ slots : slot[s] = x}
           old == {s \in Slots : slot[s] = x}
           new == {s \in Slots : Renamed(slots, h)[s] = x}
           gain == IF x = h THEN slots ELSE {}
<1>1. IsFiniteSet(slots) /\ IsFiniteSet(drop) /\ IsFiniteSet(keep) /\ IsFiniteSet(gain)
  <2>1. drop \in SUBSET Slots /\ keep \in SUBSET Slots /\ slots \in SUBSET Slots
    OBVIOUS
  <2> QED
    BY <2>1, HandleAssumption, FS_Subset, FS_EmptySet
<1>2. old = keep \cup drop /\ keep \cap drop = {}
  OBVIOUS
<1>3. new = keep \cup gain /\ keep \cap gain = {}
  BY DEF Renamed
<1>4. Cardinality(gain) = IF x = h THEN Cardinality(slots) ELSE 0
  BY FS_EmptySet
<1>5. Cardinality(slots) \in Nat
  BY <1>1, FS_CardinalityType
<1> HIDE DEF old, keep, drop, new, gain
<1>6. /\ Cardinality(keep) \in Nat /\ Cardinality(drop) \in Nat
      /\ Cardinality(old) = Cardinality(keep) + Cardinality(drop)
  BY <1>1, <1>2, DisjointCardinality
<1>7. Cardinality(new) = Cardinality(keep) + Cardinality(gain)
  BY <1>1, <1>3, DisjointCardinality, Zenon
<1>8. /\ Cardinality(drop) \in 0 .. Cardinality(old)
      /\ Cardinality(new) = Cardinality(old) - Cardinality(drop) + IF x = h THEN Cardinality(slots) ELSE 0
  BY <1>4, <1>5, <1>6, <1>7
<1> QED
  BY <1>5, <1>8 DEF old, drop, new, NamedBy, DroppedBy

\* A frame put in the ring adds its holds.
LEMMA AppendFlight ==
  ASSUME TypeOK, NEW f, f.holds \in Seq(0 .. Size), Len(f.holds) <= InterRefs + 2,
         ring' = Append(ring, f), NEW h
  PROVE  Cardinality(InFlight(h)') = Cardinality(InFlight(h)) + Times(f.holds, h)
<1> DEFINE J == {j \in DOMAIN f.holds : f.holds[j] = h}
           n == Len(ring) + 1
           P == {n} \X J
           at == [j \in J |-> <<n, j>>]
<1>1. /\ ring \in Seq(Frame) /\ Len(ring) \in Nat /\ InterRefs \in Nat
      /\ Len(ring') = n /\ ring'[n] = f /\ \A i \in 1 .. Len(ring) : ring'[i] = ring[i]
  BY HandleAssumption DEF TypeOK
<1>2. IsFiniteSet(J) /\ Cardinality(J) = Times(f.holds, h)
  BY TimesFacts, Zenon DEF Times
<1>3. IsFiniteSet(P) /\ Cardinality(P) = Cardinality(J)
  <2>1. /\ at \in [J -> P]
        /\ \A x, y \in J : at[x] = at[y] => x = y
        /\ \A t \in P : \E x \in J : at[x] = t
    BY <1>1
  <2> HIDE DEF at, P, J
  <2> QED
    BY <1>2, <2>1, SameCardinality
<1>4. InFlight(h)' = InFlight(h) \cup P
  <2>1. ASSUME NEW p \in InFlight(h)' PROVE p \in InFlight(h) \cup P
    <3>1. /\ p \in (1 .. n) \X (1 .. InterRefs + 2)
          /\ p[2] \in DOMAIN ring'[p[1]].holds /\ ring'[p[1]].holds[p[2]] = h
      BY <1>1, <2>1 DEF InFlight
    <3>2. CASE p[1] = n
      BY <3>1, <3>2, <1>1
    <3>3. CASE p[1] # n
      <4>1. p[1] \in 1 .. Len(ring)
        BY <3>1, <3>3, <1>1
      <4> QED
        BY <4>1, <3>1, <1>1 DEF InFlight
    <3> QED
      BY <3>2, <3>3
  <2>2. ASSUME NEW p \in InFlight(h) PROVE p \in InFlight(h)'
    <3>1. /\ p \in (1 .. Len(ring)) \X (1 .. InterRefs + 2)
          /\ p[2] \in DOMAIN ring[p[1]].holds /\ ring[p[1]].holds[p[2]] = h
      BY <2>2 DEF InFlight
    <3>2. p[1] \in 1 .. Len(ring') /\ ring'[p[1]] = ring[p[1]]
      BY <3>1, <1>1
    <3> QED
      BY <3>1, <3>2 DEF InFlight
  <2>3. ASSUME NEW p \in P PROVE p \in InFlight(h)'
    <3>1. PICK j \in J : p = <<n, j>>
      BY <2>3
    <3>2. j \in 1 .. InterRefs + 2
      BY <1>1, <3>1
    <3>3. n \in 1 .. Len(ring')
      BY <1>1
    <3> QED
      BY <1>1, <3>1, <3>2, <3>3 DEF InFlight
  <2> QED
    BY <2>1, <2>2, <2>3
<1>5. InFlight(h) \cap P = {}
  BY <1>1 DEF InFlight
<1>6. IsFiniteSet(InFlight(h))
  BY CountTypes, Zenon
<1> HIDE DEF P, J
<1>7. Cardinality(InFlight(h) \cup P) = Cardinality(InFlight(h)) + Cardinality(P)
  BY <1>3, <1>5, <1>6, DisjointCardinality, Zenon
<1> QED
  BY <1>2, <1>3, <1>4, <1>7

\* The oldest frame takes its holds with it.
LEMMA TailFlight ==
  ASSUME TypeOK, FramesOK, ring # <<>>, ring' = Tail(ring), NEW h
  PROVE  /\ Cardinality(InFlight(h)) = Cardinality(InFlight(h)') + Times(Head(ring).holds, h)
         /\ Cardinality(InFlight(h)') \in Nat /\ Times(Head(ring).holds, h) \in Nat
<1> DEFINE J == {j \in DOMAIN ring[1].holds : ring[1].holds[j] = h}
           first == {p \in InFlight(h) : p[1] = 1}
           rest == {p \in InFlight(h) : p[1] # 1}
           at == [j \in J |-> <<1, j>>]
           move == [p \in rest |-> <<p[1] - 1, p[2]>>]
<1>1. /\ ring \in Seq(Frame) /\ Len(ring) \in Nat \ {0} /\ InterRefs \in Nat
      /\ Head(ring) = ring[1] /\ ring[1] \in Frame
      /\ Len(ring') = Len(ring) - 1 /\ \A i \in 1 .. Len(ring) - 1 : ring'[i] = ring[i + 1]
  BY HandleAssumption DEF TypeOK
<1>2. /\ ring[1].holds \in Seq(0 .. Size) /\ DOMAIN ring[1].holds = 1 .. Len(ring[1].holds)
      /\ Len(ring[1].holds) \in Nat /\ Len(ring[1].holds) <= InterRefs + 2
  <2>1. FrameOK(ring[1])
    BY <1>1 DEF FramesOK
  <2>2. Width \in Nat /\ Width <= InterRefs + 2
    BY SizeFacts DEF TypeOK
  <2> QED
    BY <1>1, <2>1, <2>2 DEF Frame, FrameOK
<1>3. IsFiniteSet(J) /\ Cardinality(J) = Times(Head(ring).holds, h) /\ Cardinality(J) \in Nat
  BY <1>1, <1>2, TimesFacts, Zenon DEF Times
<1>4. IsFiniteSet(first) /\ Cardinality(first) = Cardinality(J)
  <2>1. \A p \in first : p = <<1, p[2]>> /\ p[2] \in J
    BY DEF InFlight
  <2>2. \A j \in J : <<1, j>> \in first
    BY <1>1, <1>2 DEF InFlight
  <2>3. /\ at \in [J -> first]
        /\ \A x, y \in J : at[x] = at[y] => x = y
        /\ \A t \in first : \E x \in J : at[x] = t
    BY <2>1, <2>2
  <2> HIDE DEF at, first, J
  <2> QED
    BY <1>3, <2>3, SameCardinality
<1>5. IsFiniteSet(rest)
  <2>1. rest \in SUBSET InFlight(h)
    OBVIOUS
  <2> QED
    BY <2>1, CountTypes, FS_Subset, Zenon
<1>6. IsFiniteSet(InFlight(h)') /\ Cardinality(InFlight(h)') = Cardinality(rest)
  <2>1. ASSUME NEW p \in rest PROVE move[p] \in InFlight(h)' /\ p = <<p[1], p[2]>> /\ p[1] \in Int
    <3>1. /\ p \in (1 .. Len(ring)) \X (1 .. InterRefs + 2) /\ p[1] # 1
          /\ p[2] \in DOMAIN ring[p[1]].holds /\ ring[p[1]].holds[p[2]] = h
      BY <2>1 DEF InFlight
    <3>2. p[1] - 1 \in 1 .. Len(ring) - 1 /\ ring'[p[1] - 1] = ring[p[1]]
      BY <3>1, <1>1
    <3>3. <<p[1] - 1, p[2]>> \in (1 .. Len(ring')) \X (1 .. InterRefs + 2)
      BY <1>1, <3>1, <3>2
    <3>4. <<p[1] - 1, p[2]>> \in InFlight(h)'
      BY <3>1, <3>2, <3>3 DEF InFlight
    <3>5. move[p] = <<p[1] - 1, p[2]>>
      OBVIOUS
    <3>6. p = <<p[1], p[2]>> /\ p[1] \in Int
      BY <3>1
    <3> QED
      BY <3>4, <3>5, <3>6
  <2>2. ASSUME NEW t \in InFlight(h)' PROVE \E p \in rest : move[p] = t
    <3>1. /\ t \in (1 .. Len(ring) - 1) \X (1 .. InterRefs + 2)
          /\ t[2] \in DOMAIN ring'[t[1]].holds /\ ring'[t[1]].holds[t[2]] = h
      BY <1>1, <2>2 DEF InFlight
    <3>2. t[1] + 1 \in 2 .. Len(ring) /\ ring'[t[1]] = ring[t[1] + 1] /\ t[1] + 1 - 1 = t[1]
      BY <3>1, <1>1
    <3>3. <<t[1] + 1, t[2]>> \in rest
      BY <3>1, <3>2, <1>1 DEF InFlight
    <3>4. move[<<t[1] + 1, t[2]>>] = t
      BY <3>1, <3>2, <3>3
    <3> QED
      BY <3>3, <3>4
  <2>3. /\ move \in [rest -> InFlight(h)']
        /\ \A x, y \in rest : move[x] = move[y] => x = y
    <3>1. move \in [rest -> InFlight(h)']
      BY <2>1, Zenon
    <3>2. ASSUME NEW x \in rest, NEW y \in rest, move[x] = move[y] PROVE x = y
      <4>1. x = <<x[1], x[2]>> /\ y = <<y[1], y[2]>> /\ x[1] \in Int /\ y[1] \in Int
        BY <2>1, Zenon
      <4>2. <<x[1] - 1, x[2]>> = <<y[1] - 1, y[2]>>
        BY <3>2
      <4>3. x[1] = y[1] /\ x[2] = y[2]
        BY <4>1, <4>2
      <4> QED
        BY <4>1, <4>3
    <3> QED
      BY <3>1, <3>2, Zenon
  <2> HIDE DEF move, rest
  <2> QED
    BY <1>5, <2>2, <2>3, SameCardinality
<1>7. InFlight(h) = first \cup rest /\ first \cap rest = {}
  OBVIOUS
<1> HIDE DEF first, rest, J
<1> QED
  BY <1>3, <1>4, <1>5, <1>6, <1>7, DisjointCardinality

\* Nothing else changes what is held.
LEMMA SameFlight ==
  ASSUME Len(ring') = Len(ring), \A i \in 1 .. Len(ring) : ring'[i].holds = ring[i].holds, NEW h
  PROVE  InFlight(h)' = InFlight(h)
BY DEF InFlight

-----------------------------------------------------------------------------
(* What a frame in planning is given.                                      *)

PlanOK(g) ==
  /\ g.reads \in Seq(0 .. Size) /\ g.holds \in Seq(0 .. Size)
  /\ g.writes \in 0 .. Size /\ g.named \in 0 .. Size
  /\ FrameOK(g)
  /\ g.writes # None => refs[g.writes] = 0

LEMMA TupleRanges ==
  ASSUME NEW a, NEW b
  PROVE  Range(<<a>>) = {a} /\ Range(<<a, b>>) = {a, b}
BY DEF Range

LEMMA FreeCount ==
  ASSUME TypeOK
  PROVE  IsFiniteSet(Free(refs)) /\ Cardinality(Free(refs)) \in Nat
<1>1. Free(refs) \in SUBSET (1 .. Size) /\ Size \in Nat
  BY SizeFacts DEF Free, TypeOK
<1> QED
  BY <1>1, Interval, FS_Subset, FS_CardinalityType

\* A frame takes a free handle other than the one it has.
LEMMA TakeFree ==
  ASSUME TypeOK, NEW h \in 0 .. Size,
         Cardinality(Free(refs)) >= (IF h \in Free(refs) THEN 2 ELSE 1),
         NEW x, x = Lowest(Retain(refs, h))
  PROVE  x \in 1 .. Size /\ refs[x] = 0 /\ x # h
<1>0. Size \in Nat /\ kind \in Kinds
  BY SizeFacts DEF TypeOK
<1>1. IsFiniteSet(Free(refs)) /\ Cardinality(Free(refs)) \in Nat
  BY FreeCount
<1>2. Free(Retain(refs, h)) = Free(refs) \ {h}
  BY <1>0 DEF Free, Retain, None, TypeOK
<1>3. Free(refs) \ {h} # {}
  <2>1. /\ IsFiniteSet(Free(refs) \ {h})
        /\ Cardinality(Free(refs) \ {h}) =
             IF h \in Free(refs) THEN Cardinality(Free(refs)) - 1 ELSE Cardinality(Free(refs))
    BY <1>1, FS_RemoveElement
  <2>2. Cardinality(Free(refs) \ {h}) # 0
    BY <1>1, <2>1
  <2> QED
    BY <2>2, FS_EmptySet
<1>4. x \in Free(refs) \ {h}
  BY <1>0, <1>2, <1>3, LowestFree
<1> QED
  BY <1>4 DEF Free

LEMMA CDFPlanOK ==
  ASSUME TypeOK, FramesOK, CountsExact, Room, kind = "cdf",
         NEW primary \in Slots \cup {NoRef}, NEW retain \in BOOLEAN
  PROVE  PlanOK(PlanCDF(primary, retain))
<1> DEFINE shared == primary # NoRef /\ slot[primary] # None
           in == IF shared THEN slot[primary] ELSE Lowest(refs)
           out == Lowest(Retain(refs, in))
           g == PlanCDF(primary, retain)
<1>0. Size \in Nat /\ Cardinality(Free(refs)) >= 2 /\ refs = Retain(refs, 0)
  BY NeverOut, SizeFacts DEF NeverExhausted, TypeOK, Retain, None
<1>1. in \in 1 .. Size
  <2>1. CASE shared
    BY <2>1 DEF TypeOK, None
  <2>2. CASE ~shared
    <3>1. 0 \notin Free(refs) /\ 0 \in 0 .. Size
      BY <1>0 DEF Free
    <3>2. Cardinality(Free(refs)) >= IF 0 \in Free(refs) THEN 2 ELSE 1
      BY <1>0, <3>1, FreeCount
    <3> QED
      BY <1>0, <2>2, <3>1, <3>2, TakeFree
  <2> QED
    BY <2>1, <2>2
<1> HIDE DEF in
<1>2. out \in 1 .. Size /\ refs[out] = 0 /\ out # in
  <2>1. in \in 0 .. Size
    BY <1>0, <1>1
  <2>2. Cardinality(Free(refs)) >= IF in \in Free(refs) THEN 2 ELSE 1
    BY <1>0, FreeCount
  <2> QED
    BY <2>1, <2>2, TakeFree
<1>3. g = Given(<<in>>, IF retain THEN out ELSE None, <<in, out>>, IF retain THEN out ELSE in)
  BY DEF PlanCDF, in
<1> HIDE DEF out, g
<1>4. /\ g.reads = <<in>> /\ g.holds = <<in, out>> /\ g.writes = (IF retain THEN out ELSE None)
      /\ g.named = IF retain THEN out ELSE in
  BY <1>3 DEF Given
<1>5. g.reads \in Seq(0 .. Size) /\ g.holds \in Seq(0 .. Size) /\ g.writes \in 0 .. Size /\ g.named \in 0 .. Size
  BY <1>0, <1>1, <1>2, <1>4 DEF None
<1>6. FrameOK(g)
  BY <1>1, <1>2, <1>4, TupleRanges DEF FrameOK, Width, None
<1>7. g.writes # None => refs[g.writes] = 0
  BY <1>2, <1>4
<1> QED
  BY <1>5, <1>6, <1>7 DEF PlanOK, g

LEMMA SegPlanOK ==
  ASSUME TypeOK, FramesOK, CountsExact, Room, kind = "seg",
         NEW prev \in {slot[s] : s \in Slots} \cup {None}, NEW update \in BOOLEAN
  PROVE  PlanOK(PlanSeg(prev, update))
<1> DEFINE cur == IF update THEN Lowest(Retain(refs, prev)) ELSE prev
           g == PlanSeg(prev, update)
<1>0. Size \in Nat /\ Cardinality(Free(refs)) >= 1
  BY NeverOut, SizeFacts DEF NeverExhausted, TypeOK
<1>1. prev \in 0 .. Size
  BY <1>0 DEF TypeOK, None
<1>2. prev \notin Free(refs)
  BY FreeUnnamed DEF Free, None
<1>3. cur \in 0 .. Size /\ (update => cur \in 1 .. Size /\ refs[cur] = 0 /\ cur # prev)
  BY <1>0, <1>1, <1>2, TakeFree
<1>4. g = Given(<<prev>>, IF update THEN cur ELSE None, <<cur, prev>>, cur)
  BY DEF PlanSeg
<1> HIDE DEF cur, g
<1>5. /\ g.reads = <<prev>> /\ g.holds = <<cur, prev>> /\ g.writes = (IF update THEN cur ELSE None)
      /\ g.named = cur
  BY <1>4 DEF Given
<1>6. g.reads \in Seq(0 .. Size) /\ g.holds \in Seq(0 .. Size) /\ g.writes \in 0 .. Size /\ g.named \in 0 .. Size
  BY <1>0, <1>1, <1>3, <1>5 DEF None
<1>7. FrameOK(g)
  <2>1. Range(g.reads) = {prev} /\ Range(g.holds) = {cur, prev}
    BY <1>5, TupleRanges, Zenon
  <2>2. Len(g.holds) <= Width
    BY <1>5 DEF Width
  <2> QED
    BY <1>3, <1>5, <2>1, <2>2 DEF FrameOK
<1>8. g.writes # None => refs[g.writes] = 0
  BY <1>3, <1>5
<1> QED
  BY <1>6, <1>7, <1>8 DEF PlanOK, g

LEMMA MVPlanOK ==
  ASSUME TypeOK, FramesOK, CountsExact, Room, kind = "mv", NEW g \in MVPlans
  PROVE  PlanOK(g)
<1> DEFINE grid == Lowest(refs)
           From(f) == [i \in 1 .. InterRefs |-> slot[f[i]]]
<1>0. Size \in Nat /\ Cardinality(Free(refs)) >= 1 /\ InterRefs \in Nat \ {0} /\ refs = Retain(refs, 0)
  BY NeverOut, SizeFacts, HandleAssumption DEF NeverExhausted, TypeOK, Retain, None
<1>1. grid \in 1 .. Size /\ refs[grid] = 0
  <2>1. 0 \notin Free(refs) /\ 0 \in 0 .. Size
    BY <1>0 DEF Free
  <2> QED
    BY <1>0, <2>1, TakeFree
<1> HIDE DEF grid
<1>2. CASE g = Given(<<>>, None, <<>>, None)
  BY <1>0, <1>2 DEF PlanOK, FrameOK, Given, None, Range, Width
<1>3. CASE g = Given(<<>>, grid, <<grid>>, grid)
  <2>1. g.reads = <<>> /\ g.writes = grid /\ g.holds = <<grid>> /\ g.named = grid
    BY <1>3 DEF Given
  <2>2. FrameOK(g)
    BY <1>0, <2>1, TupleRanges DEF FrameOK, Width, Range
  <2> QED
    BY <1>0, <1>1, <2>1, <2>2 DEF PlanOK
<1>4. ASSUME NEW f \in [1 .. InterRefs -> Slots], g = Given(From(f), grid, <<grid>> \o From(f), grid)
      PROVE  PlanOK(g)
  <2>1. /\ From(f) \in Seq(0 .. Size) /\ Len(From(f)) = InterRefs /\ DOMAIN From(f) = 1 .. InterRefs
        /\ \A i \in 1 .. InterRefs : From(f)[i] = slot[f[i]] /\ f[i] \in Slots
    BY <1>0 DEF TypeOK
  <2> HIDE DEF From
  <2>2. g.reads = From(f) /\ g.writes = grid /\ g.holds = <<grid>> \o From(f) /\ g.named = grid
    BY <1>4 DEF Given
  <2>3. <<grid>> \in Seq(0 .. Size) /\ Len(<<grid>>) = 1 /\ <<grid>>[1] = grid
    BY <1>0, <1>1
  <2>4. /\ g.holds \in Seq(0 .. Size) /\ Len(g.holds) = 1 + InterRefs
        /\ g.holds[1] = grid /\ \A i \in 1 .. InterRefs : g.holds[i + 1] = From(f)[i]
    BY <1>0, <2>1, <2>2, <2>3
  <2>5. DOMAIN g.holds = 1 .. 1 + InterRefs
    BY <2>4
  <2>6. Range(g.reads) \subseteq Range(g.holds)
    <3> SUFFICES ASSUME NEW i \in 1 .. InterRefs PROVE From(f)[i] \in Range(g.holds)
      BY <2>1, <2>2 DEF Range
    <3>1. i + 1 \in DOMAIN g.holds /\ g.holds[i + 1] = From(f)[i]
      BY <1>0, <2>4, <2>5
    <3> QED
      BY <3>1 DEF Range
  <2>7. grid \in Range(g.holds)
    <3>1. 1 \in DOMAIN g.holds
      BY <1>0, <2>5
    <3> QED
      BY <2>4, <3>1 DEF Range
  <2>8. grid \notin Range(g.reads)
    BY <1>1, <2>1, <2>2, FreeUnnamed DEF Range
  <2>9. FrameOK(g)
    <3>1. Len(g.holds) <= Width
      BY <1>0, <2>4 DEF Width
    <3> QED
      BY <2>2, <2>6, <2>7, <2>8, <3>1 DEF FrameOK
  <2> QED
    BY <1>0, <1>1, <2>1, <2>2, <2>4, <2>9 DEF PlanOK
<1> QED
  BY <1>2, <1>3, <1>4, Zenon DEF MVPlans, grid, From

LEMMA PlanFacts ==
  ASSUME TypeOK, FramesOK, CountsExact, Room, NEW g \in Plans
  PROVE  PlanOK(g)
<1>1. CASE kind = "cdf"
  BY <1>1, CDFPlanOK DEF Plans, CDFPlans
<1>2. CASE kind = "mv"
  BY <1>2, MVPlanOK DEF Plans
<1>3. CASE kind = "seg"
  BY <1>3, SegPlanOK DEF Plans, SegPlans
<1> QED
  BY <1>1, <1>2, <1>3 DEF TypeOK, Kinds

-----------------------------------------------------------------------------
(* Steps, first what the counts do not say.                                *)

StateInv == FramesOK /\ InputsStable /\ Written /\ MapGood

LEMMA SameSize ==
  ASSUME kind' = kind
  PROVE  Size' = Size /\ Frame' = Frame /\ Width' = Width
BY DEF Size, Frame, Width

LEMMA InSeq ==
  ASSUME NEW S, NEW q \in Seq(S)
  PROVE  \A j \in DOMAIN q : q[j] \in S
OBVIOUS

\* The handles of a frame in flight.
LEMMA FrameTypes ==
  ASSUME TypeOK, NEW i \in 1 .. Len(ring)
  PROVE  /\ Range(ring[i].reads) \ {None} \subseteq 1 .. Size
         /\ ring[i].writes # None => ring[i].writes \in 1 .. Size
         /\ ring[i].pc \in {"wait", "parse", "ok", "failed"}
<1>1. ring[i] \in Frame
  BY DEF TypeOK
<1>2. /\ ring[i].reads \in Seq(0 .. Size) /\ ring[i].writes \in 0 .. Size
      /\ ring[i].pc \in {"wait", "parse", "ok", "failed"}
  BY <1>1 DEF Frame
<1>3. \A j \in DOMAIN ring[i].reads : ring[i].reads[j] \in 0 .. Size
  BY <1>2, InSeq, Zenon
<1>4. Size \in Nat
  BY SizeFacts DEF TypeOK
<1> QED
  BY <1>2, <1>3, <1>4 DEF Range, None

\* What a frame reads or writes it holds, so nothing of it is free.
LEMMA UsedNotFree ==
  ASSUME TypeOK, FramesOK, CountsExact, NEW h \in 1 .. Size, refs[h] = 0, NEW i \in 1 .. Len(ring)
  PROVE  h \notin Range(ring[i].reads) /\ h # ring[i].writes
<1>1. h \notin Range(ring[i].holds)
  BY FreeUnnamed, HeldInFlight
<1>2. Range(ring[i].reads) \subseteq Range(ring[i].holds) \cup {None} /\ ring[i].writes \in Range(ring[i].holds) \cup {None}
  BY DEF FramesOK, FrameOK
<1>3. h # None
  BY SizeFacts DEF TypeOK, None
<1> QED
  BY <1>1, <1>2, <1>3

\* A frame, or a shown picture, takes the last place of the ring.
LEMMA AppendState ==
  ASSUME HandleInv, NEW f \in Frame, FrameOK(f), ring' = Append(ring, f), kind' = kind,
         f.writes # None => refs[f.writes] = 0,
         prog' = IF f.writes = None THEN prog ELSE [prog EXCEPT ![f.writes] = 0],
         \/ f.pc = "ok" /\ f.reads = <<>> /\ f.writes = None
         \/ f.pc = IF kind = "mv" THEN "parse" ELSE "wait"
  PROVE  StateInv'
<1> DEFINE n == Len(ring) + 1
<1>1. /\ TypeOK /\ FramesOK /\ CountsExact /\ InputsStable /\ Written /\ MapGood
      /\ ring \in Seq(Frame) /\ Len(ring) \in Nat /\ prog \in [1 .. Size -> {0, Done, Error}]
      /\ Size' = Size /\ Width' = Width /\ Size \in Nat
  BY SameSize, SizeFacts DEF HandleInv, TypeOK
<1>2. Len(ring') = n /\ ring'[n] = f /\ \A i \in 1 .. Len(ring) : ring'[i] = ring[i]
  BY <1>1
<1>3. \A i \in 1 .. n : i = n \/ i \in 1 .. Len(ring)
  BY <1>1
<1>4. f.writes \in 0 .. Size /\ (f.writes # None => f.writes \in 1 .. Size)
  BY <1>1 DEF Frame, None
<1>5. \A i \in 1 .. Len(ring) : f.writes # None =>
        f.writes \notin Range(ring[i].reads) /\ f.writes # ring[i].writes
  BY <1>1, <1>4, UsedNotFree
<1>6. /\ \A h \in 1 .. Size : h # f.writes => prog'[h] = prog[h]
      /\ f.writes # None => prog'[f.writes] = 0
  BY <1>1, <1>4
<1>8. \A i \in 1 .. Len(ring) : ReadProgress(i)' = ReadProgress(i)
  <2> SUFFICES ASSUME NEW i \in 1 .. Len(ring) PROVE ReadProgress(i)' = ReadProgress(i)
    OBVIOUS
  <2>1. Range(ring[i].reads) \ {None} \subseteq 1 .. Size
    BY <1>1, FrameTypes
  <2>2. \A h \in Range(ring[i].reads) \ {None} : prog'[h] = prog[h]
    BY <1>5, <1>6, <2>1
  <2> QED
    BY <1>2, <2>2 DEF ReadProgress
<1>9. FramesOK'
  BY <1>1, <1>2, <1>3 DEF FramesOK, FrameOK
<1>10. InputsStable'
  <2>1. ASSUME NEW i \in 1 .. n, NEW j \in 1 .. n, i < j, ring'[j].writes # None
        PROVE  ring'[j].writes \notin Range(ring'[i].reads) \cup {ring'[i].writes}
    <3>1. i \in 1 .. Len(ring)
      BY <1>1, <2>1
    <3>2. CASE j = n
      BY <3>1, <3>2, <2>1, <1>2, <1>5
    <3>3. CASE j # n
      BY <3>1, <3>3, <2>1, <1>1, <1>2, <1>3 DEF InputsStable
    <3> QED
      BY <3>2, <3>3
  <2>2. ASSUME NEW i \in 1 .. n
        PROVE  /\ ring'[i].pc = "parse" /\ kind # "mv" => 0 \notin ReadProgress(i)'
               /\ ring'[i].pc = "ok" => ReadProgress(i)' \subseteq IF kind = "cdf" THEN {Done, Error} ELSE {Done}
    <3>1. CASE i = n
      <4>1. Range(<<>>) = {}
        BY DEF Range
      <4>2. f.reads = <<>> => ReadProgress(i)' = {}
        BY <3>1, <4>1, <1>2 DEF ReadProgress
      <4>3. ring'[i].pc = f.pc
        BY <3>1, <1>2
      <4>4. CASE f.pc = "ok" /\ f.reads = <<>>
        BY <4>2, <4>3, <4>4
      <4>5. CASE f.pc = IF kind = "mv" THEN "parse" ELSE "wait"
        BY <4>3, <4>5
      <4> QED
        BY <4>4, <4>5
    <3>2. CASE i # n
      BY <3>2, <1>1, <1>2, <1>3, <1>8 DEF InputsStable
    <3> QED
      BY <3>1, <3>2
  <2> QED
    BY <1>2, <2>1, <2>2 DEF InputsStable
<1>11. Written'
  <2>1. ASSUME NEW h \in 1 .. Size, prog'[h] = 0
        PROVE  \E j \in 1 .. n : ring'[j].writes = h /\ ~(ring'[j].pc \in {"ok", "failed"})
    <3>1. CASE h = f.writes
      <4>1. n \in 1 .. n /\ f.pc \notin {"ok", "failed"}
        BY <1>1, <3>1 DEF None
      <4> QED
        BY <3>1, <4>1, <1>2
    <3>2. CASE h # f.writes
      <4>1. PICK j \in 1 .. Len(ring) : ring[j].writes = h /\ ~(ring[j].pc \in {"ok", "failed"})
        BY <3>2, <2>1, <1>1, <1>6 DEF Written, Ended
      <4> QED
        BY <4>1, <1>1, <1>2
    <3> QED
      BY <3>1, <3>2
  <2>2. ASSUME NEW i \in 1 .. n, ring'[i].writes # None, ~(ring'[i].pc \in {"ok", "failed"}), kind # "cdf"
        PROVE  prog'[ring'[i].writes] = 0
    <3>1. CASE i = n
      BY <3>1, <2>2, <1>2, <1>6
    <3>2. CASE i # n
      <4>1. i \in 1 .. Len(ring) /\ ring'[i] = ring[i]
        BY <3>2, <1>2, <1>3
      <4>2. ring[i].writes \in 1 .. Size /\ ring[i].writes # f.writes
        BY <4>1, <2>2, <1>1, <1>5, FrameTypes
      <4> QED
        BY <4>1, <4>2, <2>2, <1>1, <1>6 DEF Written, Ended
    <3> QED
      BY <3>1, <3>2
  <2> QED
    BY <1>1, <1>2, <2>1, <2>2 DEF Written, Ended
<1>12. MapGood'
  <2> SUFFICES ASSUME NEW i \in 1 .. n, kind = "seg", ring'[i].pc = "parse"
               PROVE  ReadProgress(i)' \subseteq {Done}
    BY <1>2 DEF MapGood
  <2>1. i \in 1 .. Len(ring)
    BY <1>2, <1>3
  <2> QED
    BY <2>1, <1>1, <1>2, <1>8 DEF MapGood
<1> QED
  BY <1>9, <1>10, <1>11, <1>12 DEF StateInv

\* retire takes the first, ended frame off the ring.
LEMMA TailState ==
  ASSUME HandleInv, ring # <<>>, Ended(Head(ring)), ring' = Tail(ring), prog' = prog, kind' = kind
  PROVE  StateInv'
<1>1. /\ TypeOK /\ FramesOK /\ InputsStable /\ Written /\ MapGood
      /\ Size' = Size /\ Width' = Width
      /\ Len(ring) \in Nat \ {0} /\ Head(ring) = ring[1]
      /\ Len(ring') = Len(ring) - 1 /\ \A i \in 1 .. Len(ring) - 1 : ring'[i] = ring[i + 1]
  BY SameSize DEF HandleInv, TypeOK
<1>2. \A i \in 1 .. Len(ring') : i + 1 \in 1 .. Len(ring) /\ ring'[i] = ring[i + 1]
  BY <1>1
<1>3. \A i \in 1 .. Len(ring') : ReadProgress(i)' = ReadProgress(i + 1)
  BY <1>2 DEF ReadProgress
<1>4. FramesOK'
  <2> SUFFICES ASSUME NEW i \in 1 .. Len(ring') PROVE FrameOK(ring[i])'
    BY DEF FramesOK
  <2>1. FrameOK(ring[i + 1])
    BY <1>1, <1>2 DEF FramesOK
  <2> QED
    BY <2>1, <1>1, <1>2 DEF FrameOK
<1>5. InputsStable'
  <2>1. \A i, j \in 1 .. Len(ring') : i < j => i + 1 < j + 1
    BY <1>1
  <2> QED
    BY <1>1, <1>2, <1>3, <2>1 DEF InputsStable
<1>6. Written'
  <2>1. ASSUME NEW h \in 1 .. Size, prog[h] = 0
        PROVE  \E j \in 1 .. Len(ring') : ring'[j].writes = h /\ ~(ring'[j].pc \in {"ok", "failed"})
    <3>1. PICK j \in 1 .. Len(ring) : ring[j].writes = h /\ ~(ring[j].pc \in {"ok", "failed"})
      BY <2>1, <1>1 DEF Written, Ended
    <3>2. j # 1
      BY <3>1, <1>1 DEF Ended
    <3>3. j - 1 \in 1 .. Len(ring') /\ ring'[j - 1] = ring[j]
      BY <3>2, <1>1
    <3> QED
      BY <3>1, <3>3
  <2> QED
    BY <2>1, <1>1, <1>2 DEF Written, Ended
<1>7. MapGood'
  BY <1>1, <1>2, <1>3 DEF MapGood
<1> QED
  BY <1>4, <1>5, <1>6, <1>7 DEF StateInv

\* A step of the pass at place i changes nothing of the ring but where it is.
LEMMA RingAt ==
  ASSUME TypeOK, NEW i \in 1 .. Len(ring), NEW q \in {"wait", "parse", "ok", "failed"},
         ring' = [ring EXCEPT ![i].pc = q], kind' = kind
  PROVE  /\ ring' \in Seq(Frame) /\ Len(ring') = Len(ring) /\ ring'[i].pc = q
         /\ \A j \in 1 .. Len(ring) :
              /\ ring'[j].reads = ring[j].reads /\ ring'[j].writes = ring[j].writes
              /\ ring'[j].holds = ring[j].holds /\ (j # i => ring'[j].pc = ring[j].pc)
<1>1. ring \in Seq(Frame) /\ ring[i] \in Frame
  BY DEF TypeOK
<1>2. \A j \in 1 .. Len(ring) : ring'[j] = IF j = i THEN [ring[i] EXCEPT !.pc = q] ELSE ring[j]
  BY <1>1
<1>3. [ring[i] EXCEPT !.pc = q] \in Frame
  BY <1>1, Zenon DEF Frame
<1>4. ring' \in Seq(Frame) /\ Len(ring') = Len(ring)
  <2> HIDE DEF Frame
  <2>1. ring' = [ring EXCEPT ![i] = [ring[i] EXCEPT !.pc = q]]
    OBVIOUS
  <2> QED
    BY <1>1, <1>3, <2>1
<1>5. /\ [ring[i] EXCEPT !.pc = q].reads = ring[i].reads /\ [ring[i] EXCEPT !.pc = q].writes = ring[i].writes
      /\ [ring[i] EXCEPT !.pc = q].holds = ring[i].holds /\ [ring[i] EXCEPT !.pc = q].pc = q
  BY <1>1 DEF Frame
<1> QED
  BY <1>2, <1>4, <1>5

\* The pass at place i ends, well or not, and ends what it writes.
LEMMA EndsState ==
  ASSUME HandleInv, NEW i \in 1 .. Len(ring), NEW v \in {Done, Error}, Ends(i, v), kind' = kind,
         ring[i].pc \in {"wait", "parse"},
         v = Done => ring[i].pc = "parse" /\ (kind = "mv" => ReadProgress(i) \subseteq {Done})
  PROVE  StateInv'
<1> DEFINE w == ring[i].writes
           q == IF v = Done THEN "ok" ELSE "failed"
<1>1. /\ TypeOK /\ FramesOK /\ InputsStable /\ Written /\ MapGood /\ kind \in Kinds
      /\ Size' = Size /\ Width' = Width /\ Len(ring) \in Nat
      /\ prog \in [1 .. Size -> {0, Done, Error}]
  BY SameSize DEF HandleInv, TypeOK
<1>2. /\ Len(ring') = Len(ring) /\ ring'[i].pc = q
      /\ \A j \in 1 .. Len(ring) :
              /\ ring'[j].reads = ring[j].reads /\ ring'[j].writes = ring[j].writes
              /\ ring'[j].holds = ring[j].holds /\ (j # i => ring'[j].pc = ring[j].pc)
  BY <1>1, RingAt DEF Ends
<1>3. w # None => w \in 1 .. Size
  BY <1>1, FrameTypes
<1>4. /\ \A h \in 1 .. Size : h # w => prog'[h] = prog[h]
      /\ w # None => prog'[w] = v
  BY <1>1, <1>3 DEF Ends, None
<1>5. \A j \in 1 .. Len(ring) : \A x \in ReadProgress(j)' : x = v \/ x \in ReadProgress(j)
  <2> SUFFICES ASSUME NEW j \in 1 .. Len(ring), NEW h \in Range(ring[j].reads) \ {None}
               PROVE  prog'[h] = v \/ prog'[h] \in ReadProgress(j)
    BY <1>2 DEF ReadProgress
  <2>1. h \in 1 .. Size
    BY <1>1, FrameTypes
  <2>2. CASE h = w
    BY <1>4, <2>2
  <2>3. CASE h # w
    BY <1>4, <2>1, <2>3 DEF ReadProgress
  <2> QED
    BY <2>2, <2>3
<1>6. \A j \in 1 .. Len(ring) : w \notin Range(ring[j].reads) \/ w = None => ReadProgress(j)' = ReadProgress(j)
  <2> SUFFICES ASSUME NEW j \in 1 .. Len(ring), w \notin Range(ring[j].reads) \/ w = None
               PROVE  ReadProgress(j)' = ReadProgress(j)
    OBVIOUS
  <2>1. Range(ring[j].reads) \ {None} \subseteq 1 .. Size
    BY <1>1, FrameTypes
  <2>2. \A h \in Range(ring[j].reads) \ {None} : prog'[h] = prog[h]
    BY <1>4, <2>1
  <2> QED
    BY <1>2, <2>2 DEF ReadProgress
\* Who has read only ended grids or maps does not read the one of a running frame.
<1>7. \A j \in 1 .. Len(ring) : kind # "cdf" /\ ReadProgress(j) \subseteq {Done} => ReadProgress(j)' \subseteq {Done}
  <2> SUFFICES ASSUME NEW j \in 1 .. Len(ring), kind # "cdf", ReadProgress(j) \subseteq {Done}
               PROVE  ReadProgress(j)' \subseteq {Done}
    OBVIOUS
  <2>1. w # None => prog[w] = 0
    BY <1>1 DEF Written, Ended
  <2>2. w \notin Range(ring[j].reads) \/ w = None
    <3> SUFFICES ASSUME w \in Range(ring[j].reads), w # None PROVE FALSE
      OBVIOUS
    <3>1. prog[w] \in ReadProgress(j)
      BY DEF ReadProgress
    <3> QED
      BY <2>1, <3>1 DEF Done
  <2> QED
    BY <1>6, <2>2
<1>8. v # 0 /\ v \in {Done, Error} /\ Done # 0 /\ Error # 0 /\ (v = Done <=> q = "ok")
  BY DEF Done, Error
<1>9. FramesOK'
  BY <1>1, <1>2 DEF FramesOK, FrameOK
<1>10. InputsStable'
  <2>1. ASSUME NEW j \in 1 .. Len(ring), ring'[j].pc = "parse", kind # "mv"
        PROVE  0 \notin ReadProgress(j)'
    <3>1. j # i
      BY <1>2, <1>8, <2>1
    <3>2. 0 \notin ReadProgress(j)
      BY <1>1, <1>2, <2>1, <3>1 DEF InputsStable
    <3> QED
      BY <1>5, <1>8, <3>2
  <2>2. ASSUME NEW j \in 1 .. Len(ring), ring'[j].pc = "ok"
        PROVE  ReadProgress(j)' \subseteq IF kind = "cdf" THEN {Done, Error} ELSE {Done}
    <3>1. CASE kind = "cdf"
      <4>1. ReadProgress(j) \subseteq {0, Done, Error}
        BY <1>1, FrameTypes DEF ReadProgress
      <4>2. CASE j = i
        <5>1. 0 \notin ReadProgress(j)
          BY <1>1, <1>2, <1>8, <2>2, <3>1, <4>2 DEF InputsStable
        <5> QED
          BY <1>5, <1>8, <3>1, <4>1, <5>1
      <4>3. CASE j # i
        <5>1. ReadProgress(j) \subseteq {Done, Error}
          BY <1>1, <1>2, <2>2, <3>1, <4>3 DEF InputsStable
        <5> QED
          BY <1>5, <1>8, <3>1, <5>1
      <4> QED
        BY <4>2, <4>3
    <3>2. CASE kind # "cdf"
      <4>1. CASE j = i
        <5>1. ReadProgress(j) \subseteq {Done}
          BY <1>1, <1>2, <1>8, <2>2, <3>2, <4>1 DEF MapGood, Kinds
        <5> QED
          BY <1>7, <3>2, <5>1
      <4>2. CASE j # i
        <5>1. ReadProgress(j) \subseteq {Done}
          BY <1>1, <1>2, <2>2, <3>2, <4>2 DEF InputsStable
        <5> QED
          BY <1>7, <3>2, <5>1
      <4> QED
        BY <4>1, <4>2
    <3> QED
      BY <3>1, <3>2
  <2>3. \A j, k \in 1 .. Len(ring) : j < k /\ ring'[k].writes # None =>
          ring'[k].writes \notin Range(ring'[j].reads) \cup {ring'[j].writes}
    BY <1>1, <1>2 DEF InputsStable
  <2> QED
    BY <1>2, <2>1, <2>2, <2>3 DEF InputsStable
<1>11. Written'
  <2>1. ASSUME NEW h \in 1 .. Size, prog'[h] = 0
        PROVE  \E j \in 1 .. Len(ring) : ring'[j].writes = h /\ ~(ring'[j].pc \in {"ok", "failed"})
    <3>1. h # w /\ prog[h] = 0
      <4>1. h # None
        BY SizeFacts, <1>1 DEF None
      <4> QED
        BY <1>4, <1>8, <2>1, <4>1
    <3>2. PICK j \in 1 .. Len(ring) : ring[j].writes = h /\ ~(ring[j].pc \in {"ok", "failed"})
      BY <3>1, <1>1 DEF Written, Ended
    <3>3. j # i
      BY <3>1, <3>2
    <3> QED
      BY <3>2, <3>3, <1>2
  <2>2. ASSUME NEW j \in 1 .. Len(ring), ring'[j].writes # None, ~(ring'[j].pc \in {"ok", "failed"}), kind # "cdf"
        PROVE  prog'[ring'[j].writes] = 0
    <3>1. j # i
      BY <1>2, <2>2
    <3>2. ring[j].writes # None /\ prog[ring[j].writes] = 0 /\ ring[j].writes \in 1 .. Size
      BY <1>1, <1>2, <2>2, <3>1, FrameTypes DEF Written, Ended
    <3>3. ring[j].writes # w
      <4>1. i < j \/ j < i
        BY <1>1, <3>1
      <4> QED
        BY <1>1, <3>2, <4>1 DEF InputsStable
    <3> QED
      BY <1>2, <1>4, <3>2, <3>3
  <2> QED
    BY <1>1, <1>2, <2>1, <2>2 DEF Written, Ended
<1>12. MapGood'
  <2> SUFFICES ASSUME NEW j \in 1 .. Len(ring), kind = "seg", ring'[j].pc = "parse"
               PROVE  ReadProgress(j)' \subseteq {Done}
    BY <1>2 DEF MapGood
  <2>1. j # i
    BY <1>2, <1>8
  <2>2. ReadProgress(j) \subseteq {Done}
    BY <1>1, <1>2, <2>1 DEF MapGood
  <2> QED
    BY <1>7, <2>2
<1> QED
  BY <1>9, <1>10, <1>11, <1>12 DEF StateInv

\* The pass at place i finds what it waits for ended, and well.
LEMMA ParseState ==
  ASSUME HandleInv, NEW i \in 1 .. Len(ring), ring[i].pc = "wait",
         0 \notin ReadProgress(i), Error \notin ReadProgress(i),
         ring' = [ring EXCEPT ![i].pc = "parse"], prog' = prog, kind' = kind
  PROVE  StateInv'
<1>1. /\ TypeOK /\ FramesOK /\ InputsStable /\ Written /\ MapGood
      /\ Size' = Size /\ Width' = Width /\ prog \in [1 .. Size -> {0, Done, Error}]
  BY SameSize DEF HandleInv, TypeOK
<1>2. /\ Len(ring') = Len(ring) /\ ring'[i].pc = "parse"
      /\ \A j \in 1 .. Len(ring) :
              /\ ring'[j].reads = ring[j].reads /\ ring'[j].writes = ring[j].writes
              /\ ring'[j].holds = ring[j].holds /\ (j # i => ring'[j].pc = ring[j].pc)
  BY <1>1, RingAt
<1>3. \A j \in 1 .. Len(ring) : ReadProgress(j)' = ReadProgress(j)
  BY <1>2 DEF ReadProgress
<1>4. ReadProgress(i) \subseteq {Done}
  BY <1>1, FrameTypes DEF ReadProgress
<1>5. FramesOK'
  BY <1>1, <1>2 DEF FramesOK, FrameOK
<1>6. InputsStable'
  <2>1. ASSUME NEW j \in 1 .. Len(ring)
        PROVE  /\ ring'[j].pc = "parse" /\ kind # "mv" => 0 \notin ReadProgress(j)'
               /\ ring'[j].pc = "ok" => ReadProgress(j)' \subseteq IF kind = "cdf" THEN {Done, Error} ELSE {Done}
    <3>1. CASE j = i
      BY <1>2, <1>3, <3>1
    <3>2. CASE j # i
      BY <1>1, <1>2, <1>3, <3>2 DEF InputsStable
    <3> QED
      BY <3>1, <3>2
  <2>2. \A j, k \in 1 .. Len(ring) : j < k /\ ring'[k].writes # None =>
          ring'[k].writes \notin Range(ring'[j].reads) \cup {ring'[j].writes}
    BY <1>1, <1>2 DEF InputsStable
  <2> QED
    BY <1>2, <2>1, <2>2 DEF InputsStable
<1>7. Written'
  <2>1. \A j \in 1 .. Len(ring) : ring'[j].pc \in {"ok", "failed"} <=> ring[j].pc \in {"ok", "failed"}
    BY <1>2
  <2> QED
    BY <1>1, <1>2, <2>1 DEF Written, Ended
<1>8. MapGood'
  <2> SUFFICES ASSUME NEW j \in 1 .. Len(ring), kind = "seg", ring'[j].pc = "parse"
               PROVE  ReadProgress(j)' \subseteq {Done}
    BY <1>2 DEF MapGood
  <2>1. CASE j = i
    BY <1>3, <1>4, <2>1
  <2>2. CASE j # i
    BY <1>1, <1>2, <1>3, <2>2 DEF MapGood
  <2> QED
    BY <2>1, <2>2
<1> QED
  BY <1>5, <1>6, <1>7, <1>8 DEF StateInv

\* The context update tile saves its CDFs.
LEMMA SaveState ==
  ASSUME HandleInv, NEW i \in 1 .. Len(ring), SaveCDF(i), kind' = kind
  PROVE  StateInv'
<1> DEFINE w == ring[i].writes
<1>1. /\ TypeOK /\ FramesOK /\ InputsStable /\ Written /\ MapGood /\ ring' = ring /\ kind = "cdf"
      /\ Size' = Size /\ Width' = Width /\ prog \in [1 .. Size -> {0, Done, Error}]
      /\ w # None /\ w \in 1 .. Size
  BY SameSize, FrameTypes DEF HandleInv, TypeOK, SaveCDF
<1>2. prog'[w] = Done /\ \A h \in 1 .. Size : h # w => prog'[h] = prog[h]
  BY <1>1 DEF SaveCDF
<1>3. \A j \in 1 .. Len(ring) : \A x \in ReadProgress(j)' : x = Done \/ x \in ReadProgress(j)
  <2> SUFFICES ASSUME NEW j \in 1 .. Len(ring), NEW h \in Range(ring[j].reads) \ {None}
               PROVE  prog'[h] = Done \/ prog'[h] \in ReadProgress(j)
    BY <1>1 DEF ReadProgress
  <2>1. h \in 1 .. Size
    BY <1>1, FrameTypes
  <2>2. CASE h = w
    BY <1>2, <2>2
  <2>3. CASE h # w
    BY <1>2, <2>1, <2>3 DEF ReadProgress
  <2> QED
    BY <2>2, <2>3
<1>4. FramesOK'
  BY <1>1 DEF FramesOK, FrameOK
<1>5. InputsStable'
  <2>1. ASSUME NEW j \in 1 .. Len(ring)
        PROVE  /\ ring[j].pc = "parse" => 0 \notin ReadProgress(j)'
               /\ ring[j].pc = "ok" => ReadProgress(j)' \subseteq {Done, Error}
    <3>1. ring[j].pc = "parse" => 0 \notin ReadProgress(j)
      BY <1>1 DEF InputsStable
    <3>2. ring[j].pc = "ok" => ReadProgress(j) \subseteq {Done, Error}
      BY <1>1 DEF InputsStable
    <3> QED
      BY <1>3, <3>1, <3>2 DEF Done
  <2>2. \A j, k \in 1 .. Len(ring) : j < k /\ ring[k].writes # None =>
          ring[k].writes \notin Range(ring[j].reads) \cup {ring[j].writes}
    BY <1>1 DEF InputsStable
  <2> QED
    BY <1>1, <2>1, <2>2 DEF InputsStable
<1>6. Written'
  <2>1. \A h \in 1 .. Size : prog'[h] = 0 => prog[h] = 0
    BY <1>2 DEF Done
  <2> QED
    BY <1>1, <2>1 DEF Written, Ended
<1>7. MapGood'
  BY <1>1 DEF MapGood
<1> QED
  BY <1>4, <1>5, <1>6, <1>7 DEF StateInv

\* With no frame in flight, nothing is being written.
LEMMA IdleState ==
  ASSUME HandleInv, ring = <<>>, ring' = ring, kind' = kind,
         \A h \in 1 .. Size : prog'[h] = 0 => prog[h] = 0
  PROVE  StateInv'
<1>1. Len(ring) = 0 /\ Size' = Size /\ Written
  BY SameSize DEF HandleInv
<1>2. \A i \in 1 .. Len(ring') : FALSE
  BY <1>1
<1>3. \A h \in 1 .. Size : prog'[h] # 0
  BY <1>1 DEF Written
<1> QED
  BY <1>1, <1>2, <1>3 DEF StateInv, FramesOK, InputsStable, Written, MapGood

-----------------------------------------------------------------------------
(* The counts, and each step as a whole.                                   *)

LEMMA NamedCount ==
  ASSUME NEW q, NEW x
  PROVE  NamedBy(q, x) \in 0 .. RefFrames
<1>1. {s \in Slots : q[s] = x} \in SUBSET Slots
  OBVIOUS
<1> QED
  BY <1>1, HandleAssumption, FS_Subset, FS_CardinalityType DEF RefFrames, NamedBy

\* The count of a handle, by its parts.
LEMMA CountParts ==
  ASSUME TypeOK, CountsExact, NEW x \in 1 .. Size
  PROVE  /\ refs[x] = NamedBy(slot, x) + Cardinality(InFlight(x)) /\ refs[x] \in 0 .. 255
         /\ NamedBy(slot, x) \in Nat /\ Cardinality(InFlight(x)) \in Nat
<1>1. refs[x] = NamedBy(slot, x) + Cardinality(InFlight(x))
  BY DEF CountsExact, NamedBy
<1>2. Cardinality(InFlight(x)) \in 0 .. MostHolds
  BY CountTypes, Zenon
<1> QED
  BY <1>1, <1>2, CountBound, NamedCount, HoldFacts

LEMMA RenamedType ==
  ASSUME TypeOK, NEW slots, NEW h \in 0 .. Size
  PROVE  Renamed(slots, h) \in [Slots -> 0 .. Size]
BY DEF TypeOK, Renamed

\* Refreshing keeps a count exact, whatever else, c, it counts.
LEMMA RefreshCount ==
  ASSUME TypeOK, NEW slots \in SUBSET Slots, NEW h, slot' = Renamed(slots, h),
         NEW r, NEW x \in 1 .. Size, NEW c \in Nat, r[x] = NamedBy(slot, x) + c
  PROVE  Refresh(r, slots, h)[x] = NamedBy(slot', x) + c
<1>1. /\ DroppedBy(slots, x) \in 0 .. NamedBy(slot, x) /\ Cardinality(slots) \in Nat
      /\ NamedBy(Renamed(slots, h), x) =
           NamedBy(slot, x) - DroppedBy(slots, x) + IF x = h THEN Cardinality(slots) ELSE 0
  BY RenameCount
<1>2. NamedBy(slot, x) \in Nat
  BY NamedCount, HoldFacts
<1>3. Refresh(r, slots, h)[x] = r[x] - DroppedBy(slots, x) + IF x = h THEN Cardinality(slots) ELSE 0
  BY DEF Refresh, DroppedBy
<1> QED
  BY <1>1, <1>2, <1>3

\* Exact counts are counts.
LEMMA CountsTyped ==
  ASSUME TypeOK, kind' = kind, NEW e, refs' = [x \in 1 .. Size |-> e[x]],
         \A x \in 1 .. Size : /\ Cardinality(InFlight(x)') \in Nat
                               /\ e[x] = NamedBy(slot', x) + Cardinality(InFlight(x)')
  PROVE  CountsExact' /\ refs' \in [1 .. Size -> Nat]
<1>1. Size' = Size
  BY SameSize
<1>2. \A x \in 1 .. Size : NamedBy(slot', x) \in Nat
  BY NamedCount, HoldFacts
<1>3. \A x \in 1 .. Size : e[x] \in Nat
  BY <1>2
<1>4. \A x \in 1 .. Size : refs'[x] = Cardinality({s \in Slots : slot'[s] = x}) + Cardinality(InFlight(x)')
  BY DEF NamedBy
<1> QED
  BY <1>1, <1>3, <1>4 DEF CountsExact

LEMMA Combined ==
  ASSUME HandleInv, kind' = kind, StateInv', CountsExact', refs' \in [1 .. Size -> Nat],
         slot' \in [Slots -> 0 .. Size], prog' \in [1 .. Size -> {0, Done, Error}],
         ring' \in Seq(Frame), Len(ring') <= MaxFrames
  PROVE  HandleInv'
<1>1. TypeOK'
  BY SameSize DEF HandleInv, TypeOK
<1> QED
  BY <1>1 DEF HandleInv, StateInv

\* runFrame hands a frame to its context.
LEMMA SubmitStep ==
  ASSUME HandleInv, Room, NEW g \in Plans, NEW refresh \in SUBSET Slots, Submit(g, refresh), kind' = kind
  PROVE  HandleInv'
<1> DEFINE f == [reads |-> g.reads, writes |-> g.writes, holds |-> g.holds,
                 pc |-> IF kind = "mv" THEN "parse" ELSE "wait"]
           e == Refresh(RetainAll(refs, g.holds), refresh, g.named)
<1>1. TypeOK /\ CountsExact /\ PlanOK(g)
  BY PlanFacts DEF HandleInv
<1>2. /\ ring' = Append(ring, f) /\ refs' = e /\ slot' = Renamed(refresh, g.named)
      /\ prog' = IF g.writes = None THEN prog ELSE [prog EXCEPT ![g.writes] = 0]
  BY DEF Submit
<1>3. /\ f \in Frame /\ f.reads = g.reads /\ f.writes = g.writes /\ f.holds = g.holds
      /\ f.pc = IF kind = "mv" THEN "parse" ELSE "wait"
  BY <1>1 DEF PlanOK, Frame
<1> HIDE DEF f
<1>4. FrameOK(f) /\ f.holds \in Seq(0 .. Size) /\ Len(f.holds) <= InterRefs + 2
  <2>1. FrameOK(f) /\ f.holds \in Seq(0 .. Size) /\ Len(f.holds) <= Width
    BY <1>1, <1>3 DEF PlanOK, FrameOK
  <2>2. Width <= InterRefs + 2 /\ Width \in Nat /\ Len(f.holds) \in Nat /\ InterRefs + 2 \in Nat
    BY <1>1, <2>1, SizeFacts, HandleAssumption DEF TypeOK
  <2> QED
    BY <2>1, <2>2
<1>5. StateInv'
  BY <1>1, <1>2, <1>3, <1>4, AppendState DEF PlanOK
<1>6. ASSUME NEW x \in 1 .. Size
      PROVE  /\ Cardinality(InFlight(x)') \in Nat
             /\ e[x] = NamedBy(slot', x) + Cardinality(InFlight(x)')
  <2> DEFINE c == Cardinality(InFlight(x)')
  <2>1. c = Cardinality(InFlight(x)) + Times(f.holds, x)
    BY <1>1, <1>2, <1>4, AppendFlight
  <2>2. Times(f.holds, x) \in Nat
    BY <1>4, TimesFacts, Zenon
  <2>3. RetainAll(refs, g.holds)[x] = refs[x] + Times(f.holds, x)
    BY <1>3 DEF RetainAll
  <2> HIDE DEF c
  <2>4. c \in Nat /\ RetainAll(refs, g.holds)[x] = NamedBy(slot, x) + c
    BY <1>1, <2>1, <2>2, <2>3, CountParts
  <2>5. e[x] = NamedBy(slot', x) + c
    <3> DEFINE r == RetainAll(refs, g.holds)
    <3>1. r[x] = NamedBy(slot, x) + c /\ c \in Nat
      BY <2>4
    <3> HIDE DEF r
    <3>2. Refresh(r, refresh, g.named)[x] = NamedBy(slot', x) + c
      BY <1>1, <1>2, <3>1, RefreshCount
    <3> QED
      BY <3>2 DEF r
  <2> QED
    BY <2>4, <2>5 DEF c
<1>7. refs' = [x \in 1 .. Size |-> e[x]]
  BY <1>2 DEF Refresh
<1> HIDE DEF e
<1>8. CountsExact' /\ refs' \in [1 .. Size -> Nat]
  BY <1>1, <1>6, <1>7, CountsTyped
<1>9. slot' \in [Slots -> 0 .. Size]
  BY <1>1, <1>2, RenamedType DEF PlanOK
<1>10. ring' \in Seq(Frame) /\ Len(ring') <= MaxFrames
  BY <1>1, <1>2, <1>3, HandleAssumption DEF TypeOK, Room
<1>11. prog' \in [1 .. Size -> {0, Done, Error}]
  BY <1>1, <1>2, Zenon DEF TypeOK
<1> QED
  BY <1>5, <1>8, <1>9, <1>10, <1>11, Combined

\* A frame decoded with the ring drained.
LEMMA SerialStep ==
  ASSUME HandleInv, Room, NEW g \in Plans, NEW refresh \in SUBSET Slots, Serial(g, refresh), kind' = kind
  PROVE  HandleInv'
<1> DEFINE r == RetainAll(refs, g.holds)
           q == Refresh(r, refresh, g.named)
           e == ReleaseAll(q, g.holds)
<1>1. TypeOK /\ CountsExact /\ PlanOK(g)
  BY PlanFacts DEF HandleInv
<1>2. ring = <<>> /\ ring' = ring /\ prog' = prog /\ refs' = e /\ slot' = Renamed(refresh, g.named)
  BY DEF Serial
<1>3. StateInv'
  BY <1>2, IdleState
<1>4. ASSUME NEW x \in 1 .. Size
      PROVE  /\ Cardinality(InFlight(x)') \in Nat
             /\ e[x] = NamedBy(slot', x) + Cardinality(InFlight(x)')
  <2>1. InFlight(x)' = {} /\ InFlight(x) = {}
    BY <1>2 DEF InFlight
  <2>2. Cardinality({}) = 0
    BY FS_EmptySet
  <2>3. Times(g.holds, x) \in Nat
    BY <1>1, TimesFacts, Zenon DEF PlanOK
  <2>4. r[x] = refs[x] + Times(g.holds, x)
    BY DEF RetainAll
  <2>5. refs[x] = NamedBy(slot, x) /\ NamedBy(slot, x) \in Nat
    BY <1>1, <2>1, <2>2, CountParts
  <2> HIDE DEF r
  <2>6. q[x] = NamedBy(slot', x) + Times(g.holds, x)
    BY <1>1, <1>2, <2>3, <2>4, <2>5, RefreshCount
  <2>7. e[x] = IF kind = "mv" THEN (q[x] - Times(g.holds, x)) % 256
               ELSE IF q[x] > Times(g.holds, x) THEN q[x] - Times(g.holds, x) ELSE 0
    BY DEF ReleaseAll
  <2>8. NamedBy(slot', x) \in 0 .. 255
    BY NamedCount, HoldFacts
  <2> HIDE DEF q, e
  <2>9. e[x] = NamedBy(slot', x)
    BY <2>3, <2>6, <2>7, <2>8
  <2> QED
    BY <2>1, <2>2, <2>8, <2>9
<1>5. refs' = [x \in 1 .. Size |-> e[x]]
  BY <1>2 DEF ReleaseAll
<1> HIDE DEF e
<1>6. CountsExact' /\ refs' \in [1 .. Size -> Nat]
  BY <1>1, <1>4, <1>5, CountsTyped
<1>7. slot' \in [Slots -> 0 .. Size]
  BY <1>1, <1>2, RenamedType DEF PlanOK
<1> QED
  BY <1>1, <1>2, <1>3, <1>6, <1>7, Combined DEF TypeOK

\* A shown key frame refreshes every other slot.
LEMMA ShowStep ==
  ASSUME HandleInv, NEW shown \in Slots, ShowExistingKey(shown), kind' = kind
  PROVE  HandleInv'
<1> DEFINE f == [reads |-> <<>>, writes |-> None, holds |-> <<>>, pc |-> "ok"]
           h == IF kind = "mv" THEN None ELSE slot[shown]
           others == Slots \ {shown}
           e == Refresh(refs, others, h)
<1>1. TypeOK /\ CountsExact /\ others \in SUBSET Slots /\ Size \in Nat
  BY SizeFacts DEF HandleInv, TypeOK
<1>2. Room /\ ring' = Append(ring, f) /\ refs' = e /\ slot' = Renamed(others, h) /\ prog' = prog
  BY DEF ShowExistingKey
<1>3. h \in 0 .. Size
  BY <1>1 DEF TypeOK, None
<1>4. /\ f \in Frame /\ f.reads = <<>> /\ f.writes = None /\ f.holds = <<>> /\ f.pc = "ok"
      /\ f.holds \in Seq(0 .. Size) /\ Len(f.holds) = 0
  BY <1>1 DEF Frame, None
<1>5. FrameOK(f) /\ Len(f.holds) <= InterRefs + 2
  <2>1. Range(<<>>) = {}
    BY DEF Range
  <2>2. Width \in Nat /\ InterRefs + 2 \in Nat
    BY <1>1, SizeFacts, HandleAssumption DEF TypeOK
  <2> HIDE DEF f
  <2> QED
    BY <1>4, <2>1, <2>2 DEF FrameOK
<1> HIDE DEF f, h, others
<1>6. StateInv'
  BY <1>2, <1>4, <1>5, AppendState
<1>7. ASSUME NEW x \in 1 .. Size
      PROVE  /\ Cardinality(InFlight(x)') \in Nat
             /\ e[x] = NamedBy(slot', x) + Cardinality(InFlight(x)')
  <2>1. Times(f.holds, x) \in Nat /\ Times(f.holds, x) <= Len(f.holds)
    BY <1>4, TimesFacts, Zenon
  <2>2. Times(f.holds, x) = 0
    BY <1>4, <2>1
  <2>3. Cardinality(InFlight(x)') = Cardinality(InFlight(x)) + Times(f.holds, x)
    BY <1>1, <1>2, <1>4, <1>5, AppendFlight, Zenon
  <2>4. /\ Cardinality(InFlight(x)') \in Nat
        /\ refs[x] = NamedBy(slot, x) + Cardinality(InFlight(x)')
    BY <1>1, <2>2, <2>3, CountParts
  <2> QED
    BY <1>1, <1>2, <2>4, RefreshCount
<1>8. refs' = [x \in 1 .. Size |-> e[x]]
  BY <1>2 DEF Refresh
<1> HIDE DEF e
<1>9. CountsExact' /\ refs' \in [1 .. Size -> Nat]
  BY <1>1, <1>7, <1>8, CountsTyped
<1>10. slot' \in [Slots -> 0 .. Size]
  BY <1>1, <1>2, <1>3, RenamedType
<1>11. ring' \in Seq(Frame) /\ Len(ring') <= MaxFrames
  BY <1>1, <1>2, <1>4, HandleAssumption DEF TypeOK, Room
<1> QED
  BY <1>1, <1>2, <1>6, <1>9, <1>10, <1>11, Combined DEF TypeOK

\* retire drops the holds of the oldest frame.
LEMMA RetireStep ==
  ASSUME HandleInv, Retire, kind' = kind
  PROVE  HandleInv'
<1> DEFINE e == ReleaseAll(refs, Head(ring).holds)
<1>1. TypeOK /\ CountsExact /\ FramesOK
  BY DEF HandleInv
<1>2. /\ ring # <<>> /\ Ended(Head(ring)) /\ ring' = Tail(ring) /\ refs' = e
      /\ slot' = slot /\ prog' = prog
  BY DEF Retire
<1>3. StateInv'
  BY <1>2, TailState
<1>4. ASSUME NEW x \in 1 .. Size
      PROVE  /\ Cardinality(InFlight(x)') \in Nat
             /\ e[x] = NamedBy(slot', x) + Cardinality(InFlight(x)')
  <2> DEFINE t == Times(Head(ring).holds, x)
             c == Cardinality(InFlight(x)')
  <2>1. Cardinality(InFlight(x)) = c + t /\ c \in Nat /\ t \in Nat
    BY <1>1, <1>2, TailFlight
  <2>2. refs[x] = NamedBy(slot, x) + Cardinality(InFlight(x)) /\ refs[x] \in 0 .. 255 /\ NamedBy(slot, x) \in Nat
    BY <1>1, CountParts
  <2>3. e[x] = IF kind = "mv" THEN (refs[x] - t) % 256 ELSE IF refs[x] > t THEN refs[x] - t ELSE 0
    BY DEF ReleaseAll
  <2> HIDE DEF t, c, e
  <2>4. refs[x] - t = NamedBy(slot, x) + c /\ refs[x] - t \in 0 .. 255 /\ refs[x] \in Int
    <3> DEFINE n == NamedBy(slot, x)
               m == refs[x]
    <3>1. m = n + (c + t) /\ m \in 0 .. 255 /\ n \in Nat /\ c \in Nat /\ t \in Nat
      BY <2>1, <2>2
    <3> HIDE DEF n, m
    <3>2. m - t = n + c /\ m - t \in 0 .. 255 /\ m \in Int
      BY <3>1
    <3> QED
      BY <3>2 DEF n, m
  <2>5. e[x] = refs[x] - t
    <3>1. (refs[x] - t) % 256 = refs[x] - t
      BY <2>4
    <3> QED
      BY <2>1, <2>3, <2>4, <3>1
  <2>6. e[x] = NamedBy(slot', x) + c
    BY <1>2, <2>4, <2>5
  <2> QED
    BY <2>1, <2>6 DEF c
<1>5. refs' = [x \in 1 .. Size |-> e[x]]
  BY <1>2 DEF ReleaseAll
<1> HIDE DEF e
<1>6. CountsExact' /\ refs' \in [1 .. Size -> Nat]
  BY <1>1, <1>4, <1>5, CountsTyped
<1>7. ring' \in Seq(Frame) /\ Len(ring') <= MaxFrames
  BY <1>1, <1>2, HandleAssumption DEF TypeOK
<1> QED
  BY <1>1, <1>2, <1>3, <1>6, <1>7, Combined DEF TypeOK

\* A new coded video sequence drops every slot.
LEMMA NewSequenceStep ==
  ASSUME HandleInv, NewSequence, kind' = kind
  PROVE  HandleInv'
<1> DEFINE e == Refresh(refs, Slots, None)
<1>1. TypeOK /\ CountsExact /\ Slots \in SUBSET Slots /\ None \in 0 .. Size
  BY SizeFacts DEF HandleInv, TypeOK, None
<1>2. ring = <<>> /\ ring' = ring /\ prog' = prog /\ refs' = e /\ slot' = Renamed(Slots, None)
  BY DEF NewSequence
<1>3. StateInv'
  BY <1>2, IdleState
<1>4. ASSUME NEW x \in 1 .. Size
      PROVE  /\ Cardinality(InFlight(x)') \in Nat
             /\ e[x] = NamedBy(slot', x) + Cardinality(InFlight(x)')
  <2>1. InFlight(x)' = InFlight(x)
    BY <1>2 DEF InFlight
  <2>2. /\ Cardinality(InFlight(x)') \in Nat
        /\ refs[x] = NamedBy(slot, x) + Cardinality(InFlight(x)')
    BY <1>1, <2>1, CountParts
  <2> QED
    BY <1>1, <1>2, <2>2, RefreshCount, Zenon
<1>5. refs' = [x \in 1 .. Size |-> e[x]]
  BY <1>2 DEF Refresh
<1> HIDE DEF e
<1>6. CountsExact' /\ refs' \in [1 .. Size -> Nat]
  BY <1>1, <1>4, <1>5, CountsTyped
<1>7. slot' \in [Slots -> 0 .. Size]
  BY <1>1, <1>2, RenamedType
<1> QED
  BY <1>1, <1>2, <1>3, <1>6, <1>7, Combined DEF TypeOK

\* Decoder.Reset.
LEMMA ResetStep ==
  ASSUME HandleInv, Reset, kind' = kind
  PROVE  HandleInv'
<1>1. TypeOK /\ Size \in Nat /\ kind \in Kinds
  BY SizeFacts DEF HandleInv, TypeOK
<1>2. /\ ring = <<>> /\ ring' = ring /\ refs' = [h \in 1 .. Size |-> 0]
      /\ slot' = [s \in Slots |-> None] /\ prog' = [h \in 1 .. Size |-> Done]
  BY DEF Reset
<1>3. StateInv'
  BY <1>2, IdleState DEF Done
<1>4. CountsExact'
  <2> SUFFICES ASSUME NEW x \in 1 .. Size
               PROVE  refs'[x] = Cardinality({s \in Slots : slot'[s] = x}) + Cardinality(InFlight(x)')
    BY SameSize DEF CountsExact
  <2>1. InFlight(x)' = {}
    BY <1>2 DEF InFlight
  <2>2. {s \in Slots : slot'[s] = x} = {}
    BY <1>1, <1>2 DEF None
  <2>3. Cardinality({s \in Slots : slot'[s] = x}) = 0
    BY <2>2, FS_EmptySet, Zenon
  <2>4. Cardinality(InFlight(x)') = 0
    BY <2>1, FS_EmptySet
  <2>5. refs'[x] = 0
    BY <1>2
  <2> QED
    BY <2>3, <2>4, <2>5
<1> QED
  BY <1>1, <1>2, <1>3, <1>4, Combined DEF TypeOK, None

\* The entropy passes leave counts and slots alone.
LEMMA PassCounts ==
  ASSUME HandleInv, StateInv', kind' = kind, refs' = refs, slot' = slot, Len(ring') = Len(ring),
         \A j \in 1 .. Len(ring) : ring'[j].holds = ring[j].holds,
         ring' \in Seq(Frame), prog' \in [1 .. Size -> {0, Done, Error}]
  PROVE  HandleInv'
<1>1. TypeOK /\ CountsExact
  BY DEF HandleInv
<1>2. \A h : InFlight(h)' = InFlight(h)
  BY SameFlight
<1>3. CountsExact'
  BY <1>1, <1>2, SameSize DEF CountsExact
<1> QED
  BY <1>1, <1>3, Combined DEF TypeOK

LEMMA EndsStep ==
  ASSUME HandleInv, NEW i \in 1 .. Len(ring), NEW v \in {Done, Error}, Ends(i, v), kind' = kind,
         ring[i].pc \in {"wait", "parse"},
         v = Done => ring[i].pc = "parse" /\ (kind = "mv" => ReadProgress(i) \subseteq {Done})
  PROVE  HandleInv'
<1> DEFINE q == IF v = Done THEN "ok" ELSE "failed"
<1>1. TypeOK /\ ring' = [ring EXCEPT ![i].pc = q] /\ q \in {"wait", "parse", "ok", "failed"}
  BY DEF HandleInv, Ends
<1> HIDE DEF q
<1>2. /\ ring' \in Seq(Frame) /\ Len(ring') = Len(ring)
      /\ \A j \in 1 .. Len(ring) : ring'[j].holds = ring[j].holds
  BY <1>1, RingAt, Zenon
<1>3. prog' \in [1 .. Size -> {0, Done, Error}] /\ refs' = refs /\ slot' = slot
  BY <1>1, Zenon DEF TypeOK, Ends
<1>4. StateInv'
  BY EndsState
<1> QED
  BY <1>2, <1>3, <1>4, PassCounts

LEMMA PassStep ==
  ASSUME HandleInv, NEW i \in 1 .. Len(ring), Pass(i) \/ ParseFail(i), kind' = kind
  PROVE  HandleInv'
<1>1. TypeOK
  BY DEF HandleInv
<1>2. CASE Wait(i)
  <2>1. CASE Error \in ReadProgress(i)
    BY <1>2, <2>1, EndsStep DEF Wait, Done, Error
  <2>2. CASE Error \notin ReadProgress(i)
    <3>1. /\ ring[i].pc = "wait" /\ 0 \notin ReadProgress(i) /\ ring' = [ring EXCEPT ![i].pc = "parse"]
          /\ refs' = refs /\ slot' = slot /\ prog' = prog
      BY <1>2, <2>2 DEF Wait
    <3>2. StateInv'
      BY <2>2, <3>1, ParseState, Zenon
    <3>3. /\ ring' \in Seq(Frame) /\ Len(ring') = Len(ring)
          /\ \A j \in 1 .. Len(ring) : ring'[j].holds = ring[j].holds
      BY <1>1, <3>1, RingAt, Zenon
    <3> QED
      BY <1>1, <3>1, <3>2, <3>3, PassCounts DEF TypeOK
  <2> QED
    BY <2>1, <2>2
<1>3. CASE SaveCDF(i)
  <2>1. StateInv'
    BY <1>3, SaveState
  <2>2. /\ ring' = ring /\ refs' = refs /\ slot' = slot /\ prog' \in [1 .. Size -> {0, Done, Error}]
    BY <1>1, <1>3, Zenon DEF SaveCDF, TypeOK
  <2> QED
    BY <1>1, <2>1, <2>2, PassCounts DEF TypeOK
<1>4. CASE ParseEnd(i)
  BY <1>4, EndsStep DEF ParseEnd
<1>5. CASE GridFailed(i)
  BY <1>5, EndsStep DEF GridFailed, Done, Error
<1>6. CASE ParseFail(i)
  BY <1>6, EndsStep DEF ParseFail, Done, Error
<1> QED
  BY <1>2, <1>3, <1>4, <1>5, <1>6 DEF Pass

LEMMA HandleInit == Init => HandleInv
<1> SUFFICES ASSUME Init PROVE HandleInv
  OBVIOUS
<1>1. /\ kind \in Kinds /\ refs = [h \in 1 .. Size |-> 0] /\ slot = [s \in Slots |-> None]
      /\ prog = [h \in 1 .. Size |-> Done] /\ ring = <<>> /\ Size \in Nat
  BY SizeFacts DEF Init, Kinds
<1>2. TypeOK
  BY <1>1, HandleAssumption DEF TypeOK, None
<1>3. \A i \in 1 .. Len(ring) : FALSE
  BY <1>1
<1>4. CountsExact
  <2> SUFFICES ASSUME NEW x \in 1 .. Size
               PROVE  refs[x] = Cardinality({s \in Slots : slot[s] = x}) + Cardinality(InFlight(x))
    BY DEF CountsExact
  <2>1. InFlight(x) = {}
    BY <1>3 DEF InFlight
  <2>2. {s \in Slots : slot[s] = x} = {}
    BY <1>1 DEF None
  <2>3. Cardinality({s \in Slots : slot[s] = x}) = 0
    BY <2>2, FS_EmptySet, Zenon
  <2>4. Cardinality(InFlight(x)) = 0
    BY <2>1, FS_EmptySet
  <2>5. refs[x] = 0
    BY <1>1
  <2> QED
    BY <2>3, <2>4, <2>5
<1>5. Written
  BY <1>1, <1>3 DEF Written, Done
<1> QED
  BY <1>2, <1>3, <1>4, <1>5 DEF HandleInv, FramesOK, InputsStable, MapGood

LEMMA HandleNext == HandleInv /\ [Next]_vars => HandleInv'
<1> SUFFICES ASSUME HandleInv, [Next]_vars PROVE HandleInv'
  OBVIOUS
<1>1. CASE UNCHANGED vars
  <2>1. kind' = kind /\ refs' = refs /\ slot' = slot /\ prog' = prog /\ ring' = ring /\ Size' = Size
    BY <1>1, SameSize DEF vars
  <2>2. FramesOK'
    BY <2>1 DEF HandleInv, FramesOK, FrameOK, Width
  <2>3. InputsStable'
    BY <2>1, ZenonT(60) DEF HandleInv, InputsStable, ReadProgress
  <2>4. Written'
    BY <2>1 DEF HandleInv, Written, Ended
  <2>5. MapGood'
    BY <2>1 DEF HandleInv, MapGood, ReadProgress
  <2> QED
    BY <2>1, <2>2, <2>3, <2>4, <2>5, PassCounts DEF HandleInv, TypeOK, StateInv
<1>2. CASE Next
  <2>1. kind' = kind
    BY <1>2 DEF Next
  <2>2. ASSUME Room, NEW g \in Plans, NEW refresh \in SUBSET Slots, Submit(g, refresh) \/ Serial(g, refresh)
        PROVE  HandleInv'
    BY <2>1, <2>2, SubmitStep, SerialStep
  <2>3. ASSUME NEW s \in Slots, ShowExistingKey(s) PROVE HandleInv'
    BY <2>1, <2>3, ShowStep
  <2>4. CASE Retire \/ NewSequence \/ Reset
    BY <2>1, <2>4, RetireStep, NewSequenceStep, ResetStep
  <2>5. ASSUME NEW i \in 1 .. Len(ring), Pass(i) \/ ParseFail(i) PROVE HandleInv'
    BY <2>1, <2>5, PassStep
  <2> QED
    BY <1>2, <2>2, <2>3, <2>4, <2>5 DEF Next
<1> QED
  BY <1>1, <1>2

-----------------------------------------------------------------------------
\* The inductive invariant of the pools, through every step of the planner
\* (runFrame, retire, Reset) and of the passes (parseFrame, tailLoop).
THEOREM HandlesInvariant == Spec => []HandleInv
BY HandleInit, HandleNext, PTL DEF Spec

\* Whatever frames are submitted, shown again, retired, dropped or failed, and in
\* whatever order their passes end, the uint8 reference count of every CDF entry,
\* MV_REF grid and segmentation map is the number of slots and of holds in
\* flight that name it (retainTileResidualCDFEntry and its kin, work.go,
\* segmap.go): it neither wraps nor stops at 0.
THEOREM ReferenceCountsExact == Spec => []CountsExact
<1>1. HandleInv => CountsExact
  BY DEF HandleInv
<1> QED
  BY <1>1, HandlesInvariant, PTL

\* frameWorkCDFPoolEntries, frameWorkMVGrids and frameWorkSegMaps are enough: a
\* frame that takes a context of the ring finds the free handles it acquires,
\* for every number of slots, references and contexts.
THEOREM PoolsNeverExhausted == Spec => []NeverExhausted
<1>1. HandleInv => NeverExhausted
  BY NeverOut DEF HandleInv
<1> QED
  BY <1>1, HandlesInvariant, PTL

\* runFrame gives no frame a handle to write that an earlier frame of the ring
\* reads or writes; so a pass beyond its waits reads final state, and a pass
\* that succeeds has read nothing a failed frame left.
THEOREM ReadsAreStable == Spec => []InputsStable
<1>1. HandleInv => InputsStable
  BY DEF HandleInv
<1> QED
  BY <1>1, HandlesInvariant, PTL

\* A pass of parseFrame waits only for passes of frames submitted before it that
\* still run: no cycle of waits exists.
THEOREM WaitsAreOrdered == Spec => []WaitsOlder
<1>1. ASSUME HandleInv PROVE WaitsOlder
  <2> SUFFICES ASSUME NEW i \in 1 .. Len(ring), NEW h \in Range(ring[i].reads) \ {None}, prog[h] = 0
               PROVE  \E j \in 1 .. i - 1 : ring[j].writes = h /\ ~Ended(ring[j])
    BY DEF WaitsOlder
  <2>1. TypeOK /\ FramesOK /\ InputsStable /\ Written /\ Len(ring) \in Nat
    BY <1>1 DEF HandleInv, TypeOK
  <2>2. h \in 1 .. Size
    BY <2>1, FrameTypes
  <2>3. PICK j \in 1 .. Len(ring) : ring[j].writes = h /\ ~Ended(ring[j])
    BY <2>1, <2>2 DEF Written
  <2>4. j # i
    BY <2>1, <2>3 DEF FramesOK, FrameOK
  <2>5. ~(i < j)
    BY <2>1, <2>3 DEF InputsStable
  <2>6. j \in 1 .. i - 1
    BY <2>1, <2>4, <2>5
  <2> QED
    BY <2>3, <2>6
<1> QED
  BY <1>1, HandlesInvariant, PTL
=============================================================================
