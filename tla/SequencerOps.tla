---------------------------- MODULE SequencerOps ----------------------------
(***************************************************************************)
(* RTPPacketSequencer (rtp_packet_sequencer.go) as operations on its       *)
(* state: a window of slots indexed by 16-bit sequence number.  A result   *)
(* of an operation that releases packets is [s |-> state, out |-> the      *)
(* packets appended].  A packet is known by an identity P; Number(P) is    *)
(* the sequence number in its header.                                      *)
(***************************************************************************)
EXTENDS Integers, Sequences, FiniteSets, FiniteSetsExt, SequencesExt

CONSTANTS
  Slots,    \* len(slots)
  Number(_),   \* the sequence number of a packet
  NoPacket  \* an empty slot

SlotsAssumption == Slots \in 1 .. 32768

Mod16(n) == n % 65536

\* uint16(a - b)
Distance(a, b) == Mod16(a - b)

\* Mutant: every other number is ahead.
AheadAny(seq, next) == seq # next

\* rtpSequenceNumberAhead: int16(seq - next) > 0
Ahead(seq, next) == Distance(seq, next) \in 1 .. 32767

Unbound == [i \in 0 .. Slots - 1 |-> NoPacket]
Fresh == [slots |-> Unbound, next |-> 0, initialized |-> FALSE, afterLoss |-> FALSE, buffered |-> 0]

Occupied(s) == {i \in 0 .. Slots - 1 : s.slots[i] # NoPacket}
Held(s) == {Number(s.slots[i]) : i \in Occupied(s)}

SlotOf(seq) == seq % Slots
HasBuffered(s, seq) == s.slots[SlotOf(seq)] # NoPacket /\ Number(s.slots[SlotOf(seq)]) = seq

\* store: a duplicate is dropped, another occupant is replaced.
Store(s, p) ==
  IF HasBuffered(s, Number(p)) THEN s
  ELSE [s EXCEPT !.slots[SlotOf(Number(p))] = p,
                 !.buffered = IF s.slots[SlotOf(Number(p))] # NoPacket THEN @ ELSE @ + 1]

\* How many packets drain releases: the run of held numbers from next on.
RunLength(s) == CHOOSE n \in 0 .. Slots :
                  /\ \A k \in 0 .. n - 1 : HasBuffered(s, Mod16(s.next + k))
                  /\ n < Slots => ~HasBuffered(s, Mod16(s.next + n))

\* drain
Drain(s) ==
  LET n == IF s.initialized THEN RunLength(s) ELSE 0
      freed == {SlotOf(Mod16(s.next + k)) : k \in 0 .. n - 1}
  IN [s |-> [s EXCEPT !.slots = [i \in DOMAIN @ |-> IF i \in freed THEN NoPacket ELSE @[i]],
                      !.next = Mod16(@ + n), !.buffered = @ - n,
                      !.afterLoss = IF n > 0 THEN FALSE ELSE @],
      out |-> [k \in 1 .. n |-> [packet |-> s.slots[SlotOf(Mod16(s.next + k - 1))],
                                 afterLoss |-> s.afterLoss /\ k = 1]]]

\* A packet past the window: what is buffered is given up.
Jump(s, seq) == [s EXCEPT !.slots = Unbound, !.buffered = 0, !.next = seq, !.afterLoss = TRUE]

\* The element of a singleton.
The(set) == CHOOSE x \in set : TRUE

\* Push
Push(s, p) ==
  LET seq == Number(p)
      i == IF s.initialized THEN s ELSE [s EXCEPT !.initialized = TRUE, !.next = seq]
  IN IF seq # i.next /\ ~Ahead(seq, i.next) THEN [s |-> i, out |-> <<>>]
     ELSE The({Drain(t) : t \in {Store(IF Distance(seq, i.next) >= Slots THEN Jump(i, seq) ELSE i, p)}})

\* earliestBufferedSequence
Earliest(s) == CHOOSE q \in Held(s) : \A r \in Held(s) : Distance(q, s.next) <= Distance(r, s.next)

\* SkipMissing, after its first drain
SkipGap(d) ==
  IF d.s.buffered = 0 THEN d
  ELSE The({[e EXCEPT !.out = d.out \o @] :
            e \in {Drain([d.s EXCEPT !.next = Earliest(d.s), !.afterLoss = TRUE])}})

\* SkipMissing
SkipMissing(s) ==
  IF ~s.initialized \/ s.buffered = 0 THEN [s |-> s, out |-> <<>>]
  ELSE The({SkipGap(d) : d \in {Drain(s)}})

\* Flush
RECURSIVE Flush(_)
Flush(s) ==
  IF s.buffered = 0 THEN [s |-> s, out |-> <<>>]
  ELSE LET e == SkipMissing(s)
       IN IF e.s.buffered = s.buffered /\ e.out = <<>> THEN e
          ELSE LET f == Flush(e.s) IN [f EXCEPT !.out = e.out \o @]

-----------------------------------------------------------------------------
(* The missing numbers and their Generic NACK pairs.                       *)

\* latestBufferedDistance, 0 when nothing is reported.
Latest(s) == IF ~s.initialized \/ s.buffered = 0 THEN 0
             ELSE Max({Distance(q, s.next) : q \in Held(s)})

\* AppendMissingSequenceNumbers
Missing(s) == SelectSeq([d \in 1 .. Latest(s) |-> Mod16(s.next + d - 1)], LAMBDA q : ~HasBuffered(s, q))

\* missingSummary's count of pairs: a pair starts more than 16 after the last.
PairCount(s) ==
  FoldLeft(LAMBDA acc, q : IF acc.count = 0 \/ Distance(q, acc.id) > 16
                           THEN [count |-> acc.count + 1, id |-> q] ELSE acc,
           [count |-> 0, id |-> 0], Missing(s)).count

\* Mutant: the mask has a seventeenth bit.
CoversWide(pair, q) == Distance(q, pair.id) <= 17

Covers(pair, q) == Distance(q, pair.id) <= 16

\* AppendMissingRTCPGenericNACKPairs: a mask is the set of its bits, of 16.
NackPairs(s) ==
  FoldLeft(LAMBDA acc, q :
             IF acc = <<>> \/ ~Covers(acc[Len(acc)], q) THEN Append(acc, [id |-> q, mask |-> {}])
             ELSE [acc EXCEPT ![Len(acc)].mask = @ \cup ({Distance(q, acc[Len(acc)].id) - 1} \cap 0 .. 15)],
           <<>>, Missing(s))

\* The numbers a pair asks for (RTCPGenericNACKPair).
Asked(pair) == {pair.id} \cup {Mod16(pair.id + bit + 1) : bit \in pair.mask}
=============================================================================
