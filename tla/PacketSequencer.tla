-------------------------- MODULE PacketSequencer ---------------------------
(***************************************************************************)
(* One RTPPacketSequencer and the calls made on it: packets arrive in any  *)
(* order, more than once and not at all; the caller gives gaps up, flushes *)
(* and resets whenever it likes.                                           *)
(***************************************************************************)
EXTENDS SequencerOps

CONSTANT Packets

VARIABLES
  s,     \* the sequencer
  out,   \* what the last call appended
  last   \* the number released last, before that call

vars == <<s, out, last>>

Init == s = Fresh /\ out = <<>> /\ last = NoPacket

\* What a call leaves: its result, and the last number released before it.
Returns(r) ==
  /\ s' = r.s
  /\ out' = r.out
  /\ last' = IF out = <<>> THEN last ELSE Number(out[Len(out)].packet)

DoPush(p) == Returns(Push(s, p))
DoSkip == Returns(SkipMissing(s))
DoFlush == Returns(Flush(s))
Reset == s' = Fresh /\ out' = <<>> /\ last' = NoPacket

Next == DoSkip \/ DoFlush \/ Reset \/ \E p \in Packets : DoPush(p)
Spec == Init /\ [][Next]_vars

-----------------------------------------------------------------------------
\* Between calls the slots hold numbers strictly inside the window, each in its
\* own slot, and Buffered() counts them: drain left none that is due, and a
\* jump none that is behind.
Windowed ==
  /\ \A i \in Occupied(s) :
       /\ SlotOf(Number(s.slots[i])) = i
       /\ Distance(Number(s.slots[i]), s.next) \in 1 .. Slots - 1
  /\ s.buffered = Cardinality(Occupied(s))

\* "marks the first released packet after a skipped gap"
\* (rtp_packet_sequencer.go:30): each released packet is ahead of the one
\* before, across calls and across the wrap, and AfterLoss is set exactly when
\* numbers between them were never released.
LossMarked ==
  \A k \in DOMAIN out :
    LET prev == IF k = 1 THEN last ELSE Number(out[k - 1].packet)
        this == Number(out[k].packet)
    IN IF prev = NoPacket THEN ~out[k].afterLoss
       ELSE /\ Ahead(this, prev)
            /\ out[k].afterLoss <=> this # Mod16(prev + 1)

\* The two passes of the missing list and of the NACK pairs agree, and the
\* pairs ask for exactly the numbers that are missing before the furthest
\* buffered one, each once, however far apart they are.
NackExact ==
  LET pairs == NackPairs(s)
      missing == Missing(s)
  IN /\ Len(pairs) = PairCount(s)
     /\ UNION {Asked(pairs[k]) : k \in DOMAIN pairs} = ToSet(missing)
     /\ FoldLeft(LAMBDA n, pair : n + Cardinality(Asked(pair)), 0, pairs) = Len(missing)
     /\ ToSet(missing) \cap Held(s) = {}
     /\ missing = <<>> <=> s.buffered = 0
=============================================================================
