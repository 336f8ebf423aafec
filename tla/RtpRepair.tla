----------------------------- MODULE RtpRepair ------------------------------
(***************************************************************************)
(* A stream under repair: the sender stores each packet it sends in an     *)
(* RTPRetransmissionCache (rtp_retransmission.go), the receiver sequences  *)
(* what arrives (SequencerOps), asks for what is missing with Generic NACK *)
(* pairs, and the sender answers from the cache with RTX packets, which    *)
(* the receiver turns back into the original packets.  The network loses,  *)
(* duplicates and reorders; it, and when the receiver asks or gives up a   *)
(* gap, are not part of the repository: any choice is allowed.             *)
(*                                                                         *)
(* Packets are 0, 1, 2, ... in the order they are sent.                    *)
(***************************************************************************)
EXTENDS SequencerOps

CONSTANTS
  MaxPackets,  \* bound: packets sent
  CacheSlots,  \* slots of the cache
  MaySkip      \* may the receiver give gaps up?

RepairAssumption == SlotsAssumption /\ MaxPackets \in Nat /\ CacheSlots \in 1 .. 32768 /\ MaySkip \in BOOLEAN

Packets == 0 .. MaxPackets - 1

VARIABLES
  sent,   \* packets sent
  cache,  \* the sender's slots
  media,  \* packets on their way
  nack,   \* the NACK pairs on their way, <<>> when there are none
  rtx,    \* RTX packets on their way
  s,      \* the sequencer
  got     \* what it released

vars == <<sent, cache, media, nack, rtx, s, got>>

Init ==
  /\ sent = 0
  /\ cache = [i \in 0 .. CacheSlots - 1 |-> NoPacket]
  /\ media = {} /\ nack = <<>> /\ rtx = {}
  /\ s = Fresh /\ got = <<>>

\* Store: the packet takes the slot of its number.
CacheStore(c, p) == [c EXCEPT ![Number(p) % CacheSlots] = p]

\* Mutant: the slot is compared with the number after the one asked for.
CachedNext(c, q) == c[q % CacheSlots] # NoPacket /\ Number(c[q % CacheSlots]) = Mod16(q + 1)

\* Contains, cachedSlot
Cached(c, q) == c[q % CacheSlots] # NoPacket /\ Number(c[q % CacheSlots]) = q

SendPacket ==
  /\ sent < MaxPackets
  /\ cache' = CacheStore(cache, sent)
  /\ media' = media \cup {sent}
  /\ sent' = sent + 1
  /\ UNCHANGED <<nack, rtx, s, got>>

Receive(result) == \E r \in {result} : s' = r.s /\ got' = got \o r.out

\* A packet arrives; a copy of it may still be under way.
Arrive(p) ==
  /\ p \in media
  /\ media' \in {media, media \ {p}}
  /\ Receive(Push(s, p))
  /\ UNCHANGED <<sent, cache, nack, rtx>>

Lose(p) ==
  /\ p \in media
  /\ media' = media \ {p}
  /\ UNCHANGED <<sent, cache, nack, rtx, s, got>>

Ask ==
  /\ nack = <<>> /\ Missing(s) # <<>>
  /\ nack' \in {NackPairs(s)}
  /\ UNCHANGED <<sent, cache, media, rtx, s, got>>

LoseNack ==
  /\ nack # <<>>
  /\ nack' = <<>>
  /\ UNCHANGED <<sent, cache, media, rtx, s, got>>

\* rtpRTXHeader and PutRTPRTXPacket: the original number goes in front of the
\* payload.
Wrap(p) == [osn |-> Number(p), payload |-> p]

\* AppendRTXPacketsForRTCPGenericNACKPairs: packets no longer cached are left
\* out.
Answers(c, pairs) ==
  {Wrap(c[q % CacheSlots]) : q \in {q \in UNION {Asked(pairs[k]) : k \in DOMAIN pairs} : Cached(c, q)}}

Answer ==
  /\ nack # <<>>
  /\ rtx' = rtx \cup Answers(cache, nack)
  /\ nack' = <<>>
  /\ UNCHANGED <<sent, cache, media, s, got>>

\* PutRTPPacketFromRTX: the packet with the original number and payload.
Restore(x) == CHOOSE p \in Packets : Number(p) = x.osn /\ p = x.payload

ArriveRtx(x) ==
  /\ x \in rtx
  /\ rtx' \in {rtx, rtx \ {x}}
  /\ Receive(Push(s, Restore(x)))
  /\ UNCHANGED <<sent, cache, media, nack>>

LoseRtx(x) ==
  /\ x \in rtx
  /\ rtx' = rtx \ {x}
  /\ UNCHANGED <<sent, cache, media, nack, s, got>>

GiveUp ==
  /\ MaySkip /\ Missing(s) # <<>>
  /\ Receive(SkipMissing(s))
  /\ UNCHANGED <<sent, cache, media, nack, rtx>>

\* The packet the receiver waits for comes from the cache.
Repaired == \E p \in Packets : Number(p) = s.next /\ ArriveRtx(Wrap(p)) /\ rtx' # rtx

Next ==
  \/ SendPacket \/ Ask \/ LoseNack \/ Answer \/ GiveUp
  \/ \E p \in Packets : Arrive(p) \/ Lose(p) \/ ArriveRtx(Wrap(p)) \/ LoseRtx(Wrap(p))

\* What is asked for, answered and sent often enough gets through.
Fairness ==
  /\ WF_vars(Ask) /\ SF_vars(Answer) /\ WF_vars(GiveUp)
  /\ SF_vars(Repaired)

Spec == Init /\ [][Next]_vars /\ Fairness

-----------------------------------------------------------------------------
\* Whatever the network and the repair do, packets come out in the order they
\* were sent, each at most once, and AfterLoss marks exactly the ones whose
\* predecessor never comes out: neither a retransmission that crosses the
\* original nor one that crosses a given-up gap shows.
InSendOrder ==
  \A k \in 2 .. Len(got) :
    /\ got[k - 1].packet < got[k].packet
    /\ got[k].afterLoss <=> got[k].packet # got[k - 1].packet + 1

\* While the receiver gives nothing up and no packet outruns the window, a
\* gap is only ever closed by the missing packet: nothing after the first
\* packet released is lost.
NothingLost == (~MaySkip /\ MaxPackets <= Slots) => \A k \in DOMAIN got : ~got[k].afterLoss

\* A gap the receiver knows of does not last: the packets behind it come out,
\* repaired from the cache or given up.
GapsClose == s.buffered > 0 ~> s.buffered = 0
=============================================================================
