----------------------------- MODULE PacketPlans -----------------------------
(***************************************************************************)
(* How internal/av1/rtp/packetizer.go spreads the OBUs of a frame over RTP *)
(* payloads, and the payloads it writes.                                   *)
(*                                                                         *)
(* An OBU is [size, layer, header]: its bytes on the wire, its temporal    *)
(* and spatial layer or NoLayer, and the bytes of its header.  A           *)
(* plan names a packet's first OBU, the number of OBU elements, where in   *)
(* the first OBU it starts, the bytes of its last element and the bytes    *)
(* after the aggregation header.  Limits are the payload size and what the *)
(* first, the last and a single packet must leave free.                    *)
(***************************************************************************)
EXTENDS Integers, Sequences, FiniteSets, SequencesExt

CONSTANT NoLayer

\* maxObusWithOmittedLastSize
OmitLimit == 3

Least(a, b) == IF a < b THEN a ELSE b

\* The element of a singleton.
The(set) == CHOOSE x \in set : TRUE

\* FoldLeft, one value at a time.
Fold(Op(_, _), base, seq) ==
  LET f[k \in 0 .. Len(seq)] == IF k = 0 THEN base ELSE The({Op(acc, seq[k]) : acc \in {f[k - 1]}})
  IN f[Len(seq)]

\* bitstream.LEB128Len, for the sizes in use
LebLen(n) == CHOOSE k \in 1 .. 8 : n < 2 ^ (7 * k) /\ (k > 1 => n >= 2 ^ (7 * (k - 1)))

\* maxFragmentSize: the largest fragment that fits with its length in front.
MaxFragment(room) ==
  IF room <= 1 THEN 0
  ELSE room - (CHOOSE i \in 1 .. 8 : room < 2 ^ (7 * i) + i /\ \A j \in 1 .. i - 1 : room >= 2 ^ (7 * j) + j)

EmptyPlan(i) == [first |-> i, elements |-> 0, offset |-> 0, lastSize |-> 0, size |-> 0]
FragmentPlan(i, offset, size) ==
  [first |-> i, elements |-> 1, offset |-> offset, lastSize |-> size, size |-> size]

\* additionalBytesForPreviousOBUElement: the last element of the packet gets
\* a length once another one follows.
ExtraBytes(p) == IF p.size = 0 \/ p.elements > OmitLimit THEN 0 ELSE LebLen(p.lastSize)

\* The state of the loop of packetizeInternal: closed plans, the open one, the
\* bytes it has left and the layer of its OBUs.
Opened(limits) == [plans |-> <<>>, packet |-> EmptyPlan(1), layer |-> NoLayer,
                   remaining |-> limits.max - 1 - limits.first]

NextPlan(st, i, limits) == [plans |-> Append(st.plans, st.packet), packet |-> EmptyPlan(i),
                            layer |-> NoLayer, remaining |-> limits.max - 1]

\* OBUs of one layer share a packet; OBUs of none only come before them.
LayerChanges(st, obu) == st.packet.elements > 0 /\ st.layer # NoLayer /\ obu.layer # st.layer

\* What the last OBU may take of the packet.
Available(room, count, isLast, limits) ==
  IF ~isLast THEN room
  ELSE IF count = 1 THEN room + limits.first - limits.single
  ELSE room - limits.last

\* The last fragment of the last OBU is split when the last packet could not
\* hold it.
TailSizes(rest, isLast, limits) ==
  IF isLast /\ rest > limits.max - 1 - limits.last
  THEN LET second == Least((rest + limits.last) \div 2, rest - 1) IN <<second, rest - second>>
  ELSE <<rest>>

\* An OBU that does not fit: the head fills the open packet (an empty head is
\* taken back), full packets follow, and the tail opens the next packet.
Spread(b, p, room, written, obu, i, isLast, limits) ==
  LET full == limits.max - 1
      head == Least(obu.size - 1, IF written THEN MaxFragment(room) ELSE room)
      count == (obu.size - head - 1) \div full
      tail == head + count * full
      sizes == TailSizes(obu.size - tail, isLast, limits)
      headPlan == IF head = 0 THEN b.packet
                  ELSE [p EXCEPT !.size = @ + head + IF written THEN LebLen(head) ELSE 0, !.lastSize = head]
  IN [plans |-> b.plans \o <<headPlan>>
                \o [k \in 1 .. count |-> FragmentPlan(i, head + (k - 1) * full, full)]
                \o (IF Len(sizes) = 2 THEN <<FragmentPlan(i, tail, sizes[1])>> ELSE <<>>),
      packet |-> FragmentPlan(i, obu.size - sizes[Len(sizes)], sizes[Len(sizes)]),
      layer |-> obu.layer,
      remaining |-> full - sizes[Len(sizes)]]

\* One turn of the loop.
Place(st, i, obus, limits) ==
  LET obu == obus[i]
      isLast == i = Len(obus)
      a == IF LayerChanges(st, obu) THEN NextPlan(st, i, limits) ELSE st
      least == ExtraBytes(a.packet) + IF a.packet.elements >= OmitLimit THEN 2 ELSE 1
      b == IF a.remaining < least THEN NextPlan(a, i, limits) ELSE a
      extra == ExtraBytes(b.packet)
      p == [b.packet EXCEPT !.elements = @ + 1, !.size = @ + extra]
      room == b.remaining - extra
      written == p.elements > OmitLimit
      required == obu.size + IF written THEN LebLen(obu.size) ELSE 0
  IN IF required <= Available(room, Len(b.plans) + 1, isLast, limits)
     THEN [b EXCEPT !.packet = [p EXCEPT !.lastSize = obu.size, !.size = @ + required],
                    !.remaining = room - required,
                    !.layer = IF obu.layer # NoLayer THEN obu.layer ELSE @]
     ELSE Spread(b, p, room, written, obu, i, isLast, limits)

\* packetizeInternal rejects limits with less than three bytes for the first
\* or the last packet.
ValidLimits(limits) == limits.max - limits.last >= 3 /\ limits.max - limits.first >= 3

\* packetizeInternal
PlansFor(obus, limits) ==
  The({Append(st.plans, st.packet) :
       st \in {Fold(LAMBDA s, i : Place(s, i, obus, limits), Opened(limits), [i \in DOMAIN obus |-> i])}})

\* The bytes the packets leave free.
Unused(plans, limits) ==
  LET free(k) == limits.max - 1 - plans[k].size
                 - (IF k = 1 THEN limits.first ELSE IF k = Len(plans) THEN limits.last ELSE 0)
  IN Fold(LAMBDA sum, k : sum + (IF free(k) >= 0 THEN free(k) ELSE 0), 0, [k \in DOMAIN plans |-> k])

\* PacketizeOBUs: a second pass with a smaller payload evens the packets out,
\* when it needs no more of them.
Evened(plans, obus, limits) ==
  LET unused == Unused(plans, limits)
      cut == unused \div Len(plans)
      even == [limits EXCEPT !.max = @ - (cut - 1)]
      again == PlansFor(obus, even)
  IN IF Len(plans) <= 1 \/ unused <= 10 * Len(plans) \/ cut <= 1 \/ limits.max <= cut \/ ~ValidLimits(even)
        \/ Len(again) # Len(plans)
     THEN plans ELSE again

-----------------------------------------------------------------------------
(* The payloads: sequences of bytes of OBUs and of length fields, which     *)
(* are [obu |-> 0, at |-> the length].                                     *)

\* writeOBUFragment
Bytes(o, offset, size) == [k \in 1 .. size |-> [obu |-> o, at |-> offset + k]]
Length(n) == <<[obu |-> 0, at |-> n]>>

\* aggregationHeader
ContinuesPrevious(plan) == plan.offset > 0
ContinuesNext(plan, obus) ==
  (IF plan.elements = 1 THEN plan.offset ELSE 0) + plan.lastSize < obus[plan.first + plan.elements - 1].size
ElementCount(plan) == IF plan.elements <= OmitLimit THEN plan.elements ELSE 0

\* NextPacket: all elements but the last run to the end of their OBU.
Body(plan, obus) ==
  LET offset(k) == IF k = 1 THEN plan.offset ELSE 0
      size(k) == IF k = plan.elements THEN plan.lastSize ELSE obus[plan.first + k - 1].size - offset(k)
      element(k) == (IF k < plan.elements \/ plan.elements > OmitLimit THEN Length(size(k)) ELSE <<>>)
                    \o Bytes(plan.first + k - 1, offset(k), size(k))
  IN FlattenSeq([k \in 1 .. plan.elements |-> element(k)])
Payload(plan, obus) ==
  [z |-> ContinuesPrevious(plan), y |-> ContinuesNext(plan, obus), w |-> ElementCount(plan), body |-> Body(plan, obus)]

\* The bytes of a payload behind its aggregation header; lengths stay below
\* 2^14.
Written(payload) ==
  LET lengths == {k \in DOMAIN payload.body : payload.body[k].obu = 0}
  IN Len(payload.body) + Cardinality({k \in lengths : LebLen(payload.body[k].at) = 2})

\* All payloads of a frame.
Packetized(obus, limits) ==
  The({[k \in DOMAIN plans |-> Payload(plans[k], obus)] :
       plans \in {Evened(first, obus, limits) : first \in {PlansFor(obus, limits)}}})

-----------------------------------------------------------------------------
(* Iterator: the elements of a payload, with their continuation flags.      *)

ElementsFrom(p) ==
  LET n == Len(p.body)
      f[off \in 1 .. n + 1, i \in 0 .. n] ==
        IF off > n THEN <<>>
        ELSE LET inferred == p.w # 0 /\ i = p.w - 1
                 start == IF inferred THEN off ELSE off + 1
                 end == IF inferred THEN n ELSE off + p.body[off].at
             IN <<[data |-> SubSeq(p.body, start, end), prev |-> p.z /\ i = 0, next |-> p.y /\ end = n]>>
                \o f[end + 1, i + 1]
  IN f[1, 0]
==============================================================================
