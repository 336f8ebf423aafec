----------------------------- MODULE RtpReceive ------------------------------
(***************************************************************************)
(* The receiving end of an AV1 RTP stream: the payloads a Packetizer wrote *)
(* arrive in order with gaps, the first one after a gap marked AfterLoss   *)
(* (what RtpRepair shows of the packet sequencer); the Depacketizer joins  *)
(* the fragments in a buffer, and the decoder's Stream parses every OBU    *)
(* that is complete.  The buffer is driven by one of two callers:          *)
(*   "runner"   DecoderFrameWorkResidualStreamRunner.runRTPPayload...      *)
(*              (decoder_residual_stream.go)                               *)
(*   "layered"  LayeredDecoder.pushPayload (decode_layered.go), which asks *)
(*              for the size first.                                        *)
(*                                                                         *)
(* Of the Stream only what makes a unit fail is kept: a frame needs a      *)
(* sequence header and a tile group needs the header of its frame.         *)
(***************************************************************************)
EXTENDS PacketPlans

CONSTANTS
  Receiver,  \* "runner" or "layered"
  Obus,      \* the OBUs sent: [size, layer, header, kind]
  Payloads,  \* the payloads they were sent in
  Room       \* len(RTPBuffer)

VARIABLES
  at,        \* the packets sent so far
  lost,      \* was the last of them lost?
  depack,    \* Depacketizer: [in, start]
  used,      \* rtpUsed, RTPUsed
  buffer,    \* the buffer's bytes
  stream,    \* Stream: [sequence, header]: have a sequence, a frame header
  parsed,    \* the byte strings handed to the Stream
  result     \* per packet: "lost", "refused" (by the Depacketizer), "failed"
             \* (a unit did not parse) or "ok"

vars == <<at, lost, depack, used, buffer, stream, parsed, result>>

Closed == [in |-> FALSE, start |-> 0]

Init ==
  /\ at = 0 /\ lost = FALSE
  /\ depack = Closed /\ used = 0 /\ buffer = <<>>
  /\ stream = [sequence |-> FALSE, header |-> FALSE]
  /\ parsed = <<>> /\ result = <<>>

\* Depacketizer.push, one element; w is [in, start, used, buffer, spans, err].
\* Bytes are written over what the buffer held from used on.
PushElement(w, e, room) ==
  IF w.err # "" THEN w
  ELSE IF e.prev /\ ~w.in THEN [w EXCEPT !.err = "continuation"]
  ELSE IF ~e.prev /\ w.in THEN [w EXCEPT !.err = "interrupted"]
  ELSE IF room - w.used < Len(e.data) THEN [w EXCEPT !.err = "short"]
  ELSE LET start == IF e.prev THEN w.start ELSE w.used
           end == w.used + Len(e.data)
           bytes == SubSeq(w.buffer, 1, w.used) \o e.data \o SubSeq(w.buffer, end + 1, Len(w.buffer))
       IN IF e.next THEN [w EXCEPT !.used = end, !.buffer = bytes, !.in = TRUE,
                                   !.start = IF w.in THEN @ ELSE start]
          ELSE [w EXCEPT !.used = end, !.buffer = bytes, !.in = FALSE,
                         !.spans = Append(@, [from |-> start, to |-> end])]

\* Depacketizer.Push
Push(d, n, bytes, room, payload) ==
  Fold(LAMBDA w, e : PushElement(w, e, room),
       [in |-> d.in, start |-> d.start, used |-> n, buffer |-> bytes, spans |-> <<>>, err |-> ""],
       ElementsFrom(payload))

\* The OBU a byte string is, 0 for none.
Whole(bytes) ==
  IF bytes # <<>> /\ bytes = Bytes(bytes[1].obu, 0, Obus[bytes[1].obu].size) THEN bytes[1].obu ELSE 0

\* Stream.PushUnitInto, [ok, stream]: a byte string that is no OBU of the
\* stream does not parse.
Unit(s, o) ==
  LET kind == IF o = 0 THEN "none" ELSE Obus[o].kind
  IN CASE kind = "sequence" -> [ok |-> TRUE, s |-> [s EXCEPT !.sequence = TRUE, !.header = s.header /\ s.sequence]]
       [] kind = "header" -> [ok |-> s.sequence, s |-> [s EXCEPT !.header = @ \/ s.sequence]]
       [] kind = "tiles" -> [ok |-> s.header, s |-> [s EXCEPT !.header = FALSE]]
       [] kind = "metadata" -> [ok |-> TRUE, s |-> s]
       [] OTHER -> [ok |-> FALSE, s |-> s]

\* Stream.PushRTPPayload, behind the Push: units in order, until one fails.
Units(s, w) ==
  Fold(LAMBDA u, span :
         IF ~u.ok THEN u
         ELSE IF span.from > span.to THEN [u EXCEPT !.ok = FALSE]
         ELSE The({LET x == Unit(u.s, Whole(bytes))
                   IN [ok |-> x.ok, s |-> x.s, parsed |-> Append(u.parsed, bytes)] :
                   bytes \in {SubSeq(w.buffer, span.from + 1, span.to)}}),
       [ok |-> TRUE, s |-> s, parsed |-> <<>>], w.spans)

\* Mutant: the fragment of the packets before the gap is kept.
FragmentAfterKept(afterLoss) == <<depack, used>>

\* ResetRTP after a loss
FragmentAfter(afterLoss) == IF afterLoss THEN <<Closed, 0>> ELSE <<depack, used>>

\* runRTPPayloadWithOutputOffset: RTPUsed is what Push returned, also when it
\* or a unit failed.
Runner(w, u) ==
  /\ depack' = [in |-> w.in, start |-> w.start]
  /\ used' = IF w.err = "" /\ u.ok /\ ~w.in THEN 0 ELSE w.used
  /\ buffer' = w.buffer

\* pushPayload: nothing changes when the payload is refused; rtpUsed is set
\* when all units parsed.
Layered(w, u, from) ==
  IF w.err # "" THEN depack' = from[1] /\ used' = from[2] /\ UNCHANGED buffer
  ELSE /\ depack' = [in |-> w.in, start |-> w.start]
       /\ used' = IF ~u.ok THEN from[2] ELSE IF w.in THEN w.used ELSE 0
       /\ buffer' = w.buffer

Receive ==
  /\ at < Len(Payloads)
  /\ at' = at + 1 /\ lost' = FALSE
  /\ \E from \in {FragmentAfter(lost /\ \E k \in 1 .. at : result[k] # "lost")} :
     \E w \in {Push(from[1], from[2], buffer, Room, Payloads[at + 1])} :
     \E u \in {IF w.err = "" THEN Units(stream, w) ELSE [ok |-> FALSE, s |-> stream, parsed |-> <<>>]} :
       /\ IF Receiver = "runner" THEN Runner(w, u) ELSE Layered(w, u, from)
       /\ stream' = u.s /\ parsed' = parsed \o u.parsed
       /\ result' = Append(result, IF w.err # "" THEN "refused" ELSE IF u.ok THEN "ok" ELSE "failed")

Lose ==
  /\ at < Len(Payloads)
  /\ at' = at + 1 /\ lost' = TRUE /\ result' = Append(result, "lost")
  /\ UNCHANGED <<depack, used, buffer, stream, parsed>>

\* The stream is over.
Done == at = Len(Payloads) /\ UNCHANGED vars

Next == Receive \/ Lose \/ Done
Spec == Init /\ [][Next]_vars

-----------------------------------------------------------------------------
\* No unit is put together from pieces of two OBUs, or with one missing:
\* whatever is lost, every byte string the Stream parses is an OBU that was
\* sent, and they come in order.
NoSplice ==
  /\ \A k \in DOMAIN parsed : Whole(parsed[k]) # 0
  /\ \A k \in 2 .. Len(parsed) : Whole(parsed[k - 1]) < Whole(parsed[k])

\* The packets that carry a piece of an OBU.
Carriers(o) == {k \in DOMAIN Payloads : \E i \in DOMAIN Payloads[k].body : Payloads[k].body[i].obu = o}

\* A loss costs the OBUs it cuts, and those that share a refused payload or
\* the end of a failing one with them: an OBU whose packets all arrive, the
\* first one accepted, is parsed, unless a unit before it in its last packet
\* fails.
Delivered ==
  \A o \in DOMAIN Obus : \A first, last \in Carriers(o) :
    /\ \A k \in Carriers(o) : first <= k /\ k <= last /\ k <= at
    /\ \A k \in Carriers(o) : result[k] # "lost"
    /\ result[first] # "refused"
    /\ result[last] = "ok" \/ Payloads[last].body[1].obu = o
    => \E i \in DOMAIN parsed : Whole(parsed[i]) = o

\* A payload is refused only for the loss before it: one that starts with a
\* new OBU, or continues the OBU at the end of an accepted one, is not.
RefusedForLoss ==
  \A k \in DOMAIN result :
    result[k] = "refused" => Payloads[k].z /\ (k = 1 \/ result[k - 1] \in {"lost", "refused"})
==============================================================================
