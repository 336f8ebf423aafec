----------------------------- MODULE Packetizer ------------------------------
(***************************************************************************)
(* rtp.Packetizer at work: NewPacketizer plans the packets of a frame, and *)
(* NextPacket writes them one after the other.                             *)
(***************************************************************************)
EXTENDS FrameAssembly

CONSTANTS
  Frames,  \* the sequences of OBUs to send
  Limits   \* the payload limits

\* The code validates the limits of the first and of the last packet; a single
\* packet needs room as well.
LimitsAssumption == \A l \in Limits : ValidLimits(l) /\ l.max - l.single >= 3

VARIABLES
  obus, limits,  \* the frame and the limits
  plans,         \* p.packets, <<>> before NewPacketizer
  out            \* the payloads written; p.packetIndex is their number

vars == <<obus, limits, plans, out>>

Init == obus \in Frames /\ limits \in Limits /\ plans = <<>> /\ out = <<>>

NewPacketizer ==
  /\ plans = <<>>
  /\ plans' \in {Evened(first, obus, limits) : first \in {PlansFor(obus, limits)}}
  /\ UNCHANGED <<obus, limits, out>>

\* A payload that does not have the planned size is not returned.
NextPacket ==
  /\ Len(out) < Len(plans)
  /\ \E p \in {Payload(plans[Len(out) + 1], obus)} :
       out' = IF Written(p) = plans[Len(out) + 1].size THEN Append(out, p) ELSE out
  /\ UNCHANGED <<obus, limits, plans>>

\* The frame is written.
Done == plans # <<>> /\ Len(out) = Len(plans) /\ UNCHANGED vars

Next == NewPacketizer \/ NextPacket \/ Done
Spec == Init /\ [][Next]_vars

-----------------------------------------------------------------------------
\* Every packet fits: with its aggregation header it leaves free what the
\* limits ask of a first, a last and a single packet, whichever of the two
\* passes planned it.
Fits ==
  \A k \in DOMAIN plans :
    1 + plans[k].size <= limits.max -
      (IF Len(plans) = 1 THEN limits.single
       ELSE IF k = 1 THEN limits.first ELSE IF k = Len(plans) THEN limits.last ELSE 0)

\* A packet carries the OBUs of one layer at most, and the OBUs that belong to
\* none come before them ("Keep unassociated OBUs at the front of a packet and
\* do not mix layer IDs").
LayersApart ==
  \A k \in DOMAIN plans : \A i, j \in plans[k].first .. plans[k].first + plans[k].elements - 1 :
    (i < j /\ obus[i].layer # NoLayer) => obus[j].layer = obus[i].layer

\* The OBU bytes of the payloads from a to b.
Sent(a, b) ==
  FlattenSeq([k \in 1 .. b - a + 1 |-> SelectSeq(out[a + k - 1].body, LAMBDA t : t.obu # 0)])
AllBytes == FlattenSeq([i \in DOMAIN obus |-> Bytes(i, 0, obus[i].size)])

\* The payloads carry every byte of every OBU once and in order.
NothingDropped == (plans # <<>> /\ Len(out) = Len(plans)) => Sent(1, Len(out)) = AllBytes

\* The assembler and the packetizer agree on where OBUs begin and end: any run
\* of consecutive payloads is assembled exactly when it begins and ends with
\* whole OBUs, and then into the OBUs it carries, with the payload behind each
\* header and its size; a run that begins or ends inside an OBU is refused.
AssembledExactly ==
  \A a, b \in 1 .. Len(out) : a <= b =>
    LET whole == ~out[a].z /\ ~out[b].y
        bytes == Sent(a, b)
        ids == bytes[1].obu .. bytes[Len(bytes)].obu
        r == AssembleFrame(SubSeq(out, a, b), [i \in DOMAIN obus |-> obus[i].header])
    IN IF ~whole THEN r.err # ""
       ELSE /\ r.err = "" /\ Len(r.out) = Cardinality(ids)
            /\ \A k \in DOMAIN r.out :
                 LET i == bytes[1].obu + k - 1
                 IN /\ r.infos[k].payload = obus[i].size - obus[i].header
                    /\ r.out[k] = Bytes(i, obus[i].header, obus[i].size - obus[i].header)

\* The size of every payload is the planned one, so NextPacket never fails.
SizesAsPlanned == \A k \in DOMAIN plans : Written(Payload(plans[k], obus)) = plans[k].size
==============================================================================
