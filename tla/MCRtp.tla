------------------------------- MODULE MCRtp --------------------------------
(***************************************************************************)
(* The RTP parts in one run, each by itself: the repair of a stream, the   *)
(* packet sequencer under any calls, the packetizer with the frame         *)
(* assembler, and the two receivers.                                       *)
(***************************************************************************)
EXTENDS Integers, Sequences

CONSTANTS NoPacket, NoLayer

VARIABLES part,
  sent, cache, media, nack, rtx, s, got,
  window, released, last,
  obus, limits, plans, out,
  at, lost, depack, used, buffer, stream, parsed, result

repairVars == <<sent, cache, media, nack, rtx, s, got>>
windowVars == <<window, released, last>>
packetVars == <<obus, limits, plans, out>>
receiveVars == <<at, lost, depack, used, buffer, stream, parsed, result>>
all == <<part, repairVars, windowVars, packetVars, receiveVars>>

-----------------------------------------------------------------------------
(* Repair: packets whose numbers wrap after the second; nothing is given   *)
(* up, or gaps are, with a window and a cache of two packets.              *)

Wrapping(p) == (65534 + p) % 65536
Repair == INSTANCE RtpRepair WITH Slots <- 8, Number <- Wrapping, MaxPackets <- 5, CacheSlots <- 8, MaySkip <- FALSE
Skip == INSTANCE RtpRepair WITH Slots <- 2, Number <- Wrapping, MaxPackets <- 4, CacheSlots <- 2, MaySkip <- TRUE

(* The sequencer: numbers around the wrap and far away, and numbers that   *)
(* put gaps on both sides of the reach of a NACK pair (16) and of the wrap.*)

Itself(p) == p
Near == INSTANCE PacketSequencer WITH
  Slots <- 8, Number <- Itself, Packets <- 65530 .. 65535 \cup 0 .. 5 \cup {100, 33000},
  s <- window, out <- released
Wide == INSTANCE PacketSequencer WITH
  Slots <- 32, Number <- Itself,
  Packets <- {(65515 + d) % 65536 : d \in {0, 1, 2, 15, 16, 17, 18, 19, 30, 31}},
  s <- window, out <- released

(* The packetizer: small payloads, with every way to fill, split and skip  *)
(* packets and more OBUs than an aggregation header counts; and payloads   *)
(* around the size where a length field takes two bytes, with enough room  *)
(* left for the second pass.                                               *)

Obu(size, layer) == [size |-> size, layer |-> layer, header |-> IF size > 1 /\ layer = 1 THEN 2 ELSE 1]
SmallObus == {Obu(n, l) : n \in {1, 2, 5, 9}, l \in {NoLayer, 0, 1}}
SmallFrames == UNION {[1 .. n -> SmallObus] : n \in 1 .. 2} \cup
               UNION {{[i \in 1 .. n |-> Obu(sizes[i], IF i = 1 THEN NoLayer ELSE 1)] :
                         sizes \in [1 .. n -> {1, 8}]} : n \in {4, 5}}
SmallLimits == {[max |-> m, first |-> f, last |-> l, single |-> f + l] :
                  m \in {5, 8}, f \in {0, 2}, l \in {0, 2}} \ {[max |-> 5, first |-> 2, last |-> 2, single |-> 4]}
LongFrames == UNION {{[i \in 1 .. n |-> Obu(sizes[i], 0)] : sizes \in [1 .. n -> {1, 128, 264}]} : n \in {1, 2, 4}}
LongLimits == {[max |-> m, first |-> f, last |-> l, single |-> f + l] : m \in {133, 160}, f \in {0, 2}, l \in {0, 3}}
Small == INSTANCE Packetizer WITH Frames <- SmallFrames, Limits <- SmallLimits
Long == INSTANCE Packetizer WITH Frames <- LongFrames, Limits <- LongLimits

(* The receivers: frames of a header and a tile group, with metadata       *)
(* between them and the sequence header twice, in payloads of four bytes.  *)

Unit(size, kind) == [size |-> size, layer |-> NoLayer, header |-> 1, kind |-> kind]
Frames == <<Unit(1, "sequence"), Unit(2, "header"), Unit(2, "tiles"), Unit(2, "header"),
            Unit(5, "tiles"), Unit(1, "metadata"), Unit(2, "header"), Unit(1, "tiles"), Unit(5, "metadata"),
            Unit(1, "sequence"), Unit(2, "header"), Unit(9, "tiles")>>
Metadata == [i \in DOMAIN Frames |-> [Frames[i] EXCEPT !.kind = "metadata"]]
FramePayloads == Small!Packetized(Frames, [max |-> 5, first |-> 0, last |-> 0, single |-> 0])
Runner == INSTANCE RtpReceive WITH
  Receiver <- "runner", Obus <- Frames, Payloads <- FramePayloads, Room <- 60
Layered == INSTANCE RtpReceive WITH
  Receiver <- "layered", Obus <- Metadata, Payloads <- FramePayloads, Room <- 12

ASSUME Repair!RepairAssumption /\ Skip!RepairAssumption
ASSUME Small!LimitsAssumption /\ Long!LimitsAssumption

-----------------------------------------------------------------------------
In(p, A) == part = p /\ A

PartsInit ==
  /\ part \in {"repair", "skip", "near", "wide", "small", "long", "runner", "layered"}
  /\ IF part = "skip" THEN Skip!Init ELSE Repair!Init
  /\ IF part = "wide" THEN Wide!Init ELSE Near!Init
  /\ CASE part = "small" -> Small!Init
       [] part = "long" -> Long!Init
       [] OTHER -> obus = <<>> /\ limits = <<>> /\ plans = <<>> /\ out = <<>>
  /\ Runner!Init

PartsNext ==
  /\ \/ (In("repair", Repair!Next) \/ In("skip", Skip!Next)) /\ UNCHANGED <<windowVars, packetVars, receiveVars>>
     \/ (In("near", Near!Next) \/ In("wide", Wide!Next)) /\ UNCHANGED <<repairVars, packetVars, receiveVars>>
     \/ (In("small", Small!Next) \/ In("long", Long!Next)) /\ UNCHANGED <<repairVars, windowVars, receiveVars>>
     \/ (In("runner", Runner!Next) \/ In("layered", Layered!Next)) /\ UNCHANGED <<repairVars, windowVars, packetVars>>
  /\ UNCHANGED part

PartsFairness ==
  /\ WF_repairVars(In("repair", Repair!Ask) \/ In("skip", Skip!Ask))
  /\ SF_repairVars(In("repair", Repair!Answer) \/ In("skip", Skip!Answer))
  /\ SF_repairVars(In("repair", Repair!Repaired) \/ In("skip", Skip!Repaired))
  /\ WF_repairVars(In("skip", Skip!GiveUp))

PartsSpec == PartsInit /\ [][PartsNext]_all /\ PartsFairness

\* Packets come out in the order sent, with losses marked, and none is lost
\* that was not given up (RtpRepair).
InSendOrder == Repair!InSendOrder /\ (part = "repair" => Repair!NothingLost)

\* A gap the receiver knows of closes (RtpRepair).
GapsClose == Repair!GapsClose

\* The sequencer's window, its loss marks and its NACK pairs are exact
\* (PacketSequencer).
WindowExact ==
  IF part = "wide" THEN Wide!Windowed /\ Wide!LossMarked /\ Wide!NackExact
  ELSE Near!Windowed /\ Near!LossMarked /\ Near!NackExact

\* Payloads fit and keep layers apart, carry every byte once, have the planned
\* size, and are assembled into the OBUs sent (Packetizer).
AssembledExactly ==
  part \in {"small", "long"} =>
    /\ Small!Fits /\ Small!LayersApart /\ Small!NothingDropped /\ Small!SizesAsPlanned
    /\ part = "small" => Small!AssembledExactly

\* The receivers parse OBUs that were sent, in order, and every one a loss did
\* not cut (RtpReceive).
NoSplice ==
  IF part = "layered" THEN Layered!NoSplice /\ Layered!Delivered /\ Layered!RefusedForLoss
  ELSE Runner!NoSplice /\ Runner!Delivered /\ Runner!RefusedForLoss
=============================================================================
