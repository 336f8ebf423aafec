----------------------------- MODULE MCEncoder ------------------------------
(***************************************************************************)
(* The concurrent parts of the encoder in one run, each by itself: the     *)
(* throughput pipeline with one to three temporal layers and with leaves   *)
(* that fail, and the superblock-row wavefront on two lanes.               *)
(***************************************************************************)
EXTENDS EncoderPipeline, EncoderWavefront

VARIABLE part
all == <<part, pipeVars, vars>>

Encoder(layers, background, failing, n) ==
  [layers |-> layers, background |-> background, leafMayFail |-> failing, frames |-> n]

Encoders ==
  {Encoder(1, TRUE, FALSE, 4), Encoder(2, TRUE, FALSE, 9), Encoder(3, TRUE, FALSE, 9), Encoder(2, FALSE, TRUE, 6)}

\* One part runs, the other stands still.
PartsInit ==
  /\ PipeInit /\ Init
  /\ \/ part = "pipe"
     \/ part = "wave" /\ mode = Encoder(1, TRUE, FALSE, 4)

PartsNext ==
  /\ \/ part = "pipe" /\ PipeNext /\ UNCHANGED vars
     \/ part = "wave" /\ Next /\ UNCHANGED pipeVars
  /\ UNCHANGED part

In(p, A) == part = p /\ A

PartsFairness ==
  /\ WF_pipeVars(In("pipe", Join)) /\ WF_pipeVars(In("pipe", Code)) /\ WF_pipeVars(In("pipe", Finish))
  /\ WF_pipeVars(In("pipe", Collect)) /\ WF_pipeVars(In("pipe", LeafStart))
  /\ WF_pipeVars(In("pipe", LeafEnd)) /\ WF_pipeVars(In("pipe", FilterEnd))
  /\ WF_vars(In("wave", WriterSteps))
  /\ \A l \in Lanes : WF_vars(In("wave", LaneSteps(l)))

PartsSpec == PartsInit /\ [][PartsNext]_all /\ PartsFairness

\* Every call of the pipeline returns and every frame of the wavefront ends
\* (encodeOverlap waits for the leaf worker, the entropy pass for the lanes).
EncoderEnds == CallsReturn /\ FramesEnd
=============================================================================
