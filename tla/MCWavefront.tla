---------------------------- MODULE MCWavefront ----------------------------
(***************************************************************************)
(* Reconstruction behind the entropy pass, in one run: the wavefront of    *)
(* one tile, superblock by superblock, and a context of the ring, row by   *)
(* row, with the tiles of a frame.                                         *)
(***************************************************************************)
EXTENDS ReconWavefront

VARIABLES part,
  used, spans, reported, tail, perr, bpc, idx, wf, lane, pix, pending,
  joinErr, parsed, post, filtered, surface, refs, broke

tailVars == <<used, spans, reported, tail, perr, bpc, idx, wf, lane, pix,
              pending, joinErr, parsed, post, filtered, surface, refs, broke>>
all == <<part, vars, tailVars>>

\* Two tiles, one below the other, in one batch.
Column == INSTANCE FrameTail WITH
  Tiles <- 1 .. 2, Start <- <<0, 4>>, End <- <<4, 7>>, Done <- 9,
  Batches <- {1}, TilesOf <- <<<<1, 2>>>>, Sb <- 2, Workers <- 2,
  rows <- spans, published <- reported

ASSUME Column!TailAssumption

In(p, A) == part = p /\ A

PartsInit ==
  /\ part \in {"tile", "column"}
  /\ Init
  /\ Column!Init

PartsNext ==
  /\ \/ In("tile", Next) /\ UNCHANGED tailVars
     \/ In("column", Column!Next) /\ UNCHANGED vars
  /\ UNCHANGED part

PartsFairness ==
  /\ Fairness
  /\ WF_tailVars(In("column", Column!RefEnds)) /\ WF_tailVars(In("column", Column!TailLoop))
  /\ WF_tailVars(In("column", Column!PostRuns)) /\ WF_tailVars(In("column", Column!Batch(1)))
  /\ \A w \in {0, 1} : WF_tailVars(In("column", Column!LaneRuns(1, w)))

PartsSpec == PartsInit /\ [][PartsNext]_all /\ PartsFairness

\* Every tile is joined (ReconWavefront) and every frame handed to a context
\* ends (FrameTail).
TailEnds ==
  /\ TileJoined
  /\ part = "column" => Column!FrameEnds
=============================================================================
