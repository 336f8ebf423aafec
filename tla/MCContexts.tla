----------------------------- MODULE MCContexts -----------------------------
(***************************************************************************)
(* What the contexts of the ring hold and do, in one run: each of the      *)
(* three pools of entropy state with two slots and two frames in flight,   *)
(* and the tail of one frame.                                              *)
(***************************************************************************)
EXTENDS EntropyHandles, TLC

CONSTANTS s1, s2

VARIABLES part,
  used, spans, reported, tail, perr, bpc, idx, wf, lane, pix, pending,
  joinErr, parsed, post, filtered, surface, reference, broke

tailVars == <<used, spans, reported, tail, perr, bpc, idx, wf, lane, pix,
              pending, joinErr, parsed, post, filtered, surface, reference, broke>>

TwoSlots == {s1, s2}
Alike == Permutations(TwoSlots)

\* Two columns of a two-row and, below, a one-row tile whose last superblock
\* row is cut by the frame's edge; each row of tiles is a batch.
Grid == INSTANCE FrameTail WITH
  Tiles <- 1 .. 4, Start <- <<0, 0, 4, 4>>, End <- <<4, 4, 5, 5>>, Done <- 9,
  Batches <- {1, 2}, TilesOf <- <<<<1, 2>>, <<3, 4>>>>, Sb <- 2, Workers <- 4,
  rows <- spans, published <- reported, refs <- reference

ASSUME Grid!TailAssumption

\* The CDF pool is the largest: with failing passes only one slot names entries.
Expected ==
  LET failed == {h \in 1 .. Size : prog'[h] = Error}
      named == {s \in Slots : slot'[s] # None}
  IN  /\ part = "whole" /\ kind = "cdf" => failed = {}
      /\ part = "failing" => Cardinality(named) <= 1

PartsInit ==
  /\ part \in {"whole", "failing", "tail"}
  /\ Init
  /\ part # "whole" => kind = "cdf"
  /\ Grid!Init

PartsNext ==
  /\ \/ part # "tail" /\ Next /\ Expected /\ UNCHANGED tailVars
     \/ part = "tail" /\ Grid!Next /\ UNCHANGED vars
  /\ UNCHANGED part

PartsSpec == PartsInit /\ [][PartsNext]_<<part, vars, tailVars>>

\* The published row count covers only reconstructed rows, and the post-filter
\* stays a superblock row behind it (FrameTail).
RowsReconstructed == Grid!RowsReconstructed /\ Grid!FilterBehindRecon

\* When a frame's tail is done, its surface tells whether anything failed and
\* nothing of the frame still runs; a wavefront is taken for a tile only when
\* nobody runs on it (FrameTail).
FailureTold == Grid!FailureTold /\ Grid!FinalQuiet /\ Grid!WavefrontJoined
=============================================================================
