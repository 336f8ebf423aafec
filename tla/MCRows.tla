------------------------------- MODULE MCRows -------------------------------
(***************************************************************************)
(* Three things that move in rows, in one run, each by itself: a row       *)
(* counter with its waiters, the motion rows of a frame of four tiles or   *)
(* of one, and the row-pipelined post-filter.                              *)
(***************************************************************************)
EXTENDS FrameProgress, MotionRows

VARIABLES part,
  frame, ver, sbRow, recon, driver, region, unit, next, failed, queue, wg,
  err, worker, unitDone, claimed, stripeDone, prefix, final

pipeVars == <<frame, ver, sbRow, recon, driver, region, unit, next, failed,
              queue, wg, err, worker, unitDone, claimed, stripeDone, prefix, final>>
all == <<part, vars, motionVars, pipeVars>>

CONSTANTS u1, u2

\* A 2x2 grid whose lower tiles are cut by the frame, and a single tile.
TileGrids == {[start |-> <<0, 0, 4, 4>>, end |-> <<4, 4, 7, 7>>], [start |-> <<0>>, end |-> <<27>>]}

\* Any stages, at three unit rows or at two and a part of a third.
Sized(h, b) == [lf : BOOLEAN, cdef : BOOLEAN, lr : BOOLEAN, hbd : BOOLEAN, sb : {b}, height : {h}]
PipeFrames == {f \in Sized(18, 6) \cup Sized(15, 12) : f.hbd => f.cdef}
Pipe == INSTANCE RowPipe WITH
  Frames <- PipeFrames, Workers <- {u1, u2}, Cap <- 1,
  progress <- recon, pc <- driver, published <- final

ASSUME Pipe!RowPipeAssumption

In(p, A) == part = p /\ A

PartsInit ==
  /\ part \in {"progress", "motion", "pipe"}
  /\ Init
  /\ MotionInit
  /\ part # "motion" => grid = CHOOSE g \in Grids : TRUE
  /\ Pipe!Init
  /\ part # "pipe" => frame = CHOOSE f \in PipeFrames : TRUE

\* The motion rows are read: the frame and its reader have ended.
MotionEnded ==
  /\ part = "motion" /\ tail = "end" /\ reader \in {"end", "failed"}
  /\ UNCHANGED <<vars, motionVars, pipeVars>>

PartsNext ==
  /\ \/ In("progress", Next) /\ UNCHANGED <<motionVars, pipeVars>>
     \/ In("motion", MotionNext) /\ UNCHANGED <<vars, pipeVars>>
     \/ In("pipe", Pipe!Next) /\ UNCHANGED <<vars, motionVars>>
     \/ MotionEnded
  /\ UNCHANGED part

PartsFairness ==
  /\ Fairness
  /\ \A t \in 1 .. 4 : WF_motionVars(In("motion", t \in GridTiles /\ TileRuns(t)))
  /\ WF_motionVars(In("motion", TailEnds))
  /\ WF_motionVars(In("motion", WaitReferenceRows \/ LoadRows))
  /\ WF_pipeVars(In("pipe", Pipe!ReconRow)) /\ WF_pipeVars(In("pipe", Pipe!DriverRuns))
  /\ \A w \in {u1, u2} : WF_pipeVars(In("pipe", Pipe!UnitRuns(w)))

PartsSpec == PartsInit /\ [][PartsNext]_all /\ PartsFairness

\* Every stage of the post-filter reads what the whole-frame order gives it,
\* and nobody writes it meanwhile (RowPipe).
StageOrder == Pipe!StageOrder /\ Pipe!NoOverlap

\* Published rows are final, and a run that returns without an error leaves
\* every row final (RowPipe).
PublishedFinal == Pipe!PublishedFinal /\ Pipe!Complete

\* The later frame's block loop ends, and so does every post-filter run.
RowsEnd ==
  /\ part = "motion" => ReaderEnds
  /\ part = "pipe" => Pipe!RunEnds
=============================================================================
