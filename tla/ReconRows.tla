----------------------------- MODULE ReconRows -----------------------------
(***************************************************************************)
(* FrameThreadReconRows of threading/frame_thread_reconrows.go: the lanes  *)
(* of every tile report the luma rows they have reconstructed, in any      *)
(* order, and one count of rows that are complete across the frame is      *)
(* published for the post-filter to follow.  Every operation holds the     *)
(* struct's mutex from its first to its last access, so each is one step.  *)
(***************************************************************************)
EXTENDS Integers, FiniteSetsExt

CONSTANTS
  Tiles,  \* the tiles of the frame
  Start,  \* Start[t] .. End[t]-1 are the luma rows of tile t
  End,
  Done    \* FrameProgressDone: above every row of the frame

SpansAssumption ==
  /\ Done \in Nat
  /\ Start \in [Tiles -> Nat]
  /\ End \in [Tiles -> Nat]
  /\ \A t \in Tiles : Start[t] < End[t] /\ End[t] < Done

Error == -1

VARIABLES
  used,       \* the tiles bindTiles registered
  rows,       \* frameThreadReconTile.rows
  published   \* the published count, which Progress.rows repeats

reconVars == <<used, rows, published>>

\* Reset: the owner calls it before the post-filter can follow the frame.
ResetRows ==
  /\ used' = {}
  /\ rows' = [t \in Tiles |-> 0]
  /\ published' = 0

\* bindTiles: every tile's rows start at the top of the tile.
BindTiles ==
  /\ used' = Tiles
  /\ rows' = Start
  /\ UNCHANGED published

Min2(a, b) == IF a < b THEN a ELSE b
Max2(a, b) == IF a > b THEN a ELSE b

\* Mutant: a tile that has not reported since the last publication counts as
\* finished.
FrameRowsOfReporter(r) ==
  LET open == {t \in used : r[t] < End[t] /\ r[t] > Start[t]}
  IN IF open = {} THEN Done ELSE Min({r[t] : t \in open})

\* The rows complete in every tile: the least count of the unfinished tiles.
FrameRows(r) ==
  LET open == {t \in used : r[t] < End[t]}
  IN IF open = {} THEN Done ELSE Min({r[t] : t \in open})

\* finishRows: a report for a tile the frame did not bind is ignored.
FinishRows(t, rowEnd) ==
  IF t \notin used
  THEN UNCHANGED reconVars
  ELSE /\ rows' = [rows EXCEPT ![t] = Max2(@, Min2(rowEnd, End[t]))]
       /\ published' = IF FrameRows(rows') > published /\ published # Error
                       THEN FrameRows(rows') ELSE published
       /\ UNCHANGED used

\* Fail ends the count unless every row had finished.
Fail ==
  /\ published' = IF published = Done THEN Done ELSE Error
  /\ UNCHANGED <<used, rows>>
=============================================================================
