----------------------------- MODULE MotionRows -----------------------------
(***************************************************************************)
(* FrameThreadMotion of threading/frame_thread.go and the block loop that  *)
(* drives it (tile/block_loop.go): the tiles of a frame save their MV_REF  *)
(* rows concurrently, one count of rows saved across the frame is          *)
(* published, and the block loop of a later frame, itself one superblock   *)
(* row at a time, waits for the rows it projects from.  Rows are 8x8 rows. *)
(* Saving a row band and publishing it are two steps; the table is changed *)
(* under its mutex.                                                        *)
(***************************************************************************)
EXTENDS Integers, FiniteSetsExt

CONSTANTS
  Grids,     \* the tile grids: the rows of tile t are start[t] .. end[t]-1
  Sb,        \* rows of a superblock of the frame
  ReadSb,    \* rows of a superblock of the frame that reads
  RowsDone   \* FrameProgressDone: above every row

ASSUME MotionAssumption ==
  /\ Sb \in Nat \ {0} /\ ReadSb \in Nat \ {0} /\ RowsDone \in Nat
  /\ \A g \in Grids :
       LET tiles == DOMAIN g.start
       IN  /\ IsFiniteSet(tiles) /\ tiles # {}
           /\ g.start \in [tiles -> Nat] /\ g.end \in [tiles -> Nat]
           /\ \A t \in tiles : g.start[t] < g.end[t] /\ g.end[t] + Sb + ReadSb < RowsDone

RowsFailed == -1

VARIABLES
  grid,      \* the frame's tiles
  tile,      \* each tile's parse
  saved,     \* rows each tile has saved in the grid
  tileRows,  \* FrameThreadMotionTile.rows; the last row end a single tile reported
  motion,    \* FrameThreadMotion.published
  progress,  \* the grid's FrameProgress
  tail,      \* the frame's tail: has it published the end?
  reader,    \* the later frame's block loop
  at         \* the row of its superblock

motionVars == <<grid, tile, saved, tileRows, motion, progress, tail, reader, at>>

GridTiles == DOMAIN grid.start
multi == Cardinality(GridTiles) > 1
GridHeight == Max({grid.end[t] : t \in GridTiles})
Smaller(m, n) == IF m < n THEN m ELSE n

\* bindTiles.
MotionInit ==
  /\ grid \in Grids
  /\ tile = [t \in GridTiles |-> "save"]
  /\ saved = grid.start
  /\ tileRows = grid.start
  /\ motion = 0 /\ progress = 0
  /\ tail = "parse"
  /\ reader = "wait" /\ at = 0

\* saveTmvs: the superblock row ends up in the grid, clipped to the tile.
SaveRows(t) ==
  /\ tile[t] = "save"
  /\ saved' = [saved EXCEPT ![t] = Smaller(@ + Sb, grid.end[t])]
  /\ tile' = [tile EXCEPT ![t] = "publish"]
  /\ UNCHANGED <<grid, tileRows, motion, progress, tail, reader, at>>

\* Mutant: a tile that has not published yet does not count.
FrameRowsSeen(r) ==
  LET open == {t \in GridTiles : r[t] < grid.end[t] /\ r[t] > grid.start[t]}
  IN IF open = {} THEN RowsDone ELSE Min({r[t] : t \in open})

\* frameThreadMotionRows.
FrameRows(r) ==
  LET open == {t \in GridTiles : r[t] < grid.end[t]}
  IN IF open = {} THEN RowsDone ELSE Min({r[t] : t \in open})

\* publishTile, or PublishRows of a frame with one tile.
PublishRows(t) ==
  /\ tile[t] = "publish"
  /\ tileRows' = [tileRows EXCEPT ![t] = @ + Sb]
  /\ LET v == FrameRows(tileRows')
         grew == v > motion /\ v # RowsDone
     IN IF multi
        THEN /\ motion' = IF grew THEN v ELSE motion
             /\ progress' = IF grew THEN v ELSE progress
        ELSE /\ progress' = tileRows'[t]
             /\ UNCHANGED motion
  /\ tile' = [tile EXCEPT ![t] = IF saved[t] = grid.end[t] THEN "end" ELSE "save"]
  /\ UNCHANGED <<grid, saved, tail, reader, at>>

ParseFail(t) ==
  /\ tile[t] = "save"
  /\ tile' = [tile EXCEPT ![t] = "failed"]
  /\ UNCHANGED <<grid, saved, tileRows, motion, progress, tail, reader, at>>

\* tailLoop publishes the end, once every tile's parse has returned.
TailEnds ==
  /\ tail = "parse"
  /\ \A t \in GridTiles : tile[t] \in {"end", "failed"}
  /\ progress' = IF \E t \in GridTiles : tile[t] = "failed" THEN RowsFailed ELSE RowsDone
  /\ tail' = "end"
  /\ UNCHANGED <<grid, tile, saved, tileRows, motion, reader, at>>

\* WaitReferenceRows((miRow+rootSize)>>1)
NeedRows == at + ReadSb

WaitReferenceRows ==
  /\ reader = "wait" /\ at < GridHeight
  /\ progress >= NeedRows \/ progress = RowsFailed
  /\ reader' = IF progress = RowsFailed THEN "failed" ELSE "load"
  /\ UNCHANGED <<grid, tile, saved, tileRows, motion, progress, tail, at>>

\* loadTmvs reads the rows of the superblock that the grid has.
LoadRows ==
  /\ reader = "load"
  /\ at' = at + ReadSb
  /\ reader' = IF at' < GridHeight THEN "wait" ELSE "end"
  /\ UNCHANGED <<grid, tile, saved, tileRows, motion, progress, tail>>

TileRuns(t) == SaveRows(t) \/ PublishRows(t)
MotionNext == TailEnds \/ WaitReferenceRows \/ LoadRows \/ \E t \in GridTiles : TileRuns(t) \/ ParseFail(t)

MotionSpec == MotionInit /\ [][MotionNext]_motionVars

-----------------------------------------------------------------------------
\* "every 8x8 row above R is saved in every tile" (frame_thread.go:307-309):
\* while a row band is loaded, every tile has saved its rows of the band.
LoadsSaved ==
  reader = "load" =>
    \A t \in GridTiles : saved[t] >= Smaller(NeedRows, grid.end[t])

\* The later frame's block loop gets through, or learns that the rows failed.
ReaderEnds == <>(reader \in {"end", "failed"})
=============================================================================
