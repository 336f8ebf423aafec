--------------------------- MODULE ReconWavefront ---------------------------
(***************************************************************************)
(* The superblock-row wavefront of one tile (threading/wavefront_stream.go *)
(* and tile_residual.go): the entropy pass publishes parsed rows, lane l   *)
(* reconstructs rows l, l+LaneCount, ... from left to right, each          *)
(* superblock once its top and top-right neighbours are reconstructed, and *)
(* hands every finished row to the frame's post-filter.                    *)
(*                                                                         *)
(* Everything under the progress mutex is one step, except the wait on the *)
(* row above: publishRowProgress stores and tests the waiter count without *)
(* the mutex, so that wait registers, tests and sleeps in steps of its     *)
(* own.  Superblocks are columns; their events and pixels are abstracted   *)
(* to how many of a row are reconstructed.  A wait for reference rows is   *)
(* part of Reconstruct, or of ReconstructFail when the reference failed.   *)
(***************************************************************************)
EXTENDS Integers

CONSTANTS
  RowCount,  \* superblock rows of the tile
  ColCount,  \* superblocks of a row
  Workers,   \* wavefrontWorkers
  Free       \* nobody holds progress.mu

ASSUME WavefrontAssumption ==
  /\ RowCount \in Nat \ {0}
  /\ ColCount \in Nat \ {0}
  /\ Workers \in Nat \ {0}
  /\ Free \notin Nat

Rows == 0 .. RowCount - 1

\* startReconStream: workers := min(wavefrontWorkers, rowCount).
LaneCount == IF Workers < RowCount THEN Workers ELSE RowCount
Lanes == 0 .. LaneCount - 1

\* FrameProgressDone and FrameProgressError; every row count lies between.
Done == RowCount + 1
Error == -1

VARIABLES
  parse,      \* control point of the entropy pass and of the join
  split,      \* the frame is frame-threaded (wf.frameThread.Rows # nil)
  published,  \* wf.published
  aborted,    \* progress.aborted
  firstErr,   \* wf.firstErr # nil
  mu,         \* holder of progress.mu
  waiters,    \* progress.waiters
  done,       \* wf.done
  rec,        \* superblocks of each row really reconstructed
  pc, row, col,  \* control point and position of each lane
  tileRows,   \* the tile's row count in FrameThreadReconRows
  progress,   \* FrameThreadReconRows.published
  result      \* what the last join returned

parseVars == <<parse, split, result>>
sharedVars == <<published, aborted, firstErr>>
frameVars == <<tileRows, progress>>
vars == <<parseVars, sharedVars, mu, waiters, done, rec, pc, row, col, frameVars>>

\* "rows": before waitRows; "unparsed": asleep in waitRows; "gate": before the
\* wait on the row above; "register": before its mu.Lock; "check": holding mu;
\* "asleep", "woken": in its cond.Wait; "recon": let through; "store", "test",
\* "wake": in publishRowProgress; "after": reconstructRow returned; "claim":
\* before finishRows; "abort", "fail": after an error.
LanePoints ==
  {"rows", "unparsed", "gate", "register", "check", "asleep", "woken", "recon",
   "store", "test", "wake", "after", "claim", "abort", "fail", "ended"}

Init ==
  /\ parse = "idle" /\ split = FALSE /\ result = "none"
  /\ published = 0 /\ aborted = FALSE /\ firstErr = FALSE
  /\ mu = Free /\ waiters = 0
  /\ done = [r \in Rows |-> 0]
  /\ rec = [r \in Rows |-> 0]
  /\ pc = [l \in Lanes |-> "ended"]
  /\ row = [l \in Lanes |-> l]
  /\ col = [l \in Lanes |-> 0]
  /\ tileRows = 0 /\ progress = 0

\* cond.Broadcast: a lane asleep in waitRows locks and tests again at once.
Woken(point) ==
  [l \in Lanes |-> CASE point[l] = "unparsed" -> "rows"
                     [] point[l] = "asleep" -> "woken"
                     [] OTHER -> point[l]]

-----------------------------------------------------------------------------
(* The entropy pass and the join *)

\* startReconStream, with resetProgress and startLanes, in a frame whose
\* FrameThreadReconRows is reset and bound.  The scratch is free again:
\* joinWavefront, or the last frame's Join, waited for the last tile's lanes.
StartTile ==
  /\ parse = "idle"
  /\ parse' = "parsing"
  /\ split' \in BOOLEAN
  /\ published' = 0 /\ aborted' = FALSE /\ firstErr' = FALSE
  /\ done' = [r \in Rows |-> 0]
  /\ rec' = [r \in Rows |-> 0]
  /\ pc' = [l \in Lanes |-> "rows"]
  /\ row' = [l \in Lanes |-> l]
  /\ col' = [l \in Lanes |-> 0]
  /\ tileRows' = 0 /\ progress' = 0
  /\ UNCHANGED <<result, mu, waiters>>

\* streamBlockBegin at the first block of a row publishes the rows above it;
\* finishReconStream publishes the last one and leaves the lanes to the join.
PublishRows ==
  /\ parse = "parsing"
  /\ mu = Free
  /\ published' = published + 1
  /\ pc' = Woken(pc)
  /\ parse' = IF published' = RowCount THEN "join" ELSE "parsing"
  /\ UNCHANGED <<split, result, aborted, firstErr, mu, waiters, done, rec, row, col, frameVars>>

ParseFail ==
  /\ parse = "parsing"
  /\ parse' = "cancel"
  /\ UNCHANGED <<split, result, sharedVars, mu, waiters, done, rec, pc, row, col, frameVars>>

\* cancelLanes up to its wg.Wait.
CancelLanes ==
  /\ parse = "cancel"
  /\ mu = Free
  /\ aborted' = TRUE
  /\ pc' = Woken(pc)
  /\ parse' = "cancelled"
  /\ UNCHANGED <<split, result, published, firstErr, mu, waiters, done, rec, row, col, frameVars>>

\* FrameThreadReconRows.Fail.
FailedRows == IF progress # Done THEN Error ELSE progress

\* wg.Wait: finishLanes, or the end of cancelLanes after a parse error, for
\* which tailLoop also fails the frame's rows.
Join ==
  /\ parse \in {"join", "cancelled"}
  /\ \A l \in Lanes : pc[l] = "ended"
  /\ parse' = "idle"
  /\ result' = IF parse = "cancelled" \/ firstErr THEN "error" ELSE "ok"
  /\ progress' = IF split /\ parse = "cancelled" THEN FailedRows ELSE progress
  /\ UNCHANGED <<split, sharedVars, mu, waiters, done, rec, pc, row, col, tileRows>>

-----------------------------------------------------------------------------
(* A lane *)

Goto(l, point) == pc' = [pc EXCEPT ![l] = point]

\* Mutant: a lane without a parsed row spins and does not look at the abort.
WaitRowsSpins(l) ==
  /\ pc[l] = "rows"
  /\ mu = Free
  /\ IF published > row[l]
     THEN /\ Goto(l, IF aborted THEN "ended" ELSE "gate")
          /\ col' = [col EXCEPT ![l] = 0]
     ELSE UNCHANGED <<pc, col>>
  /\ UNCHANGED <<parseVars, sharedVars, mu, waiters, done, rec, row, frameVars>>

WaitRows(l) ==
  /\ pc[l] = "rows"
  /\ mu = Free
  /\ \/ /\ aborted
        /\ Goto(l, "ended")
        /\ UNCHANGED col
     \/ /\ ~aborted /\ published > row[l]
        /\ Goto(l, "gate")
        /\ col' = [col EXCEPT ![l] = 0]
     \/ /\ ~aborted /\ published <= row[l]
        /\ Goto(l, "unparsed")
        /\ UNCHANGED col
  /\ UNCHANGED <<parseVars, sharedVars, mu, waiters, done, rec, row, frameVars>>

\* Mutant: the gate waits for the top neighbour only.
NeedTop(l) == col[l] + 1

\* The superblocks of the row above that the next one reads: its top and
\* top-right neighbours, clamped to those the row has.
Need(l) == IF col[l] + 2 > ColCount THEN ColCount ELSE col[l] + 2
AboveReady(l) == row[l] > 0 => done[row[l] - 1] >= Need(l)

\* waitForRowProgress before it takes the lock; row 0 does not wait.
Gate(l) ==
  /\ pc[l] = "gate"
  /\ \/ /\ AboveReady(l)
        /\ Goto(l, IF row[l] > 0 /\ aborted THEN "after" ELSE "recon")
     \/ /\ ~AboveReady(l)
        /\ Goto(l, "register")
  /\ UNCHANGED <<parseVars, sharedVars, mu, waiters, done, rec, row, col, frameVars>>

\* Mutant: sleep without testing again under the lock.
RegisterSleeps(l) ==
  /\ pc[l] = "register"
  /\ mu = Free
  /\ waiters' = waiters + 1
  /\ Goto(l, "asleep")
  /\ UNCHANGED <<parseVars, sharedVars, mu, done, rec, row, col, frameVars>>

Register(l) ==
  /\ pc[l] = "register"
  /\ mu = Free
  /\ mu' = l
  /\ waiters' = waiters + 1
  /\ Goto(l, "check")
  /\ UNCHANGED <<parseVars, sharedVars, done, rec, row, col, frameVars>>

\* One pass of waitForRowProgress' loop.
Check(l) ==
  /\ pc[l] = "check"
  /\ mu' = Free
  /\ \/ /\ AboveReady(l) \/ aborted
        /\ waiters' = waiters - 1
        /\ Goto(l, IF aborted THEN "after" ELSE "recon")
     \/ /\ ~AboveReady(l) /\ ~aborted
        /\ Goto(l, "asleep")
        /\ UNCHANGED waiters
  /\ UNCHANGED <<parseVars, sharedVars, done, rec, row, col, frameVars>>

Relock(l) ==
  /\ pc[l] = "woken"
  /\ mu = Free
  /\ mu' = l
  /\ Goto(l, "check")
  /\ UNCHANGED <<parseVars, sharedVars, waiters, done, rec, row, col, frameVars>>

Reconstruct(l) ==
  /\ pc[l] = "recon"
  /\ rec' = [rec EXCEPT ![row[l]] = col[l] + 1]
  /\ Goto(l, "store")
  /\ UNCHANGED <<parseVars, sharedVars, mu, waiters, done, row, col, frameVars>>

ReconstructFail(l) ==
  /\ pc[l] = "recon"
  /\ firstErr' = TRUE
  /\ Goto(l, "abort")
  /\ UNCHANGED <<parseVars, published, aborted, mu, waiters, done, rec, row, col, frameVars>>

\* publishRowProgress: the store, ...
StoreDone(l) ==
  /\ pc[l] = "store"
  /\ done' = [done EXCEPT ![row[l]] = col[l] + 1]
  /\ Goto(l, "test")
  /\ UNCHANGED <<parseVars, sharedVars, mu, waiters, rec, row, col, frameVars>>

\* The next superblock, or the end of the row.
Advance(l, point) ==
  IF col[l] + 1 < ColCount
  THEN /\ pc' = [point EXCEPT ![l] = "gate"]
       /\ col' = [col EXCEPT ![l] = col[l] + 1]
  ELSE /\ pc' = [point EXCEPT ![l] = "after"]
       /\ UNCHANGED col

\* ... the load of the waiter count, ...
TestWaiters(l) ==
  /\ pc[l] = "test"
  /\ \/ /\ waiters = 0
        /\ Advance(l, pc)
     \/ /\ waiters # 0
        /\ Goto(l, "wake")
        /\ UNCHANGED col
  /\ UNCHANGED <<parseVars, sharedVars, mu, waiters, done, rec, row, frameVars>>

\* ... and the broadcast.
WakeWaiters(l) ==
  /\ pc[l] = "wake"
  /\ mu = Free
  /\ Advance(l, Woken(pc))
  /\ UNCHANGED <<parseVars, sharedVars, mu, waiters, done, rec, row, frameVars>>

NextRow(l, point) ==
  IF row[l] + LaneCount < RowCount
  THEN /\ Goto(l, point)
       /\ row' = [row EXCEPT ![l] = row[l] + LaneCount]
  ELSE Goto(l, "ended") /\ UNCHANGED row

\* Mutant: a row that stopped early on an abort is handed on.
AfterRowUnchecked(l) ==
  /\ pc[l] = "after"
  /\ \/ ~split /\ NextRow(l, "rows")
     \/ split /\ Goto(l, "claim") /\ UNCHANGED row
  /\ UNCHANGED <<parseVars, sharedVars, mu, waiters, done, rec, col, frameVars>>

\* runLane after reconstructRow: a frame-threaded lane tests for an abort.
AfterRow(l) ==
  /\ pc[l] = "after"
  /\ \/ ~split /\ NextRow(l, "rows")
     \/ split /\ aborted /\ Goto(l, "ended") /\ UNCHANGED row
     \/ split /\ ~aborted /\ Goto(l, "claim") /\ UNCHANGED row
  /\ UNCHANGED <<parseVars, sharedVars, mu, waiters, done, rec, col, frameVars>>

\* FrameThreadReconRows.finishRows in a frame of one tile.
FinishRows(l) ==
  /\ pc[l] = "claim"
  /\ tileRows' = IF tileRows < row[l] + 1 THEN row[l] + 1 ELSE tileRows
  /\ LET v == IF tileRows' < RowCount THEN tileRows' ELSE Done
     IN  progress' = IF v > progress /\ progress # Error THEN v ELSE progress
  /\ NextRow(l, "rows")
  /\ UNCHANGED <<parseVars, sharedVars, mu, waiters, done, rec, col>>

AbortLanes(l) ==
  /\ pc[l] = "abort"
  /\ mu = Free
  /\ aborted' = TRUE
  /\ pc' = [Woken(pc) EXCEPT ![l] = IF split THEN "fail" ELSE "ended"]
  /\ UNCHANGED <<parseVars, published, firstErr, mu, waiters, done, rec, row, col, frameVars>>

FailRows(l) ==
  /\ pc[l] = "fail"
  /\ progress' = FailedRows
  /\ Goto(l, "ended")
  /\ UNCHANGED <<parseVars, sharedVars, mu, waiters, done, rec, row, col, tileRows>>

LaneStep(l) ==
  \/ WaitRows(l) \/ Gate(l) \/ Register(l) \/ Check(l) \/ Relock(l)
  \/ Reconstruct(l) \/ ReconstructFail(l)
  \/ StoreDone(l) \/ TestWaiters(l) \/ WakeWaiters(l)
  \/ AfterRow(l) \/ FinishRows(l) \/ AbortLanes(l) \/ FailRows(l)

ParseStep == PublishRows \/ ParseFail \/ CancelLanes \/ Join

Next == StartTile \/ ParseStep \/ \E l \in Lanes : LaneStep(l)

Safety == Init /\ [][Next]_vars

\* Goroutines keep running, a superblock's reconstruction and its reference
\* wait end (RowGate, FramePipeline), and sync.Mutex starves nobody.
Fairness ==
  /\ SF_vars(ParseStep)
  /\ \A l \in Lanes : SF_vars(LaneStep(l))

Spec == Safety /\ Fairness

-----------------------------------------------------------------------------
TypeOK ==
  /\ parse \in {"idle", "parsing", "cancel", "join", "cancelled"}
  /\ split \in BOOLEAN /\ aborted \in BOOLEAN /\ firstErr \in BOOLEAN
  /\ result \in {"none", "ok", "error"}
  /\ published \in 0 .. RowCount
  /\ mu \in Lanes \cup {Free}
  /\ waiters \in 0 .. LaneCount
  /\ done \in [Rows -> 0 .. ColCount]
  /\ rec \in [Rows -> 0 .. ColCount]
  /\ pc \in [Lanes -> LanePoints]
  /\ row \in [Lanes -> Rows]
  /\ col \in [Lanes -> 0 .. ColCount - 1]
  /\ tileRows \in 0 .. RowCount
  /\ progress \in Error .. Done

\* A lane that predicts a superblock (reconstructRow, after its gate) finds the
\* row parsed, and its top and top-right neighbours reconstructed.
NeighboursReady ==
  \A l \in Lanes :
    pc[l] = "recon" =>
      /\ row[l] < published
      /\ rec[row[l]] = col[l]
      /\ row[l] > 0 => /\ rec[row[l] - 1] > col[l]
                       /\ col[l] + 1 < ColCount => rec[row[l] - 1] > col[l] + 1

\* "Progress holds the largest row R such that every row above R is
\* reconstructed": the rows finishRows hands to the post-filter are complete,
\* in whatever order the lanes finish and abort.
RowsFinal ==
  \A r \in Rows : r < tileRows \/ r < progress => rec[r] = ColCount

\* A lane asleep on the row above whose superblocks are done has a broadcast
\* coming, from a lane that has stored and will see it registered; none sleeps
\* through an abort or past the rows it waits for.
NoLostWakeup ==
  \A l \in Lanes :
    /\ pc[l] = "asleep" =>
         /\ ~aborted
         /\ AboveReady(l) =>
              \E k \in Lanes : pc[k] = "wake" \/ (pc[k] = "test" /\ waiters # 0)
    /\ pc[l] = "unparsed" => ~aborted /\ published <= row[l]

\* The join's error is the frame's: with no error every row is reconstructed
\* and handed on, and with an error the row progress has failed, so that the
\* post-filter waiting on it ends.
JoinTells ==
  parse = "idle" =>
    /\ result = "ok" => \A r \in Rows : rec[r] = ColCount
    /\ split => progress = IF result = "ok" THEN Done ELSE Error

\* Every tile is joined, also after a parse error or a failing lane: no lane
\* waits for a row that will never come.
TileJoined == parse # "idle" ~> parse = "idle"
=============================================================================
