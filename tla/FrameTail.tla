----------------------------- MODULE FrameTail -----------------------------
(***************************************************************************)
(* One context of the frame-thread ring from the moment runFrame hands it  *)
(* a frame until retire collects it: tailLoop and postLoop of              *)
(* decode_frame_thread.go, RunStepFrameThreaded, ApplyPost and FinishPost  *)
(* of decoder/frame_thread.go, the tile batches and the lanes they leave   *)
(* running (threading/frame_thread.go, wavefront_stream.go).               *)
(*                                                                         *)
(* The batches parse concurrently.  A batch owns one scratch, hence one    *)
(* wavefront, and parses its tiles one after the other; the lanes of a     *)
(* tile outlive its parse and are joined by the batch's next tile or by    *)
(* the tail.  The post-filter follows the reconstructed rows on its own    *)
(* goroutine.  Within a superblock row the lanes are ReconWavefront; here  *)
(* a row is reconstructed in one step.                                     *)
(***************************************************************************)
EXTENDS ReconRows, Sequences

CONSTANTS
  Batches,    \* the tile batches of the frame
  TilesOf,    \* TilesOf[b]: the tiles batch b parses, in order
  Sb,         \* luma rows of a superblock
  Workers     \* workers of the pool

TailAssumption ==
  /\ SpansAssumption
  /\ IsFiniteSet(Batches) /\ Batches # {}
  /\ TilesOf \in [Batches -> Seq(Tiles)]
  /\ Sb \in Nat \ {0}
  /\ Workers >= Cardinality(Batches)

\* The share of the workers each batch's lanes get.
Share == Max2(1, Workers \div Cardinality(Batches))
Lanes == 0 .. Share - 1
SbRows(t) == (End[t] - Start[t] + Sb - 1) \div Sb
FrameEnd == Max({End[t] : t \in Tiles})

VARIABLES
  tail,     \* control point of the tail goroutine
  perr,     \* parseFrame's error
  bpc,      \* control point of each batch's parse
  idx,      \* the tile the batch parses
  wf,       \* the batch's wavefront: tile, published SB rows, abort, error
  lane,     \* the wavefront's lanes
  pix,      \* SB rows of each tile whose pixels are reconstructed
  pending,  \* the batches whose lanes the frame's tail has to join
  joinErr,  \* Join's first error
  parsed,   \* fc.parsed
  post,     \* the post-filter goroutine
  filtered, \* rows its stages no longer write
  surface,  \* the progress of the frame's surface
  refs,     \* the progress of the surface it predicts from
  broke     \* some step of this frame failed (history)

tailVars == <<tail, perr, joinErr, parsed>>
batchVars == <<bpc, idx, wf, pending>>
postVars == <<post, filtered, surface>>
vars == <<reconVars, tailVars, batchVars, lane, pix, postVars, refs, broke>>

NoLane == [pc |-> "off", row |-> 0]

Init ==
  /\ used = {} /\ rows = [t \in Tiles |-> 0] /\ published = 0
  /\ tail = "idle" /\ perr = FALSE /\ joinErr = FALSE /\ parsed = 0
  /\ bpc = [b \in Batches |-> "off"]
  /\ idx = [b \in Batches |-> 1]
  /\ wf = [b \in Batches |-> [tile |-> TilesOf[b][1], pub |-> 0, aborted |-> FALSE, err |-> FALSE]]
  /\ pending = {}
  /\ lane = [b \in Batches |-> [w \in Lanes |-> NoLane]]
  /\ pix = [t \in Tiles |-> 0]
  /\ post = "off" /\ filtered = 0 /\ surface = Done
  /\ refs = Done
  /\ broke = FALSE

LanesOff(b) == \A w \in Lanes : lane[b][w].pc = "off"

(***************************************************************************)
(* The ring: runFrame's resets and hand-off, and retire.                   *)
(***************************************************************************)
Submit ==
  /\ tail = "idle"
  /\ ResetRows
  /\ parsed' = 0 /\ surface' = 0 /\ pending' = {}
  /\ tail' = "entropy" /\ perr' = FALSE /\ joinErr' = FALSE /\ broke' = FALSE
  /\ refs' \in {0, Done}
  /\ filtered' = 0
  /\ pix' = [t \in Tiles |-> 0]
  /\ UNCHANGED <<bpc, idx, wf, lane, post>>

\* retire: <-fc.done
Retire ==
  /\ tail = "done"
  /\ tail' = "idle"
  /\ UNCHANGED <<reconVars, perr, joinErr, parsed, batchVars, lane, pix, postVars, refs, broke>>

\* The frame it predicts from ends, or fails.
RefEnds ==
  /\ refs = 0
  /\ refs' \in {Done, Error}
  /\ UNCHANGED <<reconVars, tailVars, batchVars, lane, pix, postVars, broke>>

(***************************************************************************)
(* parseFrame on the context's goroutine.                                  *)
(***************************************************************************)
\* The frame's CDF or segmentation-map wait fails, or the step cannot be
\* prepared: the post-filter was not started.
EntropyRefused ==
  /\ tail = "entropy"
  /\ tail' = "fail" /\ perr' = TRUE /\ broke' = TRUE
  /\ UNCHANGED <<reconVars, joinErr, parsed, batchVars, lane, pix, postVars, refs>>

\* StartPost hands the frame to postLoop, which ApplyPost sends down one of
\* three paths: it waits for the entropy pass and every row, for the entropy
\* pass only, or for neither.
StartPost ==
  /\ tail = "entropy"
  /\ post = "off"
  /\ post' \in {"whole", "parsed", "follow"}
  /\ tail' = "bind"
  /\ UNCHANGED <<reconVars, perr, joinErr, parsed, batchVars, lane, pix, filtered, surface, refs, broke>>

\* ExecuteFrameWorkRunnerFrameThread: bind the tiles, start every batch.
Execute ==
  /\ tail = "bind"
  /\ BindTiles
  /\ bpc' = [b \in Batches |-> "tile"]
  /\ idx' = [b \in Batches |-> 1]
  /\ tail' = "batches"
  /\ UNCHANGED <<perr, joinErr, parsed, wf, pending, lane, pix, postVars, refs, broke>>

ExecuteRefused ==
  /\ tail = "bind"
  /\ tail' = "fail" /\ perr' = TRUE /\ broke' = TRUE
  /\ UNCHANGED <<reconVars, joinErr, parsed, batchVars, lane, pix, postVars, refs>>

\* parseWG.Wait; a retained context the update tile did not fill is an error
\* too.
BatchesDone ==
  /\ tail = "batches"
  /\ \A b \in Batches : bpc[b] \in {"ok", "err"}
  /\ \E unfilled \in BOOLEAN :
       /\ perr' = (unfilled \/ \E b \in Batches : bpc[b] = "err")
       /\ broke' = (broke \/ unfilled)
  /\ tail' = IF perr' THEN "fail" ELSE "entropyDone"
  /\ bpc' = [b \in Batches |-> "off"]
  /\ UNCHANGED <<reconVars, joinErr, parsed, idx, wf, pending, lane, pix, postVars, refs>>

\* tailLoop after a failed pass: the rows end in an error before anyone sees
\* that the pass has ended.
FailRows ==
  /\ tail = "fail"
  /\ Fail
  /\ tail' = "entropyDone"
  /\ UNCHANGED <<perr, joinErr, parsed, batchVars, lane, pix, postVars, refs, broke>>

\* fc.parsed and the entropy outputs end.
PublishParsed ==
  /\ tail = "entropyDone"
  /\ parsed' = IF perr THEN Error ELSE Done
  /\ tail' = "join"
  /\ UNCHANGED <<reconVars, perr, joinErr, batchVars, lane, pix, postVars, refs, broke>>

\* Join, after <-fc.postDone when the post-filter was started.
JoinLane(b) ==
  /\ tail = "join"
  /\ post \in {"off", "ok", "err"}
  /\ b \in pending /\ LanesOff(b)
  /\ pending' = pending \ {b}
  /\ joinErr' = (joinErr \/ wf[b].err)
  /\ UNCHANGED <<reconVars, tail, perr, parsed, bpc, idx, wf, lane, pix, postVars, refs, broke>>

\* Mutant: the tail forgets the post-filter's error.
FinishForgetsPost ==
  /\ tail = "join" /\ post \in {"off", "ok", "err"} /\ pending = {}
  /\ surface' = IF perr \/ joinErr THEN Error ELSE Done
  /\ post' = "off" /\ tail' = "done"
  /\ UNCHANGED <<reconVars, perr, joinErr, parsed, batchVars, lane, pix, filtered, refs, broke>>

\* The surface is final, fc.tailErr is set and fc.done sent.
Finish ==
  /\ tail = "join"
  /\ post \in {"off", "ok", "err"}
  /\ pending = {}
  /\ surface' = IF perr \/ joinErr \/ post = "err" THEN Error ELSE Done
  /\ post' = "off"
  /\ tail' = "done"
  /\ UNCHANGED <<reconVars, perr, joinErr, parsed, batchVars, lane, pix, filtered, refs, broke>>
(***************************************************************************)
(* A batch: DecodeAndReconstructJobResiduals for each of its tiles.        *)
(***************************************************************************)
\* The batch is finished, or joinWavefront takes its lanes off the pending
\* list, or nothing is pending.
NextTile(b) ==
  /\ bpc[b] = "tile"
  /\ bpc' = [bpc EXCEPT ![b] = IF idx[b] > Len(TilesOf[b]) THEN "ok"
                               ELSE IF b \in pending THEN "join" ELSE "start"]
  /\ pending' = IF idx[b] > Len(TilesOf[b]) THEN pending ELSE pending \ {b}
  /\ UNCHANGED <<reconVars, tailVars, idx, wf, lane, pix, postVars, refs, broke>>

JoinWavefront(b) ==
  /\ bpc[b] = "join"
  /\ LanesOff(b)
  /\ bpc' = [bpc EXCEPT ![b] = IF wf[b].err THEN "err" ELSE "start"]
  /\ UNCHANGED <<reconVars, tailVars, idx, wf, pending, lane, pix, postVars, refs, broke>>

\* startReconStream: a fresh wavefront and its lanes, sent to the lane group.
StartTile(b) ==
  /\ bpc[b] = "start"
  /\ LET t == TilesOf[b][idx[b]]
     IN /\ wf' = [wf EXCEPT ![b] = [tile |-> t, pub |-> 0, aborted |-> FALSE, err |-> FALSE]]
        /\ lane' = [lane EXCEPT ![b] = [w \in Lanes |->
             IF w < SbRows(t) THEN [pc |-> "wait", row |-> w] ELSE NoLane]]
  /\ bpc' = [bpc EXCEPT ![b] = "parse"]
  /\ UNCHANGED <<reconVars, tailVars, idx, pending, pix, postVars, refs, broke>>

\* The tile cannot be set up: no lane was started.
StartRefused(b) ==
  /\ bpc[b] = "start"
  /\ bpc' = [bpc EXCEPT ![b] = "err"]
  /\ broke' = TRUE
  /\ UNCHANGED <<reconVars, tailVars, idx, wf, pending, lane, pix, postVars, refs>>

\* The first block of a row publishes the rows above it.
ParseRow(b) ==
  /\ bpc[b] = "parse"
  /\ wf[b].pub + 1 < SbRows(wf[b].tile)
  /\ wf' = [wf EXCEPT ![b].pub = @ + 1]
  /\ UNCHANGED <<reconVars, tailVars, bpc, idx, pending, lane, pix, postVars, refs, broke>>

\* finishReconStream: the last row, and the lanes are left to the tail.
ParseEnd(b) ==
  /\ bpc[b] = "parse"
  /\ wf[b].pub + 1 = SbRows(wf[b].tile)
  /\ wf' = [wf EXCEPT ![b].pub = @ + 1]
  /\ pending' = pending \cup {b}
  /\ idx' = [idx EXCEPT ![b] = @ + 1]
  /\ bpc' = [bpc EXCEPT ![b] = "tile"]
  /\ UNCHANGED <<reconVars, tailVars, lane, pix, postVars, refs, broke>>

\* cancelLanes after a parse error: abort, then join.
ParseFail(b) ==
  /\ bpc[b] = "parse"
  /\ wf' = [wf EXCEPT ![b].aborted = TRUE]
  /\ bpc' = [bpc EXCEPT ![b] = "cancel"]
  /\ broke' = TRUE
  /\ UNCHANGED <<reconVars, tailVars, idx, pending, lane, pix, postVars, refs>>

CancelLanes(b) ==
  /\ bpc[b] = "cancel"
  /\ LanesOff(b)
  /\ bpc' = [bpc EXCEPT ![b] = "err"]
  /\ UNCHANGED <<reconVars, tailVars, idx, wf, pending, lane, pix, postVars, refs, broke>>

(***************************************************************************)
(* A lane: runLane.                                                        *)
(***************************************************************************)
SetLane(b, w, pc) == lane' = [lane EXCEPT ![b][w].pc = pc]

\* waitRows; the row then needs reference rows, or none.
LaneRow(b, w) ==
  /\ lane[b][w].pc = "wait"
  /\ wf[b].aborted \/ wf[b].pub > lane[b][w].row
  /\ \E next \in {"ref", "recon"} : SetLane(b, w, IF wf[b].aborted THEN "off" ELSE next)
  /\ UNCHANGED <<reconVars, tailVars, batchVars, pix, postVars, refs, broke>>

\* waitSuperblockReferences: it does not look at the abort.
LaneRef(b, w) ==
  /\ lane[b][w].pc = "ref"
  /\ refs # 0
  /\ SetLane(b, w, IF refs = Error THEN "error" ELSE "recon")
  /\ broke' = (broke \/ refs = Error)
  /\ UNCHANGED <<reconVars, tailVars, batchVars, pix, postVars, refs>>

\* reconstructRow, behind the row above, or stopped early by the abort.
LaneRecon(b, w) ==
  /\ lane[b][w].pc = "recon"
  /\ \/ /\ pix[wf[b].tile] = lane[b][w].row
        /\ pix' = [pix EXCEPT ![wf[b].tile] = @ + 1]
     \/ /\ wf[b].aborted
        /\ UNCHANGED pix
  /\ SetLane(b, w, "report")
  /\ UNCHANGED <<reconVars, tailVars, batchVars, postVars, refs, broke>>

LaneError(b, w) ==
  /\ lane[b][w].pc = "recon"
  /\ SetLane(b, w, "error")
  /\ broke' = TRUE
  /\ UNCHANGED <<reconVars, tailVars, batchVars, pix, postVars, refs>>

\* The first error is recorded and every waiter of the wavefront released.
LaneAbort(b, w) ==
  /\ lane[b][w].pc = "error"
  /\ wf' = [wf EXCEPT ![b].aborted = TRUE, ![b].err = TRUE]
  /\ SetLane(b, w, "failing")
  /\ UNCHANGED <<reconVars, tailVars, bpc, idx, pending, pix, postVars, refs, broke>>

LaneFail(b, w) ==
  /\ lane[b][w].pc = "failing"
  /\ Fail
  /\ SetLane(b, w, "off")
  /\ UNCHANGED <<tailVars, batchVars, pix, postVars, refs, broke>>

\* finishRows and on to the lane's next row, unless the wavefront was aborted.
LaneReport(b, w) ==
  /\ lane[b][w].pc = "report"
  /\ IF wf[b].aborted
     THEN lane' = [lane EXCEPT ![b][w] = NoLane] /\ UNCHANGED reconVars
     ELSE /\ FinishRows(wf[b].tile, Start[wf[b].tile] + (lane[b][w].row + 1) * Sb)
          /\ lane' = [lane EXCEPT ![b][w] =
               IF lane[b][w].row + Share < SbRows(wf[b].tile)
               THEN [pc |-> "wait", row |-> lane[b][w].row + Share] ELSE NoLane]
  /\ UNCHANGED <<tailVars, batchVars, pix, postVars, refs, broke>>

(***************************************************************************)
(* The post-filter goroutine: ApplyPost and the row pipeline's waits.      *)
(***************************************************************************)
PostStays == UNCHANGED <<reconVars, tailVars, batchVars, lane, pix, refs>>

\* parsed.Wait(FrameProgressDone)
PostParsed ==
  /\ post \in {"whole", "parsed"}
  /\ parsed # 0
  /\ post' = IF parsed = Error THEN "err" ELSE IF post = "whole" THEN "rows" ELSE "follow"
  /\ PostStays /\ UNCHANGED <<filtered, surface, broke>>

\* recon.Wait(FrameProgressDone), and the whole-frame chain.
PostWhole ==
  /\ post = "rows"
  /\ published \in {Done, Error}
  /\ IF published = Error
     THEN post' = "err" /\ UNCHANGED filtered
     ELSE post' = "ok" /\ filtered' = FrameEnd
  /\ PostStays /\ UNCHANGED <<surface, broke>>

\* The rows the region at row y waits for: its own and the superblock row
\* below, whose intra prediction reads the region's last row unfiltered.
Need(y) == IF y + Sb >= FrameEnd THEN Done ELSE y + 2 * Sb

\* waitRecon, the region's stages, and the rows they leave final.
PostRegion ==
  /\ post = "follow"
  /\ filtered < FrameEnd
  /\ published >= Need(filtered) \/ published = Error
  /\ IF published = Error
     THEN post' = "err" /\ UNCHANGED <<filtered, surface>>
     ELSE /\ filtered' = filtered + Sb
          /\ surface' = IF filtered' < FrameEnd THEN filtered' ELSE surface
          /\ UNCHANGED post
  /\ PostStays /\ UNCHANGED broke

\* The last wait, before the borders are padded.
PostEnd ==
  /\ post = "follow"
  /\ filtered >= FrameEnd
  /\ published \in {Done, Error}
  /\ post' = IF published = Error THEN "err" ELSE "ok"
  /\ PostStays /\ UNCHANGED <<filtered, surface, broke>>

\* A stage fails.
PostFail ==
  /\ post \in {"rows", "follow"}
  /\ post' = "err"
  /\ broke' = TRUE
  /\ PostStays /\ UNCHANGED <<filtered, surface>>

Ring == Submit \/ Retire \/ RefEnds
TailLoop ==
  \/ EntropyRefused \/ StartPost \/ Execute \/ ExecuteRefused \/ BatchesDone
  \/ FailRows \/ PublishParsed \/ (\E b \in Batches : JoinLane(b)) \/ Finish
Batch(b) ==
  \/ NextTile(b) \/ JoinWavefront(b) \/ StartTile(b) \/ StartRefused(b)
  \/ ParseRow(b) \/ ParseEnd(b) \/ ParseFail(b) \/ CancelLanes(b)
Lane(b, w) ==
  \/ LaneRow(b, w) \/ LaneRef(b, w) \/ LaneRecon(b, w) \/ LaneError(b, w)
  \/ LaneAbort(b, w) \/ LaneFail(b, w) \/ LaneReport(b, w)
Post == PostParsed \/ PostWhole \/ PostRegion \/ PostEnd \/ PostFail

Next ==
  \/ Ring \/ TailLoop \/ Post
  \/ \E b \in Batches : Batch(b) \/ \E w \in Lanes : Lane(b, w)

\* Every goroutine runs when it can, and nothing has to fail: a lane or the
\* post-filter that waits is not released by an error of its own.  The frame
\* predicted from ends.
LaneRuns(b, w) ==
  LaneRow(b, w) \/ LaneRef(b, w) \/ LaneRecon(b, w) \/ LaneAbort(b, w) \/ LaneFail(b, w) \/ LaneReport(b, w)
PostRuns == PostParsed \/ PostWhole \/ PostRegion \/ PostEnd
Fairness ==
  /\ WF_vars(RefEnds) /\ WF_vars(TailLoop) /\ WF_vars(PostRuns)
  /\ \A b \in Batches : WF_vars(Batch(b)) /\ \A w \in Lanes : WF_vars(LaneRuns(b, w))

Spec == Init /\ [][Next]_vars /\ Fairness

(***************************************************************************)
(* Properties                                                              *)
(***************************************************************************)
\* "every row above R is reconstructed in every tile"
\* (frame_thread_reconrows.go:18-19): whatever order the lanes of the tiles
\* report in, the count finishRows publishes covers only reconstructed rows.
RowsReconstructed ==
  \A t \in used : published > Start[t] =>
    Start[t] + pix[t] * Sb >= Min2(published, End[t])

\* The post-filter rewrites a row only after the superblock row below it, whose
\* intra prediction reads that row, is reconstructed in every tile
\* (postfilter_rowpipe.go:29-32).
FilterBehindRecon ==
  \A t \in used : filtered > 0 /\ filtered + Sb > Start[t] =>
    Start[t] + pix[t] * Sb >= Min2(filtered + Sb, End[t])

\* When the tail has sent done, and until the next frame, no lane, batch or
\* post-filter of the frame still touches the surface or the context.
FinalQuiet ==
  tail \in {"done", "idle"} =>
    /\ post = "off" /\ pending = {}
    /\ \A b \in Batches : bpc[b] = "off" /\ LanesOff(b)

\* A batch takes its wavefront for a new tile only when no lane of the
\* previous tile, or frame, still reads the buffered events.
WavefrontJoined ==
  \A b \in Batches : bpc[b] = "start" => LanesOff(b)

\* The surface ends in an error exactly when some step of the frame failed:
\* no failed lane, batch or stage is lost on the way to the tail, and none is
\* made up.
FailureTold ==
  tail = "done" => (surface = Error <=> broke)

\* Every frame handed to the context ends, failed or not.
FrameEnds == tail = "entropy" ~> tail = "done"
=============================================================================
