# A TLA+ model of goav1

goav1 is an AV1 decoder, a realtime encoder and a set of RTP/RTCP helpers in
Go.  This directory models the parts of it whose correctness is a matter of
*who may touch what, when*: surfaces shared by frames that decode concurrently,
rows handed from one stage to the next, pictures, packets and coded units that
must come out whole and in order whatever fails on the way.

## 1. The system

| Part | State | What makes it hard |
| --- | --- | --- |
| Frame-threaded ring (`decode_frame_thread.go`) | ring of frame contexts, `next`, `ready`, `err`, one progress per surface | N tails decode at once, each reading surfaces older tails still write; outputs leave one call later; failures arrive at retire |
| Surfaces (`decoder/surface.go`, `surface_pool.go`, `work.go`, `frame/pool.go`, `decode_simple.go`) | free list, reference slots, the active frame's target, `shownHeld` | one surface is reachable from a slot, an in-flight frame, a returned batch; three code paths return it to the pool |
| Serial decode call (`decode_simple.go`, `decoder_residual_stream.go`, `decoder/stream.go`, `work.go`) | the parser's references, the pending events, the frame under way | the parser runs a payload ahead of the surfaces; a call may fail anywhere and the next one continues |
| Frame progress (`threading/frame_thread.go`) | an atomic row count, a mutex, a condition variable | lost wake-ups; unlocked fast path; terminal values |
| Motion rows (`FrameThreadMotion`, `tile/block_loop.go`) | rows saved per tile, published minimum | tiles finish out of order; nobody but the tail publishes the end |
| Frame context (`tailLoop`, `postLoop`, tile batches, `frame_thread_reconrows.go`) | parse, lanes, post-filter and tail of one frame | five goroutines hand rows and errors to each other and must all be gone before the context is reused |
| Reconstruction wavefront (`threading/wavefront_stream.go`, `tile_residual.go`) | per-row parsed and reconstructed columns, lanes | lanes follow a parser that may fail |
| Row-pipelined post-filter (`decoder/postfilter_rowpipe.go`) | regions deblocked, unit rows, stripes claimed and done, published prefix | three in-place filters on one surface, each reading rows its neighbours rewrite |
| Entropy handles (`decoder/work.go`, `segmap.go`, `decoder/frame_thread.go`) | reference counts and progress per CDF entry, MV grid, segmentation map | slots name what is not decoded yet; capacity over frames in flight |
| RTP sequencer, cache and RTX (`rtp_packet_sequencer.go`, `rtp_retransmission.go`) | slots indexed by sequence number modulo window | 16-bit wrap, loss, reordering, duplication |
| RTP packetizer, assembler, depacketizer (`internal/av1/rtp`) | packet plans, partial OBU | length fields whose size depends on what they count; fragments across lost packets |
| Encoder pipeline (`encoder/video_pipeline.go`, `video.go`) | held source, leaf and filter workers, shared planes | a leaf is coded beside the next base and the bytes must not tell |
| Encoder wavefront (`encoder/pframe_wavefront.go`, `tile/block_loop_decide.go`) | row progress, above row, two diagonal planes | lanes and the entropy pass share contexts; spin, park, abort |

`PROJECT.json` lists every component with its status, maps each definition to
the lines it models and names, under `hazards`, where the code is exposed to
what a test would hardly reach.

The parts interact as follows.  A call of `DecodeNext` parses a payload into
events (`SerialDecode`).  An eligible frame goes to the ring (`FramePipeline`),
which acquires its surface from the pool (`SurfacePool`), its entropy inputs and
outputs from the handle pools (`EntropyHandles`) and hands both to a context
(`FrameTail`).  The context's batches parse tiles; as they parse, they save
motion rows (`MotionRows`) and feed the lanes of a wavefront (`ReconWavefront`);
finished rows are counted (`ReconRows`) and filtered (`RowPipe`), and final rows
are published on the surface (`FrameProgress`) for the frames that predict from
it.  Payloads arrive as RTP packets (`SequencerOps`, `RtpRepair`) whose
payloads (`PacketPlans`) are turned back into OBUs (`FrameAssembly`,
`RtpReceive`).  Each module states what it takes from its neighbours as an
action or a guard: `FrameTail` has a row of a lane where `ReconWavefront` has
its superblocks, `FramePipeline` a tail where `FrameTail` has its goroutines,
and both use the pool and the progress as the abstract specifications
`FreeSurfaces` and `RowGate` describe them.

## 2. Modules

| Module | Models | Role |
| --- | --- | --- |
| `FramePipeline` | `decode_frame_thread.go`, surface bookkeeping of `decode_simple.go`, `decoder/work.go`, `surface.go`, `surface_pool.go` | the core: one decode goroutine, N tails, the surfaces they share |
| `OutputOrder` | what `DecodeNext` promises about order | abstract specification of `FramePipeline` (`InOrder`) |
| `FramePipelineInv`, `FramePipelineProofs` | | the two inductive invariants, step lemmas, proofs of ownership and of the surface accounts |
| `SurfacePool`, `FreeSurfaces`, `SurfacePoolProofs` | `frame/pool.go` | the LIFO free list, the set of free surfaces it implements (`ImplementsFree`), proofs |
| `SerialDecode`, `SerialDecodeProofs` | one call without frame threading | parser, events, slots, pool and failures; proofs |
| `FrameProgress`, `RowGate` | `threading/frame_thread.go` | the monitor with every shared access a step, the atomic wait it implements (`ImplementsGate`) |
| `MotionRows` | `FrameThreadMotion` and the block loop's calls | motion rows of one frame and a later frame that loads them |
| `RowProofs` | | proofs about `FrameProgress` and `MotionRows` |
| `ReconRows`, `FrameTail` | `frame_thread_reconrows.go`; `tailLoop`, `postLoop`, `RunStepFrameThreaded`, `ExecuteFrameWorkRunnerFrameThread`, `Join` | one context of the ring, frame after frame |
| `ReconWavefront`, `ReconWavefrontProofs` | `wavefront_stream.go`, `waitForRowProgress`, `publishRowProgress`, `reconstructRow`, `finishRows` | one tile's parse and its lanes, proofs |
| `RowPipe` | `postfilter_rowpipe.go` | driver, unit workers, stripes |
| `EntropyHandles`, `EntropyHandlesProofs` | saved CDFs, MV grids, segmentation maps | reference counts, capacity, waits; a behaviour follows one kind of handle; proofs |
| `SequencerOps`, `PacketSequencer` | `rtp_packet_sequencer.go` | its operations as operators, and any sequence of calls |
| `RtpRepair` | `rtp_retransmission.go` with the sequencer | sender, cache, lossy network, receiver |
| `PacketPlans`, `Packetizer`, `FrameAssembly` | `packetizer.go`, `payload.go`, `assembler.go` | planning and writing as functions of OBU sizes, one packet a step, and the assembler's two passes |
| `RtpReceive` | `depacketizer.go` under its two callers | fragments, losses, failing units |
| `EncoderPipeline`, `EncoderPipelineProofs` | `video_pipeline.go` and the state of `video.go` | calls, leaf worker, filter worker, against the serial encoder as a ghost; proofs |
| `EncoderWavefront`, `EncoderWavefrontProofs` | `pframe_wavefront.go`, `block_loop_decide.go` | lanes, entropy pass, every atomic operation a step; proofs |
| `MCRingEvents`, `MCFramePipeline` | | instances of the ring |
| `MCSurfaces`, `MCRows`, `MCWavefront`, `MCContexts`, `MCRtp`, `MCEncoder` | | instances of the others |

The last six put several small instances side by side: a variable `part`,
chosen in the initial state and never changed, says which of them runs, the
others stand still, and a property speaks of the part it is about.  The state
space is the sum of the instances', not their product.

### 2.1 FramePipeline

The state is the code's: `free` is the pool, `slot` the `SurfaceReferences`,
`fc` the ring of `decoderFrameContext`, `next` the ring index, `progress` one
`FrameProgress` per surface, `active` the begun and unfinished frame of
`FrameWorkState`, `ready` the pictures of the call, `err` the pipeline's sticky
error, `shown` is `shownHeld`.  `pc` is where the decode goroutine stands; it is
the only writer of everything but `progress` and its own context's fields, which
the tails write.

| Action | Code |
| --- | --- |
| `CallNext`, `CallDrain`, `Return` through `End*` | `DecodeNext`, `decodeNextFrameThreaded`, `publishFrameThreadedOutputs` with `trackShownSurfaces`, `takeErr` |
| `TakeContext`, `RetireTaken`, `ReclaimOldest`, `RunFrame`, `RunFrameFails` | `runFrame`: the context it takes, the retire of what the context held, `retireOldest` while the pool is empty, the plan and the hand-off to the tail, and its error returns |
| `ShowExisting` | `showExisting`, parked in the ring behind the frames in flight |
| `Drain` | one iteration of `drain` |
| `SerialBegin`, `SerialFinish`, `SerialRefused`, `ShowExistingSerial`, `TemporalDelimiter`, `NewSequence` | events that drain the ring and run on the decode goroutine |
| `TailRead`, `TailRows`, `TailDone`, `TailFail` | a tail: last read of a reference, first rows of its own target, final publication |
| `CallerDrain`, `Reset`, `Close` | `Decoder.Reset`, `Decoder.Close` |

Pixels become ownership: a surface is free, held by slots, written by a frame,
read by a frame, or behind a returned picture.  Row counts become none, some,
all, failed; the rows themselves are the subject of the modules below.  The
pool hands out any free surface, so nothing depends on its LIFO order.
`Inputs` selects the events a stream contains, so a property that is only
promised for streams without errors is checked on those.

### 2.2 SurfacePool and SerialDecode

`SurfacePool` is `Pool` with its `free` stack, `used` flags and the format each
slot is bound to; callers pass any indices, right and wrong, alone and in
batches.  `FreeSurfaces` keeps only the set of free slots.

`SerialDecode` is one call after another.  `Call` is the start of `DecodeNext`
with `releaseShownSurfaces`; each `Push*` action is one unit through
`PushUnitInto`, which appends an event and changes the parser's `refs` at once;
`RunParsedEvents` turns to the events, each `Run` one event through
`PlanEvent`, the tile work and `Finish`, `Abort` or `ShowExisting`; `Return` ends
the call with `trackShownSurfaces`.  `Refuse` and `RunFails` end it early and
leave everything where it stands, as the code does.  A frame is an identity;
`content` says which frame, and how much of it, a surface holds.  A payload is
a temporal unit of one spatial layer (`MayFollow`).  The frames a stream may
contain are `Templates`; `NoOrphans` says that each is shown or kept in a slot.
A frame that is neither would keep its surface until `Reset`: `Finish` returns
what the slots drop and the next call what was shown, and it is neither.  Two
theorems and the run assume `NoOrphans`.

### 2.3 FrameProgress, RowGate and MotionRows

`Wait` is its unlocked load, its lock with the increment of `waiters`, its locked
test, the sleep that releases the mutex, and the wake-up that takes it again;
`Publish` is its lock, its store, and its test of `waiters` with the broadcast.
`RowGate` has none of that: a waiting caller passes when its rows are there and
is told when the frame failed.

`MotionRows` has the tiles of a frame saving their rows (`SaveRows`) and
publishing them (`PublishRows`, `publishTile` under its mutex), a tail that
publishes the end (`TailEnds`), and the block loop of a later frame
(`WaitReferenceRows`, `LoadRows`).  Saving and publishing are two steps.  `Grids`
are the layouts of tiles a behaviour may choose from.

### 2.4 ReconWavefront, ReconRows and FrameTail

A tile's parse goroutine publishes rows of parsed superblocks; `LaneCount` lanes
take rows round-robin, wait for the row to be parsed, then for each superblock
wait until the row above is two superblocks ahead (`Need`), reconstruct, store
their progress and wake the lanes registered as waiting.  A lane or the parser
may fail at any point; the others are cancelled and joined.  With `split` the
rows are handed to the post-filter through `finishRows`, else nobody listens.
`rec` is a history of what is really reconstructed, `done` what was published.

`FrameTail` is a whole context: `Submit` and `Retire` are the ring's side,
`Execute`, `BatchesDone`, `PublishParsed`, `JoinLane` and `Finish` the tail
goroutine, `NextTile` to `ParseEnd` a batch, `Lane*` the lanes it starts and
leaves running, `Post*` the post-filter goroutine, `RefEnds` the reference the
lanes wait for (another context, hence external).  Here a lane reconstructs a
superblock row in one step.  `ReconRows` is the table the lanes report to.

### 2.5 RowPipe

The driver's two loops (`WaitRegion`, `Deblock`, `WaitUnit`, `Save`, `Announce`,
`Send`), the unit workers (`Take`, `CdefUnit`, `Claim`, `RunStripe`,
`FinishUnit`) and every error return.  A unit row of 64 luma rows is cut into
six bands exactly where a stage's reach ends, so "two rows below" or "six rows
above" is a band; the sample data of a band is the stage it went through.  While
an actor is about to take a step that touches samples, `DriverReads`,
`UnitWrites` and so on say which bands it is reading and writing, which is what
lets `NoOverlap` see two goroutines in the same rows.

### 2.6 EntropyHandles

`Submit` is the planner's half of `runFrame`: it acquires what the frame writes,
holds what it reads and names its output in the slots.  `Wait`, `SaveCDF`,
`ParseEnd`, `GridFailed` and `ParseFail` are the pass; `Retire` drops the holds.
`Serial`, `ShowExistingKey`, `NewSequence` and `Reset` are the other writers of
the slots.  The variable `kind`, chosen in the initial state, selects the pool;
the three have the same life cycle and meet only in that one failing fails the
pass, which `ParseFail` stands for.  `ReleaseAll` keeps the width of the counts:
`releaseMVGrid` decrements a `uint8` without a test and would wrap, the other
two releases stop at 0.

### 2.7 RTP

`SequencerOps` has the sequencer's functions on its state, over 16-bit numbers.
`PacketSequencer` calls them in any order; `RtpRepair` puts them behind a
network that loses, duplicates and reorders packets, NACKs and
retransmissions, with the sender's cache at the other end.  `PacketPlans` is
both passes of `PacketizeOBUs`, the aggregation header and the payload
iterator: bytes are their position in an OBU, lengths are LEB128 lengths.
`FrameAssembly` is the assembler's scan and write pass.  `RtpReceive` is
`Depacketizer.Push` with the buffer handling of `runRTPPayloadAfterLoss` or of
`LayeredDecoder.pushPayload`; of the parser it keeps what makes a unit fail.

### 2.8 Encoder

`EncoderPipeline`: `EncodeThroughput`, `Drain` and `Recon` are the caller's,
`Join`, `Code`, `Finish`, `Collect` the steps of a call that holds or overlaps
frames, `LeafStart`, `LeafEnd` and `LeafFails` the leaf worker, `FilterEnd` the
filter worker.  A unit is what its bytes are computed from: its source, layer
and index, the reconstruction it predicts from, the symbol context and search
source it reads.  Planes are written in two halves, so a reader beside a writer
is visible in the unit.  `serial` is the encoder without pipelining fed with
the same calls.  `mode` is the configuration, chosen in the initial state
from `Modes`: the temporal layers, whether there is a filter worker, whether
leaves may fail.

`EncoderWavefront`: each atomic operation and critical section of
`publishRowProgress`, `waitRowProgress` and `abort` is a step, of the lanes and
of the entropy pass that follows them; `above` and `diag` hold the row whose
contexts were stored there last.  A frame has 2 to `MaxRows` superblock rows: for
one row the callers decide serially.  `ContextsSerial` is the conjunction of what
the lanes read (`CarriersSerial`), what the entropy pass replays
(`ReplayComplete`), the wake-ups (`NoLostWakeup`), the result of a frame
(`ErrorsReported`) and the quiet between frames (`QuietBetweenFrames`).

## 3. Runs

| Run | Instance | What it shows |
| --- | --- | --- |
| `ring` | 2 slots, 2 contexts, 7 surfaces; payloads of 2 frames or shows, or of one event of any kind with `Reset` and `Close` | pictures of a call stay intact, nothing leaks, the pool suffices, submission order |
| `ring_faults` | 1 slot, 2 contexts; payload, event and frame errors | ownership survives every error path |
| `ring_live` | 1 slot, 2 contexts, fair goroutines | every tail finishes, every call returns |
| `surfaces` | pool: 3 slots, 3 formats, batches of 3; decoder: 2 slots, 3 surfaces, 4 frames of 2 tiles, payloads of 2 units, any failing | the pool implements a set; no surface is lost, a new sequence with a key frame is always decoded, parser and surfaces agree |
| `rows` | 3 waiters; 4 tiles and 1 tile of motion rows; post-filter of 3 unit rows, all stage combinations, 2 workers, channel of 1 | no lost wake-up, `RowGate` implemented, rows read only when saved, filter stages in order, everybody ends |
| `wavefront` | 4 rows of 3 superblocks on 3 lanes; a context with two tiles in one batch | gates, row hand-off, wake-ups; every tile and every frame ends |
| `contexts` | each handle pool with 2 slots and 2 frames in flight; a context with 2 batches of 2 tiles, 2 lanes each | counts exact, pools large enough, inputs stable, no cyclic wait; published rows are reconstructed, failures reach the surface, nothing runs on |
| `rtp` | 5 packets, window and cache of 8; 4 packets, window and cache of 2 with gaps given up; windows of 8 and 32 around the wrap; small and long payloads; 12 OBUs with every pattern of losses | order, loss marks, NACK pairs, bytes and fragments exact; gaps close |
| `encoder` | 1 layer, 4 sources; 2 and 3 layers, 9 sources; failing leaves, 6 sources; 2 lanes, 2 or 3 rows of 2 columns, 2 frames | same units as the serial encoder one call later, contexts of the serial walk, everything ends |
| `ring_serial_final`, `ring_new_sequence`, `ring_lost_batch` | smallest instances | violations, section 6 |

Bounds.  Two contexts are the smallest ring with a frame that overtakes another;
the ring index wraps after two frames.  Two slots let one be dropped while the
other still names the same surface.  `MaxEvents` bounds what one payload holds,
so the ring is drained and refilled across calls without the state growing.
Three lanes over four rows give a lane a second row, a lane above and a lane
below; three columns have a left edge, an inner superblock and a right edge
where the gate is clipped.  Three unit rows are a region and a half, with a
first, an inner and a last unit row; a channel of one and two workers block the
driver, which the code's 64 does only on large frames.  Two columns and three
rows of the encoder's wavefront use each diagonal plane twice.  `SpinBudget` 1
stands for 96: a spin either sees the progress or not.  `MaxErrors` bounds how
many handles fail at once; two slots with failures and CDFs together are out of
reach, so two slots are explored without failing passes and one slot with them.
The packetizer's limits leave out reductions that leave no room for an OBU byte.

Surfaces are interchangeable; the ring runs use a VIEW that counts surfaces by
role (`MCFramePipeline!View`), which is the symmetry reduction without its
factorial cost, and the liveness run instead acquires the least of the
indistinguishable surfaces (`Canonical`).  `surfaces` uses symmetry of the
surfaces and `contexts` of the slots; they check no liveness.

Deadlock is checked except in `rtp` and `encoder`, whose inputs are bounded:
with the last packet received or the last source encoded nothing is left to do.
A closed decoder and a finished reader of motion rows stutter explicitly.

Fairness.  Weak fairness of each goroutine's steps: the Go scheduler runs
runnable goroutines.  Nothing makes a caller call again and nothing makes a
step fail, so failing actions are never fair.  `FrameProgress` and
`ReconWavefront` use strong fairness because a mutex is momentarily held by
others infinitely often and `sync.Mutex` hands itself to a waiter that starved
for a millisecond.  `GapsClose` assumes that the receiver keeps asking and that
an answer, and the packet the receiver waits for, get through if sent again and
again (strong fairness of `Answer` and `Repaired`); the network may lose
everything else.

## 4. Theorems

All proofs hold for every value of the constants that the assumptions
`RingAssumption`, `SurfaceCount`, `PoolAssumption`, `ProgressAssumption`,
`HandleAssumption`, `SerialAssumption`, `MotionAssumption`, `PipelineAssumption`
and the `WavefrontAssumption` of either wavefront allow.

* `TypeCorrect`: the ring's type invariant, for all inputs.
* `ReadsStaySafe`, `WritersAreAlone`, `SurfacesReleasedOnce`, `WaitsAreServed`,
  `BatchStaysIntact`: ownership for streams of frame-threadable frames, shows,
  errors, `Reset` and `Close` (`AllThreadable`).  None of the five is inductive.
  The invariant `RingInv` says why a surface that somebody needs is not free: a
  target is dropped or shown only by younger frames (`TargetInv`); a parked
  picture or an unread reference is in a slot, or in the releases of a frame that
  does not retire before its reader (`ParkedInv`, `ReferenceInv`); progress that
  is not final has a running producer (`ProgressInv`).  What makes it inductive
  is the order of the ring: `Retire` only ever takes the oldest frame
  (`OldestOlder`), a frame taken becomes the youngest (`TakenYoungest`), and both
  leave the order of the others alone (`Reorder`).  Streams with serial frames
  or new sequences stay with TLC: one of them violates `BatchIntact` (section 6).
* `NothingLost` and `PoolLargeEnough`, for streams of
  threadable frames without failures, with new sequences, `Reset` and `Close`
  (`Clean`).  Two hypotheses bound the payload.  `FitsBatch`: the events of a
  payload and the frames in flight at its start fit `shownHeldBuf`, which has
  2(RefFrames + 1) places; `trackShownSurfaces` drops what does not fit.
  `FitsPool`: a payload has at most N + 1 events; each further picture of the
  call would keep a surface of its own beside those of the slots and the ring.
  With failures or serial frames the accounts are not exact (section 6).
  `NoLeak` alone is not inductive: a hidden frame that retires is in no batch, so
  `AccountsInv` says that a surface outside the pool is in a slot, a returned
  batch, a busy context's releases, or the picture a busy context will show.
  `BatchBound` counts what a call may still return: the pictures it has, the
  contexts in flight, the events left and the one in hand never exceed
  N + MaxEvents.  The pool is then large enough because `runFrame`, before it
  finds the pool empty, has retired every other frame: the surfaces in use are
  those of the slots and of the batch (`Sufficient`).
* `EntropyHandlesProofs`: `ReferenceCountsExact`, `PoolsNeverExhausted`,
  `ReadsAreStable`, `WaitsAreOrdered`, for each of the three pools, every input
  and every failure.  `HandleAssumption` asks that all holds together stay below
  256; the code has 8 slots, 7 references and at most 8 contexts, so 8 + 9 * 8.
  The invariant `HandleInv` is `CountsExact` and `InputsStable` together with
  what a frame holds (`FrameOK`: everything it reads and writes, no more than
  its share `Width`), who writes what is unfinished (`Written`) and that a map
  behind a passed wait is good (`MapGood`).  The counts carry the rest: a handle
  with count 0 is in no slot and held by no frame, so a newly acquired one is
  read and written by nobody, and the handles in use are at most as many as the
  slots and the holds in flight, which leaves the spare handles free.
  Exactness needs the releases not to clip or wrap, and those need exactness,
  so the two are one induction.
* `SurfacePoolProofs`: `NeverInvalidSafe`, `FormatsKept` and `RefinesFree`.  The
  invariant says that the free list holds the unused slots, each once, so its
  length is their number; a checked release therefore finds room, and a batch
  validated slot by slot stays inside the list.
* `SerialDecodeProofs`, for any number of slots and tiles and with any unit or
  tile work failing.  `OneOwner`: what a slot holds or a frame is decoded into is
  not free.  `SurfacesSuffice` is all of `NothingLeaks`, `AlwaysRecovers` is
  `KeyRecovers`; both need `NoOrphans`.  `OwnInv` speaks of every state of a call
  where `NothingLeaks` speaks of the time between calls: a surface in use is in a
  slot, under way or behind a frame of this call (`Reached`), and because nothing
  follows the frame that a payload shows, that frame and a frame under way never
  need a surface at the same time (`OneShown`).  So at most one surface per slot
  is in use when a frame begins.  No release fails, since `Owned` keeps what is
  released out of the pool, so the error branches of `Freed` are never taken.
  `ReferencesStayAgreed` is `ReferencesAgree`.  The parser has run ahead of the
  surfaces by the events that wait, so the two agree in no state within a call;
  `AgreeInv` says there is a trail of parser states, one behind each waiting
  event, that ends in the parser's and begins with one the surfaces match
  (`Trail`, `Matches`).  A unit parsed extends it, an event run drops its first.
* `RowProofs`: `WakeupSafe`, `RowsSafe`, and `RefinesGate`, the safety part of
  the refinement, whose invariant counts the registered waiters and ties the
  mutex to the one goroutine in its critical section.  `LoadedRowsSaved` is
  `LoadsSaved` for every grid of tiles and all superblock sizes of the two
  frames: `SavedInv` says that each tile has saved what it reported, and that
  the count published for the frame is saved in every tile, or its end.
* `EncoderPipelineProofs`: `ThroughputIsSerial` is `SameBytes`,
  `BasesAreReturned` is `ReferenceReturned`, for every number of frames and all
  configurations.  `SameBytes` compares only what was returned; `PipeInv` says in
  every state how far the serial encoder is ahead (`Ahead`): there is a state of
  it in which it stood where the pipelined one stands, and one or two calls of
  `Encode`, the held source's and that of the call in progress, lead from there
  to its present state.  While the base of an overlap is finished and its leaf is
  not, the two have changed places, and the leaf's unit is what its inputs will
  give (`LeafUnit`).  That the inputs stay is `LeafInv` and `Ready`: a base is
  coded into the buffer that `enc.recon` is not, the filter worker holds at
  most the newest reference, and it is joined before a frame that reads it.
* `ReconWavefrontProofs`: `NeighboursSafe`, `RowsSafe`, `WakeupSafe`.  The
  invariant places each lane in its row (`Place`), orders the rows (a complete
  row has complete rows above), and says of a sleeping lane who will wake it
  (`Sleep`).
* `EncoderWavefrontProofs`: `WavefrontSerial`, all of `ContextsSerial`, with any
  walk or write failing at any point.  The assumption asks for two lanes, two
  rows and one column at least.  Of the carriers `ContextsSerial` speaks only
  while a superblock is being decided; the invariant `EncInv` says at all times
  which row stored a slot last: the last row that has decided the superblock
  (`CarrierInv`; of its parity, in a diagonal plane).  That this is row r - 1
  when row r reads it takes the stagger, each row a superblock behind the one
  above (`RowInv`), and that a row belongs to one lane, which stands where its
  record ends (`Place`).  A diagonal plane is safe because the next row of the
  same parity cannot reach the column before row r has passed it.  For the
  wake-ups `SyncInv` counts the registered goroutines in `wf.waiters`, ties
  `wf.mu` to the goroutine inside, and says that whoever looked in vain, parked
  or about to park, has a waker if its row has come far enough since (`Asleep`):
  a publisher that reads no waiter leaves nobody behind, one that reads some
  broadcasts under the mutex, so never between the look and the park.

Only model-checked: every liveness property, since the prover has neither
fairness nor `ENABLED`; the functions of the packetizer and the sequencer, which
are inductions over their input; the ring's `InOrder`, whose mapping selects
from sequences, and its ownership and accounts for streams with serial frames;
the invariants of the modules not named above (`StageOrder`, `PublishedFinal`,
`RowsReconstructed`, `FailureTold`, `InSendOrder`, `WindowExact`,
`AssembledExactly`, `NoSplice`).

## 5. Not modelled

Sample arithmetic (transforms, prediction, filters, film grain), the arithmetic
decoder and the parsers have no small faithful instance and are checked by the
repository against conformance vectors.  Containers and tools are I/O.  The
worker pool is Go's channels and `WaitGroup`; its users are modelled with start
and join.  Rate control is feedback over frame sizes that only coded frames
produce.  Spatial layers (SVC) and tile lists choose among the same surfaces one
call at a time.

Left out inside modelled parts:

* `SerialDecode`: several layers in a payload, metadata and padding, detached
  film-grain outputs, the external output pool, the caller's output length, the
  order in which the pool hands out surfaces.
* `FrameTail`: motion rows (they are `MotionRows`) and the superblocks of a row
  (they are `ReconWavefront`); `EntropyHandles`: stores shared between layers.
* `RowPipe`: the planes are not told apart; the banded stages of
  `postfilter_parallel.go` run after reconstruction, without this pipeline.
* `RtpRepair`: the numbering of the RTX stream, its short-buffer error, `Reset`.
* `RtpReceive`: `FragmentReassembler`, which these callers do not use; of the
  parser everything but a missing sequence or frame header.  The layered
  receiver gets units that parse (section 6).
* `EncoderPipeline`: golden references, tiles, padding, high bit depth and
  screen content; with these the pipeline is a plain FIFO, but for the last
  (section 6).

## 6. Findings

Three runs show a disagreement between the code and its own text:

* `ring_serial_final`: a serial frame decoded into a surface whose last threaded
  frame failed leaves `FrameProgressError` there, and later threaded frames that
  predict from it fail, against the comment that surfaces not in flight stay at
  `FrameProgressDone`.
* `ring_new_sequence`: a new coded video sequence inside a payload returns
  surfaces behind pictures that the same call is about to return.
* `ring_lost_batch`: a call that ends with a tail's error never tracks the
  pictures it had retired, so their surfaces are lost until `Reset`.

The other models met the following; each is the reason for a restriction of a
run, and lifting the restriction gives TLC's counterexample.

| Where | What the code does | Restriction |
| --- | --- | --- |
| `decoder_residual_event.go:943` | after one tile group fails the frame stays under way, and the remaining groups of a later payload publish it without the failed tiles (`work.go:1337` says the check prevents it) | `ReferencesAgree` speaks of streams without failures (`tainted`) |
| `decode_simple.go:530` | a call that fails after a frame was shown that refreshes no slot notes its surface nowhere; it is lost until `Reset` | `MayFollow`: nothing follows a shown frame in its payload |
| `decoder/surface.go:196` | with several shown frames in a payload a surface of this call is released when a later frame replaces it, and may be overwritten before the call returns | the same |
| `tile_residual.go:1206` | a batch with several tiles joins the lanes of the previous one, which wait for reference rows, so the entropy pass waits for pixels (`decode_frame_thread.go:512` says never) | none: `TailEnds` holds all the same |
| `decode_frame_thread.go:528` | the progress of an entry acquired for default CDFs is not reset, so after a failure a key frame may fail for a frame it does not depend on | none: no property of `contexts` speaks of it |
| `rtp_packet_sequencer.go:215` | a window that does not divide 65536 maps two numbers around the wrap to one slot and drops the waiting packet | windows of 2, 8 and 32 |
| `rtp_retransmission.go:344` | a buffer too short for an RTX packet loses the packets written before it, but not their numbers | RTX numbers left out |
| `decode_layered.go:576` | a unit that fails to parse leaves the depacketizer inside a fragment whose offset the caller forgets | layered receiver gets units that parse |
| `decoder_residual_stream.go:697` | after a failing unit `RTPUsed` stays although no fragment is open, and grows with each failure | the buffer has room for all payloads |
| `video_pipeline.go:361` | an overlapped leaf of screen content never gets the zero-motion exit the serial encoder arms | no screen content |
| `video_pipeline.go:202` | a leaf that fails beside a base drops the base's unit although later frames refer to it | the base of `ReferenceReturned` is that of encoders whose leaves do not fail |
