------------------------------ MODULE RowPipe -------------------------------
(***************************************************************************)
(* The row-pipelined post-filter of decoder/postfilter_rowpipe.go: the     *)
(* driver follows reconstruction, deblocks regions of 128 rows, saves what *)
(* unit rows (64 rows) read across their edges and hands the unit rows to  *)
(* workers, which run CDEF and then the restoration stripes they complete. *)
(* All stages work in place on one frame.                                  *)
(*                                                                         *)
(* A unit row is six bands of rows, cut where the stages' reach ends:      *)
(* rows 0-1, 2-53, 54-55, 56-57, 58-61 and 62-63.  Band 6u+k is band k of  *)
(* unit row u.  The sample data is the stage a band has been through.      *)
(***************************************************************************)
EXTENDS Integers, Sequences, FiniteSets, FiniteSetsExt, SequencesExt

CONSTANTS
  Frames,   \* the frames that may come: stages, superblock size and height
  Workers,
  Cap       \* capacity of the units channel

RowPipeAssumption ==
  /\ Cap \in Nat \ {0}
  /\ \A f \in Frames : /\ {f.lf, f.cdef, f.lr, f.hbd} \subseteq BOOLEAN
                        /\ f.sb \in {6, 12} /\ f.height \in Nat \ {0}

VARIABLES
  frame,      \* the frame: its post-filter stages, superblock rows and height in bands
  ver,        \* the stage each cell holds
  sbRow,      \* superblock rows reconstructed
  progress,   \* recon: rows (in bands) reconstructed, ProgressDone or Error
  pc, region, unit, next,  \* the driver: its two loops and dispatch's next
  failed,     \* the driver's error
  queue, wg,  \* pp.units, pp.wg
  err,        \* pp.err
  worker,     \* each worker: what it does, its unit row, the stripes it claimed
  unitDone, claimed, stripeDone, prefix,
  published   \* rows (in bands) published to other frames

lfOn == frame.lf
cdefOn == frame.cdef
lrOn == frame.lr
hbd == frame.hbd     \* more than 8 bits: CDEF reads a snapshot of the frame
sb == frame.sb       \* bands of a superblock row
height == frame.height
units == cdefOn \/ lrOn
Bands == 0 .. height - 1
unitRows == (height + 5) \div 6
Unit(u) == (6 * u .. 6 * u + 5) \cap Bands
LastUnit(u) == u + 1 = unitRows
Regions == (unitRows + 1) \div 2
Region(r) == (12 * r .. 12 * r + 11) \cap Bands
stripes == (height + 3 + 5) \div 6
Stripe(s) == (6 * s - 3 .. 6 * s + 2) \cap Bands
SbRows == (height + sb - 1) \div sb
SbRow(i) == (sb * i .. sb * i + sb - 1) \cap Bands
ProgressDone == height + 100
Error == -1

\* What a band of the frame has been through.
None == 0
Recon == 1
Half == 2       \* deblocked in its region, the edge below it still to come
Deblocked == IF lfOn THEN 3 ELSE Recon
Cdef == IF cdefOn THEN 4 ELSE Deblocked
Final == IF lrOn THEN 5 ELSE Cdef

\* The frame, the rows saved for CDEF and the lines saved for restoration.
Cells == {"frame", "saved", "line"} \X Bands
In(area, bands) == {area} \X bands

recon == <<sbRow, progress>>
driver == <<pc, region, unit, next, failed>>
chan == <<queue, wg, err>>
done == <<unitDone, claimed, stripeDone, prefix, published>>
vars == <<frame, ver, recon, driver, chan, worker, done>>

Idle == [pc |-> "idle", u |-> 0, run |-> <<>>]
FirstStep == IF lfOn THEN "region" ELSE IF units THEN "unit" ELSE "finish"

Init ==
  /\ frame \in Frames
  /\ ver = [c \in Cells |-> None]
  /\ sbRow = 0 /\ progress = 0
  /\ pc = FirstStep /\ region = 0 /\ unit = 0 /\ next = 0 /\ failed = FALSE
  /\ queue = <<>> /\ wg = 0 /\ err = FALSE
  /\ worker = [w \in Workers |-> Idle]
  /\ unitDone = {} /\ claimed = {} /\ stripeDone = {} /\ prefix = 0 /\ published = 0

\* rows.publish: rows at or past the frame height are left to the caller.
Publish(n) == IF n <= published \/ n >= height THEN published ELSE n

Set(cells, v) == [c \in Cells |-> IF c \in cells THEN v ELSE ver[c]]

-----------------------------------------------------------------------------
(* Reconstruction: FrameThreadReconRows, one superblock row at a time.     *)

ReconRow ==
  /\ sbRow < SbRows
  /\ ver' = Set(In("frame", SbRow(sbRow)), Recon)
  /\ sbRow' = sbRow + 1
  /\ progress' = IF sbRow' = SbRows THEN ProgressDone ELSE sb * sbRow'
  /\ UNCHANGED <<frame, driver, chan, worker, done>>

ReconFail ==
  /\ sbRow < SbRows
  /\ sbRow' = SbRows /\ progress' = Error
  /\ UNCHANGED <<frame, ver, driver, chan, worker, done>>

-----------------------------------------------------------------------------
(* The driver: applyRowPipelinedPostFilters.                               *)

\* Mutant: a region starts when its own rows are reconstructed.
RegionNeedOwn(r) == IF r + 1 = Regions THEN ProgressDone ELSE 12 * (r + 1)

RegionNeed(r) == IF r + 1 = Regions THEN ProgressDone ELSE 12 * (r + 1) + sb

UnitNeed(u) == IF LastUnit(u) THEN ProgressDone ELSE 6 * (u + 1) + sb

\* waitRecon, and the return of finish(err) when reconstruction failed.
WaitRecon(from, need, to) ==
  /\ pc = from
  /\ progress >= need \/ progress = Error
  /\ pc' = IF progress = Error THEN "finish" ELSE to
  /\ failed' = (progress = Error)
  /\ UNCHANGED <<frame, ver, recon, region, unit, next, chan, worker, done>>

WaitRegion == WaitRecon("region", RegionNeed(region), "deblock")
WaitUnit == WaitRecon("unit", UnitNeed(unit), "save")

\* The rows a region's edges change: its own and the six above it.
DeblockedBy(r) == Region(r) \cup ({12 * r - 2, 12 * r - 1} \cap Bands)

\* Unit rows whose rows, and the two below, are deblocked after region r.
Ready(r) == IF r + 1 = Regions THEN unitRows ELSE 2 * r + 1

\* applyLoopFilterEdgesFromMasksInPlanePassOrder; without unit rows the region
\* is published, but for the rows the next one rewrites.
Deblock ==
  /\ pc = "deblock"
  /\ LET lastRegion == region + 1 = Regions
         half == IF lastRegion THEN {} ELSE {12 * region + 10, 12 * region + 11}
     IN /\ ver' = [c \in Cells |-> IF c \in In("frame", half) THEN Half
                                   ELSE IF c \in In("frame", DeblockedBy(region)) THEN Deblocked
                                   ELSE ver[c]]
        /\ published' = IF units \/ lastRegion THEN published ELSE Publish(12 * (region + 1) - 3)
        /\ pc' = CASE units -> "save" [] lastRegion /\ ~units -> "finish" [] OTHER -> "region"
        /\ region' = IF units THEN region ELSE region + 1
  /\ UNCHANGED <<frame, recon, unit, next, failed, chan, worker, unitDone, claimed, stripeDone, prefix>>

\* dispatch's end.
Upto == IF lfOn /\ region < Regions THEN Ready(region) ELSE unit + 1

\* loadSnapshotRows saves the unit row with the two rows below it;
\* loadCDEFRowBoundary the two rows below it and, for the next unit row, the
\* last two of its own.
SavedFor(u) == IF hbd THEN (Unit(u) \cup {6 * u + 6}) \cap Bands
               ELSE {6 * u + 5, 6 * u + 6} \cap Bands

\* Restoration's deblocked lines in unit row u: below stripe u, above u+1.
LinesOf(u) == {6 * u + 2, 6 * u + 3} \cap Bands

\* What dispatch reads before it sends: each row of the snapshot is loaded
\* once.
Saves == {c \in In("saved", UNION {SavedFor(u) : u \in next .. Upto - 1}) :
            cdefOn /\ (hbd => ver[c] = None)}
       \cup (IF lrOn THEN In("line", UNION {LinesOf(u) : u \in next .. Upto - 1}) ELSE {})

Save ==
  /\ pc = "save"
  /\ ver' = [c \in Cells |-> IF c \in Saves THEN ver[<<"frame", c[2]>>] ELSE ver[c]]
  /\ pc' = "send"
  /\ UNCHANGED <<frame, recon, region, unit, next, failed, chan, worker, done>>

\* An error of a stage the driver runs itself.
DriverFail ==
  /\ pc \in {"deblock", "save"}
  /\ pc' = "finish" /\ failed' = TRUE
  /\ UNCHANGED <<frame, ver, recon, region, unit, next, chan, worker, done>>

\* The error is looked at before the send, which may block.
Announce ==
  /\ pc = "send"
  /\ next < Upto /\ ~err
  /\ wg' = wg + 1
  /\ pc' = "push"
  /\ UNCHANGED <<frame, ver, recon, region, unit, next, failed, queue, err, worker, done>>

Send ==
  /\ pc = "push"
  /\ Len(queue) < Cap
  /\ queue' = Append(queue, next) /\ next' = next + 1 /\ pc' = "send"
  /\ UNCHANGED <<frame, ver, recon, region, unit, failed, wg, err, worker, done>>

\* dispatch has returned: the next region or, after the regions or without
\* them, the loop over the unit rows that are left.
AfterDispatch ==
  LET inRegions == lfOn /\ region < Regions
      more == inRegions /\ region + 1 < Regions
      u == IF inRegions THEN next ELSE unit + 1
  IN /\ region' = IF inRegions THEN region + 1 ELSE region
     /\ unit' = IF more THEN unit ELSE u
     /\ pc' = IF more THEN "region" ELSE IF u < unitRows THEN "unit" ELSE "finish"
     /\ UNCHANGED <<frame, ver, recon, next, failed, chan, worker, done>>

\* Mutant: dispatch tries again when a unit row has failed.
DispatchedRetry ==
  /\ pc = "send"
  /\ next >= Upto \/ err
  /\ IF next < Upto THEN UNCHANGED vars ELSE AfterDispatch

Dispatched ==
  /\ pc = "send"
  /\ next >= Upto \/ err
  /\ AfterDispatch

Finish ==
  /\ pc = "finish"
  /\ wg = 0
  /\ failed' = (failed \/ err)
  /\ pc' = IF failed' THEN "end" ELSE "last"
  /\ UNCHANGED <<frame, ver, recon, region, unit, next, chan, worker, done>>

\* The last wait for reconstruction, before the caller pads the frame.
WaitLast ==
  /\ pc = "last"
  /\ progress \in {ProgressDone, Error}
  /\ failed' = (progress = Error)
  /\ pc' = "end"
  /\ UNCHANGED <<frame, ver, recon, region, unit, next, chan, worker, done>>

\* The next frame, on the same workers, after the tail joined reconstruction.
NextFrame ==
  /\ pc = "end" /\ sbRow = SbRows
  /\ frame' \in Frames
  /\ ver' = [c \in Cells' |-> None]
  /\ sbRow' = 0 /\ progress' = 0
  /\ pc' = FirstStep' /\ region' = 0 /\ unit' = 0 /\ next' = 0 /\ failed' = FALSE
  /\ err' = FALSE
  /\ unitDone' = {} /\ claimed' = {} /\ stripeDone' = {} /\ prefix' = 0 /\ published' = 0
  /\ UNCHANGED <<queue, wg, worker>>

-----------------------------------------------------------------------------
(* The workers: rowPipeUnit.                                               *)

Take(w) ==
  /\ worker[w].pc = "idle" /\ queue # <<>>
  /\ queue' = Tail(queue)
  /\ wg' = IF err THEN wg - 1 ELSE wg
  /\ worker' = IF err THEN worker
               ELSE [worker EXCEPT ![w] = [pc |-> IF cdefOn THEN "cdef" ELSE "lines", u |-> Head(queue), run |-> <<>>]]
  /\ UNCHANGED <<frame, ver, recon, driver, err, done>>

\* applyCDEFPostFilterRows of the unit row.
CdefUnit(w) ==
  /\ worker[w].pc = "cdef"
  /\ ver' = Set(In("frame", Unit(worker[w].u)), Cdef)
  /\ worker' = [worker EXCEPT ![w].pc = IF lrOn THEN "lines" ELSE "finish"]
  /\ UNCHANGED <<frame, recon, driver, chan, done>>

\* The longest run of finished unit rows or stripes from from.
Prefix(from, set) == CHOOSE n \in from .. from + Cardinality(set) :
                       from .. n - 1 \subseteq set /\ n \notin set

\* finishUnit.
FinishUnit(w) ==
  /\ worker[w].pc = "finish"
  /\ unitDone' = unitDone \cup {worker[w].u}
  /\ prefix' = Prefix(prefix, unitDone')
  /\ published' = IF prefix' >= unitRows THEN published ELSE Publish(6 * prefix')
  /\ worker' = [worker EXCEPT ![w] = Idle]
  /\ wg' = wg - 1
  /\ UNCHANGED <<frame, ver, recon, driver, queue, err, claimed, stripeDone>>

\* The unit rows stripe s lies in are filtered.
Covered(s, rows) == (s = 0 \/ s - 1 \in rows) /\ Min({s, unitRows - 1}) \in rows

\* The lines at the frame's edges, saved after CDEF.
EdgeLines(u) == (IF u = 0 THEN {0} ELSE {}) \cup (IF LastUnit(u) THEN {height - 1} ELSE {})

\* SaveRestorationFrameBoundaryLinesFromFrameRows, and the claim of the
\* stripes this unit row completes.
Claim(w) ==
  /\ worker[w].pc = "lines"
  /\ LET u == worker[w].u
         run == {s \in {u, u + 1} : s < stripes /\ s \notin claimed /\ Covered(s, unitDone')}
     IN /\ unitDone' = unitDone \cup {u}
        /\ ver' = [c \in Cells |-> IF c \in In("line", EdgeLines(u)) THEN ver[<<"frame", c[2]>>] ELSE ver[c]]
        /\ claimed' = claimed \cup run
        /\ worker' = [worker EXCEPT ![w] = IF run = {} THEN Idle
                                           ELSE [@ EXCEPT !.pc = "stripe", !.run = SetToSortSeq(run, <)]]
        /\ wg' = IF run = {} THEN wg - 1 ELSE wg
  /\ UNCHANGED <<frame, recon, driver, queue, err, stripeDone, prefix, published>>

\* Mutant: the rows of the stripe below are published with the stripe.
StripePublishedAll(n) == 6 * n

StripePublished(n) == 6 * n - 3

\* rowPipeStripe, and the publication of the finished stripes.
RunStripe(w) ==
  /\ worker[w].pc = "stripe"
  /\ LET s == Head(worker[w].run)
         run == Tail(worker[w].run)
     IN /\ ver' = Set(In("frame", Stripe(s)), Final)
        /\ stripeDone' = stripeDone \cup {s}
        /\ prefix' = Prefix(prefix, stripeDone')
        /\ published' = IF prefix' < stripes THEN Publish(StripePublished(prefix')) ELSE published
        /\ worker' = [worker EXCEPT ![w] = IF run = <<>> THEN Idle ELSE [@ EXCEPT !.run = run]]
        /\ wg' = IF run = <<>> THEN wg - 1 ELSE wg
  /\ UNCHANGED <<frame, recon, driver, queue, err, unitDone, claimed>>

\* pp.fail in any of these stages: the unit row ends there.
UnitFail(w) ==
  /\ worker[w].pc \in {"cdef", "lines", "stripe"}
  /\ err' = TRUE
  /\ worker' = [worker EXCEPT ![w] = Idle]
  /\ wg' = wg - 1
  /\ UNCHANGED <<frame, ver, recon, driver, queue, done>>

-----------------------------------------------------------------------------
DriverRuns == WaitRegion \/ WaitUnit \/ Deblock \/ Save \/ Announce \/ Send \/ Dispatched \/ Finish \/ WaitLast
UnitRuns(w) == Take(w) \/ CdefUnit(w) \/ FinishUnit(w) \/ Claim(w) \/ RunStripe(w)

Next ==
  \/ ReconRow \/ ReconFail
  \/ DriverRuns \/ DriverFail \/ NextFrame
  \/ \E w \in Workers : UnitRuns(w) \/ UnitFail(w)

Fairness == WF_vars(ReconRow) /\ WF_vars(DriverRuns) /\ \A w \in Workers : WF_vars(UnitRuns(w))
Spec == Init /\ [][Next]_vars /\ Fairness

-----------------------------------------------------------------------------
(* What each actor reads and writes while it is in a step that touches     *)
(* samples: the step's action is its end.                                  *)

ReconReads == IF sbRow < SbRows THEN In("frame", {sb * sbRow - 1} \cap Bands) ELSE {}
ReconWrites == IF sbRow < SbRows THEN In("frame", SbRow(sbRow)) ELSE {}

DriverReads ==
  CASE pc = "deblock" -> In("frame", DeblockedBy(region) \cup ({12 * region - 3} \cap Bands))
    [] pc = "save" -> {<<"frame", c[2]>> : c \in Saves}
    [] OTHER -> {}
DriverWrites ==
  CASE pc = "deblock" -> In("frame", DeblockedBy(region))
    [] pc = "save" -> Saves
    [] OTHER -> {}

AcrossUnit(u) == {6 * u - 1, 6 * u + 6} \cap Bands
AcrossStripe(s) == {6 * s - 4, 6 * s + 3} \cap Bands
EdgeOfStripe(s) == Stripe(s) \cap {0, height - 1}

UnitReads(w) ==
  LET u == worker[w].u IN
  CASE worker[w].pc = "cdef" /\ hbd -> In("saved", Unit(u) \cup AcrossUnit(u))
    [] worker[w].pc = "cdef" /\ ~hbd -> In("frame", Unit(u)) \cup In("saved", AcrossUnit(u))
    [] worker[w].pc = "lines" -> In("frame", EdgeLines(u))
    [] worker[w].pc = "stripe" ->
         LET s == Head(worker[w].run)
         IN In("frame", Stripe(s)) \cup In("line", AcrossStripe(s) \cup EdgeOfStripe(s))
    [] OTHER -> {}
UnitWrites(w) ==
  CASE worker[w].pc = "cdef" -> In("frame", Unit(worker[w].u))
    [] worker[w].pc = "lines" -> In("line", EdgeLines(worker[w].u))
    [] worker[w].pc = "stripe" -> In("frame", Stripe(Head(worker[w].run)))
    [] OTHER -> {}

\* "Every stage reads exactly the pixels the whole-frame order gives it"
\* (postfilter_rowpipe.go:42-43): intra prediction reads unfiltered rows, the
\* deblocking of a region the rows as its neighbour left them, CDEF deblocked
\* rows on both sides of every edge, restoration CDEF rows inside the stripe
\* and deblocked lines outside it.
StageOrder ==
  /\ \A c \in ReconReads : ver[c] = Recon
  /\ pc = "deblock" =>
       /\ \A b \in Region(region) : ver[<<"frame", b>>] = Recon
       /\ \A b \in DeblockedBy(region) \ Region(region) : ver[<<"frame", b>>] = Half
  /\ pc = "save" => \A c \in DriverReads : ver[c] = Deblocked
  /\ \A w \in Workers :
       LET edge == IF worker[w].pc = "stripe" THEN In("line", EdgeOfStripe(Head(worker[w].run))) ELSE {}
       IN CASE worker[w].pc = "cdef" -> \A c \in UnitReads(w) \cup UnitWrites(w) : ver[c] = Deblocked
            [] worker[w].pc = "lines" -> \A c \in UnitReads(w) : ver[c] = Cdef
            [] worker[w].pc = "stripe" ->
                 \A c \in UnitReads(w) : ver[c] = IF c[1] = "frame" \/ c \in edge THEN Cdef ELSE Deblocked
            [] OTHER -> TRUE

\* No actor writes what another one is reading or writing: reconstruction, the
\* driver and the workers share the frame without a lock.
NoOverlap ==
  /\ (DriverReads \cup DriverWrites) \cap ReconWrites = {} /\ DriverWrites \cap ReconReads = {}
  /\ \A w \in Workers :
       LET mine == UnitReads(w) \cup UnitWrites(w) IN
       /\ mine \cap (ReconWrites \cup DriverWrites) = {}
       /\ UnitWrites(w) \cap (ReconReads \cup DriverReads) = {}
       /\ \A v \in Workers \ {w} : mine \cap UnitWrites(v) = {}

\* "the published rows are the prefix no later stage writes"
\* (postfilter_rowpipe.go:43-44), also when a later row fails.
PublishedFinal ==
  /\ \A b \in Bands : b < published => ver[<<"frame", b>>] = Final
  /\ In("frame", 0 .. published - 1) \cap
       (ReconWrites \cup DriverWrites \cup UNION {UnitWrites(w) : w \in Workers}) = {}

\* When the run returns, the workers are done with the frame, and without an
\* error every row went through every stage.
Complete ==
  pc = "end" =>
    /\ wg = 0 /\ queue = <<>> /\ \A w \in Workers : worker[w] = Idle
    /\ ~failed => \A b \in Bands : ver[<<"frame", b>>] = Final

\* The run returns, for every frame, whatever fails.
RunEnds == []<>(pc = "end")
=============================================================================
