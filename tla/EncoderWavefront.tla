-------------------------- MODULE EncoderWavefront --------------------------
(***************************************************************************)
(* The encoder's superblock-row wavefront                                   *)
(* (internal/av1/encoder/pframe_wavefront.go): decision lanes claim rows of *)
(* the tile in order and decide a row's superblocks left to right, each     *)
(* behind the one above and to the right of it; the calling goroutine       *)
(* replays the finished rows through the entropy coder behind them          *)
(* (pframe_residual.go, keyframe_lossy.go).  One action is one atomic       *)
(* operation, one critical section of wf.mu or one superblock's walk, so    *)
(* that the lock-free paths of waitRowProgress and publishRowProgress       *)
(* interleave as the goroutines do.                                         *)
(*                                                                          *)
(* The data of a walk is which row last stored a carrier slot: the encoder  *)
(* reads above contexts, top-right motion and the diagonal corner through   *)
(* the shared carriers (internal/av1/tile/block_loop_decide.go).            *)
(***************************************************************************)
EXTENDS Integers, FiniteSets

CONSTANTS
  Lanes,        \* pc.wavefrontLanes: the decision lanes
  Writer,       \* the goroutine that calls start and runs the entropy pass
  MaxRows,      \* the superblock rows a frame may have are 2 .. MaxRows: for
                \* one row or one lane the callers decide serially
  Cols,         \* the superblock columns of the tile
  SpinBudget,   \* wavefrontSpinBudget
  MaxFrames,    \* bound: frames encoded
  MaxFails      \* bound: superblock or block walks that fail

Free == "free"

ASSUME WavefrontAssumption ==
  /\ Writer \notin Lanes /\ Free \notin Lanes \cup {Writer}
  /\ IsFiniteSet(Lanes) /\ Cardinality(Lanes) >= 2
  /\ MaxRows \in Nat \ {0, 1}
  /\ Cols \in Nat \ {0}
  /\ SpinBudget \in Nat \ {0}
  /\ MaxFrames \in Nat
  /\ MaxFails \in Nat

VARIABLES
  rows,      \* wf.rows
  done,      \* wf.done: superblocks published of each row
  nextRow,   \* wf.nextRow
  aborted,   \* wf.aborted
  waiters,   \* wf.waiters
  mu,        \* who holds wf.mu: a goroutine or Free
  parked,    \* the goroutines on wf.cond's notify list
  above,     \* carriers.above: the row that stored each column last
  diag,      \* carriers.diag: the row that captured each slot last
  rec,       \* splitRowRecs: superblocks recorded of each row
  pc,        \* where each goroutine is
  at,        \* the row and column each goroutine works on
  spin,      \* the turn of waitRowProgress's polling loop
  err,       \* the lanes whose w.err is set
  writeErr,  \* writeErr of the entropy pass
  written,   \* ghost: superblocks the entropy pass has replayed
  frames,    \* bound counter: frames started
  fails,     \* bound counter: failures injected
  result     \* ghost: what the last call returned

sync == <<done, nextRow, aborted, waiters, mu, parked>>
data == <<above, diag, rec>>
ends == <<err, writeErr, written, frames, fails, result>>
vars == <<rows, done, nextRow, aborted, waiters, mu, parked, above, diag, rec,
          pc, at, spin, err, writeErr, written, frames, fails, result>>

Goroutines == Lanes \cup {Writer}
Unset == -1

Lower(a, b) == IF a < b THEN a ELSE b

Init ==
  /\ rows = 0
  /\ done = [r \in 0..MaxRows-1 |-> 0]
  /\ nextRow = 0
  /\ aborted = FALSE
  /\ waiters = 0
  /\ mu = Free
  /\ parked = {}
  /\ above = [c \in 0..Cols-1 |-> Unset]
  /\ diag = [p \in 0..1 |-> [c \in 0..Cols-1 |-> Unset]]
  /\ rec = [r \in 0..MaxRows-1 |-> 0]
  /\ pc = [g \in Goroutines |-> "idle"]
  /\ at = [g \in Goroutines |-> [row |-> 0, col |-> 0]]
  /\ spin = [g \in Goroutines |-> 0]
  /\ err = {}
  /\ writeErr = FALSE
  /\ written = 0
  /\ frames = 0
  /\ fails = 0
  /\ result = "none"

Go(g, label) == pc' = [pc EXCEPT ![g] = label]

\* start and startKey: everything a frame uses is reset while the helpers are
\* parked, then one job per lane goes to the channel; the callers take at most
\* one lane per row.
start ==
  /\ pc[Writer] = "idle"
  /\ frames < MaxFrames
  /\ frames' = frames + 1
  /\ \E n \in 2 .. MaxRows, launched \in SUBSET Lanes :
       /\ Cardinality(launched) = Lower(Cardinality(Lanes), n)
       /\ rows' = n
       /\ pc' = [g \in Goroutines |->
                   IF g = Writer THEN "poll" ELSE IF g \in launched THEN "check" ELSE "idle"]
  /\ done' = [r \in 0..MaxRows-1 |-> 0]
  /\ nextRow' = 0
  /\ aborted' = FALSE
  /\ above' = [c \in 0..Cols-1 |-> Unset]
  /\ diag' = [p \in 0..1 |-> [c \in 0..Cols-1 |-> Unset]]
  /\ rec' = [r \in 0..MaxRows-1 |-> 0]
  /\ at' = [g \in Goroutines |-> [row |-> 0, col |-> 0]]
  /\ spin' = [g \in Goroutines |-> 0]
  /\ err' = {}
  /\ writeErr' = FALSE
  /\ written' = 0
  /\ result' = "none"
  /\ UNCHANGED <<waiters, mu, parked, fails>>

-----------------------------------------------------------------------------
(* waitRowProgress, by a lane for the row above it, by the entropy pass for  *)
(* its own row.                                                              *)

\* The row a goroutine waits for and the columns it needs of it: c+2 of the
\* row above for a lane, the whole row for the entropy pass.
AwaitedRow(g) == IF g = Writer THEN at[g].row ELSE at[g].row - 1

\* Mutant: the superblock above, not the one to its right.
NeedShort(g) == IF g = Writer THEN Cols ELSE Lower(at[g].col + 1, Cols)

Need(g) == IF g = Writer THEN Cols ELSE Lower(at[g].col + 2, Cols)
Reached(g) == done[AwaitedRow(g)] >= Need(g)

\* waitRowProgress returned: the superblock may be walked, or the goroutine
\* leaves its loop (a lane) or fails the write (the entropy pass).
Passed(g) == IF g = Writer THEN "write" ELSE "decide"
GaveUp(g) == IF g = Writer THEN "abort" ELSE "check"

\* The load of done[row] before the spin loop (turn 0) and in each of its turns.
Poll(g) ==
  /\ pc[g] = "poll"
  /\ IF Reached(g)
     THEN Go(g, "last") /\ UNCHANGED spin
     ELSE IF spin[g] = 0
          THEN spin' = [spin EXCEPT ![g] = 1] /\ UNCHANGED pc
          ELSE Go(g, "spun") /\ UNCHANGED spin
  /\ UNCHANGED <<rows, sync, data, at, ends>>

\* The load of aborted at the end of a turn; behind the last one, register.
Spun(g) ==
  /\ pc[g] = "spun"
  /\ IF aborted
     THEN Go(g, GaveUp(g)) /\ UNCHANGED spin
     ELSE IF spin[g] < SpinBudget
          THEN Go(g, "poll") /\ spin' = [spin EXCEPT ![g] = @ + 1]
          ELSE Go(g, "register") /\ UNCHANGED spin
  /\ UNCHANGED <<rows, sync, data, at, ends>>

Register(g) ==
  /\ pc[g] = "register"
  /\ waiters' = waiters + 1
  /\ Go(g, "lock")
  /\ UNCHANGED <<rows, done, nextRow, aborted, mu, parked, data, at, spin, ends>>

\* mu.Lock, and the return of cond.Wait once it was notified.
Lock(g) ==
  /\ pc[g] = "lock"
  /\ g \notin parked
  /\ mu = Free
  /\ mu' = g
  /\ Go(g, "held")
  /\ UNCHANGED <<rows, done, nextRow, aborted, waiters, parked, data, at, spin, ends>>

\* The re-check of done[row] under the lock.
Held(g) ==
  /\ pc[g] = "held"
  /\ IF Reached(g)
     THEN mu' = Free /\ Go(g, "leave")
     ELSE UNCHANGED mu /\ Go(g, "park")
  /\ UNCHANGED <<rows, done, nextRow, aborted, waiters, parked, data, at, spin, ends>>

\* The check of aborted under the lock, then cond.Wait: on the notify list
\* before the unlock.
Park(g) ==
  /\ pc[g] = "park"
  /\ mu' = Free
  /\ IF aborted
     THEN Go(g, "fail") /\ UNCHANGED parked
     ELSE Go(g, "lock") /\ parked' = parked \cup {g}
  /\ UNCHANGED <<rows, done, nextRow, aborted, waiters, data, at, spin, ends>>

\* waiters.Add(-1), on the abort path and on the other.
Leave(g) ==
  /\ pc[g] \in {"leave", "fail"}
  /\ waiters' = waiters - 1
  /\ Go(g, IF pc[g] = "leave" THEN "last" ELSE GaveUp(g))
  /\ UNCHANGED <<rows, done, nextRow, aborted, mu, parked, data, at, spin, ends>>

\* return !wf.aborted.Load()
LastCheck(g) ==
  /\ pc[g] = "last"
  /\ Go(g, IF aborted THEN GaveUp(g) ELSE Passed(g))
  /\ UNCHANGED <<rows, sync, data, at, spin, ends>>

waitRowProgress(g) ==
  Poll(g) \/ Spun(g) \/ Register(g) \/ Lock(g) \/ Held(g) \/ Park(g) \/ Leave(g) \/ LastCheck(g)

-----------------------------------------------------------------------------
(* abort, by the lane or the entropy pass that failed.                       *)

AbortStore(g) ==
  /\ pc[g] = "abort"
  /\ mu = Free
  /\ mu' = g
  /\ aborted' = TRUE
  /\ writeErr' = (writeErr \/ g = Writer)
  /\ Go(g, "broadcast")
  /\ UNCHANGED <<rows, done, nextRow, waiters, parked, data, at, spin, err, written,
                 frames, fails, result>>

AbortBroadcast(g) ==
  /\ pc[g] = "broadcast"
  /\ parked' = {}
  /\ mu' = Free
  /\ Go(g, IF g = Writer THEN "join" ELSE "idle")
  /\ UNCHANGED <<rows, done, nextRow, aborted, waiters, data, at, spin, ends>>

abort(g) == AbortStore(g) \/ AbortBroadcast(g)

-----------------------------------------------------------------------------
(* The lanes: runWorker and runRow.                                          *)

\* runWorker's load of aborted before it claims a row, which the one behind
\* runRow falls through to.
Check(l) ==
  /\ pc[l] = "check"
  /\ Go(l, IF aborted THEN "idle" ELSE "claim")
  /\ UNCHANGED <<rows, sync, data, at, spin, ends>>

\* Where runRow stands before superblock (r, c): row 0 waits for nobody.
Enter(r) == IF r = 0 THEN "decide" ELSE "poll"

Claim(l) ==
  /\ pc[l] = "claim"
  /\ nextRow' = nextRow + 1
  /\ IF nextRow >= rows
     THEN Go(l, "idle") /\ UNCHANGED <<at, spin>>
     ELSE /\ at' = [at EXCEPT ![l] = [row |-> nextRow, col |-> 0]]
          /\ spin' = [spin EXCEPT ![l] = 0]
          /\ Go(l, Enter(nextRow))
  /\ UNCHANGED <<rows, done, aborted, waiters, mu, parked, data, ends>>

\* WalkBlockLoopDecideSB with the row's carriers bound: above slots shared, the
\* corner captured into the other diagonal plane, the decisions recorded.
Decide(l) ==
  LET r == at[l].row
      c == at[l].col
  IN /\ pc[l] = "decide"
     /\ above' = [above EXCEPT ![c] = r]
     /\ diag' = IF c + 1 < Cols THEN [diag EXCEPT ![(r + 1) % 2][c + 1] = r] ELSE diag
     /\ rec' = [rec EXCEPT ![r] = @ + 1]
     /\ Go(l, "publish")
     /\ UNCHANGED <<rows, sync, at, spin, ends>>

\* The walk of a superblock fails: runRow returns the error, runWorker keeps it
\* and aborts the wavefront.
DecideFails(l) ==
  /\ pc[l] = "decide"
  /\ fails < MaxFails
  /\ fails' = fails + 1
  /\ err' = err \cup {l}
  /\ Go(l, "abort")
  /\ UNCHANGED <<rows, sync, data, at, spin, writeErr, written, frames, result>>

\* publishRowProgress: the store, the load of waiters, the broadcast.
Publish(l) ==
  /\ pc[l] = "publish"
  /\ done' = [done EXCEPT ![at[l].row] = at[l].col + 1]
  /\ Go(l, "waiters")
  /\ UNCHANGED <<rows, nextRow, aborted, waiters, mu, parked, data, at, spin, ends>>

\* The next superblock of the row, or the next row.
Advance(l) ==
  IF at[l].col + 1 < Cols
  THEN /\ at' = [at EXCEPT ![l].col = @ + 1]
       /\ spin' = [spin EXCEPT ![l] = 0]
       /\ Go(l, Enter(at[l].row))
  ELSE Go(l, "check") /\ UNCHANGED <<at, spin>>

Waiting(l) ==
  /\ pc[l] = "waiters"
  /\ IF waiters > 0 THEN Go(l, "wake") /\ UNCHANGED <<at, spin>> ELSE Advance(l)
  /\ UNCHANGED <<rows, sync, data, ends>>

Wake(l) ==
  /\ pc[l] = "wake"
  /\ mu = Free
  /\ parked' = {}
  /\ Advance(l)
  /\ UNCHANGED <<rows, done, nextRow, aborted, waiters, mu, data, ends>>

publishRowProgress(l) == Publish(l) \/ Waiting(l) \/ Wake(l)

runWorker(l) == Check(l) \/ Claim(l) \/ Decide(l) \/ publishRowProgress(l)

-----------------------------------------------------------------------------
(* The trailing entropy pass and the join.                                   *)

\* WalkBlockLoopWrite's next superblock: its records are replayed, and the walk
\* goes on to the next one, gated on its row again.
Write ==
  LET r == at[Writer].row
      c == at[Writer].col
  IN /\ pc[Writer] = "write"
     /\ written' = written + 1
     /\ at' = [at EXCEPT ![Writer] =
                 IF c + 1 < Cols THEN [row |-> r, col |-> c + 1] ELSE [row |-> r + 1, col |-> 0]]
     /\ spin' = [spin EXCEPT ![Writer] = 0]
     /\ Go(Writer, IF c + 1 = Cols /\ r + 1 = rows THEN "join" ELSE "poll")
     /\ UNCHANGED <<rows, sync, data, err, writeErr, frames, fails, result>>

\* A block's write fails.
WriteFails ==
  /\ pc[Writer] = "write"
  /\ fails < MaxFails
  /\ fails' = fails + 1
  /\ Go(Writer, "abort")
  /\ UNCHANGED <<rows, sync, data, at, spin, err, writeErr, written, frames, result>>

\* join: behind wg.Wait the call's error is the write's, else the first lane's.
join ==
  /\ pc[Writer] = "join"
  /\ \A l \in Lanes : pc[l] = "idle"
  /\ result' = IF writeErr \/ err # {} THEN "error" ELSE "ok"
  /\ Go(Writer, "idle")
  /\ UNCHANGED <<rows, sync, data, at, spin, err, writeErr, written, frames, fails>>

-----------------------------------------------------------------------------

Steps(g) == waitRowProgress(g) \/ abort(g)
LaneSteps(l) == Steps(l) \/ runWorker(l)
WriterSteps == Steps(Writer) \/ Write \/ join

Next ==
  \/ start
  \/ \E l \in Lanes : LaneSteps(l) \/ DecideFails(l)
  \/ WriterSteps
  \/ WriteFails

\* Go schedules every goroutine that can run and a mutex is handed on; walks
\* need not fail and the caller need not encode another frame.
Fairness == WF_vars(WriterSteps) /\ \A l \in Lanes : WF_vars(LaneSteps(l))

Spec == Init /\ [][Next]_vars /\ Fairness

-----------------------------------------------------------------------------

\* From the load of its contexts to their store, superblock (r, c) has in the
\* shared carriers what the serial walk would have left there: the above slots
\* of its own column and the next are row r-1's (not yet row r+1's), and its
\* diagonal slot holds the corner of (r-1, c-1), though two planes serve all
\* rows ("under the top-right dependency delivers exactly the values the serial
\* promote would").
CarriersSerial ==
  \A l \in Lanes :
    LET r == at[l].row
        c == at[l].col
    IN pc[l] = "decide" /\ r > 0 =>
         /\ above[c] = r - 1
         /\ c + 1 < Cols => above[c + 1] = r - 1
         /\ c > 0 => diag[r % 2][c] = r - 1

\* The entropy pass replays a superblock's records only when its row's records
\* are all there, this frame's and no more than this frame's: waitRowDecided
\* "blocks until row's decision records are complete".
ReplayComplete ==
  pc[Writer] = "write" => rec[at[Writer].row] = Cols

\* No lost wakeup: whoever is parked on the condition while its row has come far
\* enough, or the wavefront is aborted, is about to be woken by a goroutine that
\* is between its store and its broadcast ("either the publisher sees the waiter
\* or the waiter sees the progress").
NoLostWakeup ==
  \A g \in parked :
    Reached(g) \/ aborted =>
      \E h \in Goroutines \ {g} :
        \/ pc[h] = "broadcast"
        \/ pc[h] \in {"waiters", "wake"}

\* What encodes after join is exact: a frame whose superblocks were all decided
\* and replayed is returned, and a frame a walk or a write failed in is reported
\* as an error, whoever saw the failure first.
ErrorsReported ==
  /\ result = "ok" => written = rows * Cols /\ \A r \in 0..rows-1 : done[r] = Cols
  /\ result = "error" => fails > 0 /\ (writeErr \/ err # {})

\* Between frames nothing of the wavefront runs or waits, so start may reset the
\* shared fields without the lock, and the next frame inherits no waiter.
QuietBetweenFrames ==
  pc[Writer] = "idle" =>
    /\ \A l \in Lanes : pc[l] = "idle"
    /\ waiters = 0 /\ parked = {} /\ mu = Free

\* The wavefront decides and codes what the serial walk would, and ends as it
\* would: the five above.
ContextsSerial ==
  /\ CarriersSerial /\ ReplayComplete /\ NoLostWakeup
  /\ ErrorsReported /\ QuietBetweenFrames

\* Every frame that was started ends: no lane and no entropy pass is left
\* parked, whether the frame succeeds or is aborted ("the wavefront cannot
\* deadlock").
FramesEnd == [](pc[Writer] # "idle" => <>(pc[Writer] = "idle"))
=============================================================================
