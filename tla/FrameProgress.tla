--------------------------- MODULE FrameProgress ---------------------------
(***************************************************************************)
(* FrameProgress of threading/frame_thread.go: an atomic row count, a      *)
(* mutex, a condition variable and the number of registered waiters that   *)
(* lets Publish skip the broadcast.  Wait tries one load without the lock  *)
(* first.  Each shared access is a step of its own.                        *)
(*                                                                         *)
(* The owner of the frame is the only publisher and Reset runs only while  *)
(* no goroutine waits for the surface or reads it: FramePipeline's         *)
(* ReadsSafe and OneWriter show that the ring keeps to both.               *)
(***************************************************************************)
EXTENDS Integers, FiniteSets

CONSTANTS
  Waiters,  \* the goroutines that wait for rows
  Done,     \* FrameProgressDone: at least every row count a caller needs
  Pub,      \* the publishing goroutine
  Free      \* nobody holds the mutex

ASSUME ProgressAssumption ==
  /\ IsFiniteSet(Waiters)
  /\ Done \in Nat
  /\ Pub \notin Waiters
  /\ Free \notin Waiters
  /\ Pub # Free

Error == -1

VARIABLES
  rows,     \* FrameProgress.rows
  mu,       \* holder of FrameProgress.mu
  waiters,  \* FrameProgress.waiters
  pc,       \* control point of each waiter
  need,     \* Wait's argument
  ppc,      \* control point of the publisher
  val       \* Publish's argument

vars == <<rows, mu, waiters, pc, need, ppc, val>>

\* "fast": before the load without the lock; "lock": before mu.Lock; "check":
\* holding the lock at the head of the loop; "asleep": in cond.Wait, on the
\* notify list; "woken": in cond.Wait, notified, before it locks mu again.
InWait == {"fast", "lock", "check", "asleep", "woken"}

\* The control points at which p.waiters counts the goroutine.
Registered == {w \in Waiters : pc[w] \in {"check", "asleep", "woken"}}

Init ==
  /\ rows = 0
  /\ mu = Free
  /\ waiters = 0
  /\ pc = [w \in Waiters |-> "idle"]
  /\ need = [w \in Waiters |-> 0]
  /\ ppc = "idle"
  /\ val = 0

\* Mutant: a failed frame is not noticed.
SatisfiedNoError(n) == rows >= n

Satisfied(n) == rows >= n \/ rows = Error

Result == IF rows = Error THEN "failed" ELSE "ok"

Wait(w, n) ==
  /\ pc[w] = "idle"
  /\ pc' = [pc EXCEPT ![w] = "fast"]
  /\ need' = [need EXCEPT ![w] = n]
  /\ UNCHANGED <<rows, mu, waiters, ppc, val>>

FastLoad(w) ==
  /\ pc[w] = "fast"
  /\ pc' = [pc EXCEPT ![w] = IF Satisfied(need[w]) THEN Result ELSE "lock"]
  /\ UNCHANGED <<rows, mu, waiters, need, ppc, val>>

\* Mutant: sleep at once, without testing again under the lock.
RegisterSleeps(w) ==
  /\ pc[w] = "lock"
  /\ mu = Free
  /\ waiters' = waiters + 1
  /\ pc' = [pc EXCEPT ![w] = "asleep"]
  /\ UNCHANGED <<rows, mu, need, ppc, val>>

\* mu.Lock and waiters++.
Register(w) ==
  /\ pc[w] = "lock"
  /\ mu = Free
  /\ mu' = w
  /\ waiters' = waiters + 1
  /\ pc' = [pc EXCEPT ![w] = "check"]
  /\ UNCHANGED <<rows, need, ppc, val>>

\* One pass of the loop: return with waiters-- and mu.Unlock, or cond.Wait,
\* which joins the notify list before it unlocks mu.
Check(w) ==
  /\ pc[w] = "check"
  /\ mu' = Free
  /\ \/ /\ Satisfied(need[w])
        /\ waiters' = waiters - 1
        /\ pc' = [pc EXCEPT ![w] = Result]
     \/ /\ ~Satisfied(need[w])
        /\ pc' = [pc EXCEPT ![w] = "asleep"]
        /\ UNCHANGED waiters
  /\ UNCHANGED <<rows, need, ppc, val>>

\* The end of cond.Wait: mu.Lock.
Relock(w) ==
  /\ pc[w] = "woken"
  /\ mu = Free
  /\ mu' = w
  /\ pc' = [pc EXCEPT ![w] = "check"]
  /\ UNCHANGED <<rows, waiters, need, ppc, val>>

UseRows(w) ==
  /\ pc[w] \in {"ok", "failed"}
  /\ pc' = [pc EXCEPT ![w] = "idle"]
  /\ UNCHANGED <<rows, mu, waiters, need, ppc, val>>

Publish(v) ==
  /\ ppc = "idle"
  /\ v = Error \/ (rows # Error /\ v >= rows)
  /\ ppc' = "lock"
  /\ val' = v
  /\ UNCHANGED <<rows, mu, waiters, pc, need>>

PublishLock ==
  /\ ppc = "lock"
  /\ mu = Free
  /\ mu' = Pub
  /\ ppc' = "store"
  /\ UNCHANGED <<rows, waiters, pc, need, val>>

PublishStore ==
  /\ ppc = "store"
  /\ rows' = val
  /\ ppc' = "wake"
  /\ UNCHANGED <<mu, waiters, pc, need, val>>

\* cond.Broadcast: everybody on the notify list.
Woken == [w \in Waiters |-> IF pc[w] = "asleep" THEN "woken" ELSE pc[w]]

\* The broadcast, when anybody is registered, and mu.Unlock.
PublishWake ==
  /\ ppc = "wake"
  /\ pc' = IF waiters # 0 THEN Woken ELSE pc
  /\ mu' = Free
  /\ ppc' = "idle"
  /\ UNCHANGED <<rows, waiters, need, val>>

Reset ==
  /\ ppc = "idle"
  /\ \A w \in Waiters : pc[w] = "idle"
  /\ rows' = 0
  /\ UNCHANGED <<mu, waiters, pc, need, ppc, val>>

WaiterStep(w) == FastLoad(w) \/ Register(w) \/ Check(w) \/ Relock(w)
PublisherStep == PublishLock \/ PublishStore \/ PublishWake

Next ==
  \/ \E w \in Waiters :
       \/ \E n \in 0 .. Done : Wait(w, n)
       \/ WaiterStep(w)
       \/ UseRows(w)
  \/ \E v \in Error .. Done : Publish(v)
  \/ PublisherStep
  \/ Reset

Safety == Init /\ [][Next]_vars

\* Goroutines inside Wait and Publish keep running.  sync.Mutex hands the lock
\* to a waiter that has starved for a millisecond, hence strong fairness.
Fairness ==
  /\ \A w \in Waiters : SF_vars(WaiterStep(w))
  /\ SF_vars(PublisherStep)

Spec == Safety /\ Fairness

-----------------------------------------------------------------------------
TypeOK ==
  /\ rows \in Error .. Done
  /\ mu \in Waiters \cup {Pub, Free}
  /\ waiters \in Nat
  /\ pc \in [Waiters -> InWait \cup {"idle", "ok", "failed"}]
  /\ need \in [Waiters -> 0 .. Done]
  /\ ppc \in {"idle", "lock", "store", "wake"}
  /\ val \in Error .. Done

\* A goroutine asleep in Wait (cond.Wait, line 72) with its rows published has
\* a broadcast coming: the publisher is between its store and its broadcast,
\* and sees it registered.
NoLostWakeup ==
  \A w \in Waiters :
    pc[w] = "asleep" /\ Satisfied(need[w]) => ppc = "wake" /\ waiters # 0

\* Whoever Wait let through (line 58, line 70) still has its rows when it uses
\* them: no later publication takes them back, other than by failing the frame.
RowsStay ==
  \A w \in Waiters : pc[w] = "ok" => rows >= need[w] \/ rows = Error

\* The mutex and the waiter count of Wait and Publish implement the atomic wait
\* that the rest of the decoder relies on, its returning included.
Gate == INSTANCE RowGate WITH
          call <- [w \in Waiters |-> IF pc[w] \in InWait THEN "waiting" ELSE pc[w]]
ImplementsGate == Gate!GateSpec
=============================================================================
