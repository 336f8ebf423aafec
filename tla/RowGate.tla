------------------------------ MODULE RowGate ------------------------------
(***************************************************************************)
(* What a frame progress promises its callers: a Wait is one atomic step,  *)
(* taken when the rows it needs are published or the frame has failed, and *)
(* a Wait whose rows are published does return.  The waits of              *)
(* FramePipeline, RowPipe and ReconWavefront on a frame progress are       *)
(* guards of exactly this form.                                            *)
(***************************************************************************)
EXTENDS Integers

CONSTANTS
  Waiters,  \* the goroutines that wait for rows
  Done      \* FrameProgressDone: at least every row count a caller needs

\* FrameProgressError: the frame failed to decode.
Error == -1

VARIABLES
  rows,   \* the published row count
  call,   \* where each waiter stands
  need    \* the rows each waiter asked for

gateVars == <<rows, call, need>>

GateInit ==
  /\ rows = 0
  /\ call = [w \in Waiters |-> "idle"]
  /\ need = [w \in Waiters |-> 0]

Satisfied(n) == rows >= n \/ rows = Error

CallWait(w, n) ==
  /\ call[w] = "idle"
  /\ call' = [call EXCEPT ![w] = "waiting"]
  /\ need' = [need EXCEPT ![w] = n]
  /\ UNCHANGED rows

ReturnWait(w) ==
  /\ call[w] = "waiting"
  /\ Satisfied(need[w])
  /\ call' = [call EXCEPT ![w] = IF rows = Error THEN "failed" ELSE "ok"]
  /\ UNCHANGED <<rows, need>>

\* The caller has read the rows, or has given up on the failed frame.
UseRows(w) ==
  /\ call[w] \in {"ok", "failed"}
  /\ call' = [call EXCEPT ![w] = "idle"]
  /\ UNCHANGED <<rows, need>>

\* The one goroutine that owns the frame raises the count or ends the frame.
PublishRows(v) ==
  /\ v = Error \/ (rows # Error /\ v >= rows)
  /\ rows' = v
  /\ UNCHANGED <<call, need>>

\* The surface is taken for a new frame: nobody waits for the old one.
ResetRows ==
  /\ \A w \in Waiters : call[w] = "idle"
  /\ rows' = 0
  /\ UNCHANGED <<call, need>>

GateNext ==
  \/ \E w \in Waiters :
       \/ \E n \in 0 .. Done : CallWait(w, n)
       \/ ReturnWait(w)
       \/ UseRows(w)
  \/ \E v \in Error .. Done : PublishRows(v)
  \/ ResetRows

GateSafety == GateInit /\ [][GateNext]_gateVars

GateSpec == GateSafety /\ \A w \in Waiters : WF_gateVars(ReturnWait(w))
=============================================================================
