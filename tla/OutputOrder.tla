---------------------------- MODULE OutputOrder ----------------------------
(***************************************************************************)
(* What a decoder with frames in flight promises its caller: pictures come *)
(* out in the order their frames were submitted, each at most once, and a  *)
(* picture that skips the queue does so only when nothing is queued.       *)
(***************************************************************************)
EXTENDS Sequences

CONSTANT Pictures

VARIABLES
  pending,   \* pictures of the frames in flight, in submission order
  out        \* pictures the current call has so far

Init == pending = <<>> /\ out = <<>>

Submit(p) == pending' = Append(pending, p) /\ UNCHANGED out

Emit ==
  /\ pending # <<>>
  /\ out' = Append(out, Head(pending))
  /\ pending' = Tail(pending)

\* The frame failed: the call reports its error and no picture.
Lose ==
  /\ pending # <<>>
  /\ pending' = Tail(pending)
  /\ UNCHANGED out

\* A picture decoded by the calling goroutine itself.
Direct(p) == pending = <<>> /\ out' = Append(out, p) /\ UNCHANGED pending

\* The next call, or the error return of this one.
Clear == out' = <<>> /\ UNCHANGED pending

Next ==
  \/ \E p \in Pictures : Submit(p) \/ Direct(p)
  \/ Emit
  \/ Lose
  \/ Clear

Spec == Init /\ [][Next]_<<pending, out>>
=============================================================================
