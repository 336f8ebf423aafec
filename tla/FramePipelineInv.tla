-------------------------- MODULE FramePipelineInv --------------------------
(***************************************************************************)
(* The inductive invariant behind the safety of FramePipeline for streams  *)
(* whose frames are all frame-threadable (no "serial" or "newseq" input):  *)
(* where a surface that somebody still needs is accounted for, and that    *)
(* what accounts for it cannot retire first.                               *)
(***************************************************************************)
EXTENDS FramePipeline

AllThreadable == Inputs \cap {"serial", "newseq"} = {}

Decoding(c) == fc[c].busy /\ ~fc[c].existing

\* Enough beside TypeOK for the outputs to be surfaces, whatever the inputs.
OutputInv ==
  /\ \A c \in Contexts : fc[c].busy => fc[c].surface # None
  /\ pc = "finish" => active # None

TypeInv == TypeOK /\ OutputInv

\* The fields of a context that go together.
ContextInv ==
  \A c \in Contexts :
    /\ ~fc[c].busy => fc[c] = Idle
    /\ fc[c].existing => fc[c].phase = "idle" /\ fc[c].ok
    /\ fc[c].refs # {} => fc[c].phase = "run"

\* What the control point says about the rest.
ControlInv ==
  /\ pc \notin {"serial", "newseq", "showserial"}
  /\ pc \in {"frame", "show", "reclaim", "park"} => next = Succ(cur) /\ active = None
  /\ pc \in {"reclaim", "park"} => ~fc[cur].busy
  /\ pc \notin {"caller", "reset", "close", "closed"} => shown = {}
  /\ active # None /\ pc # "failed" => NoneBusy /\ ready = <<>>

\* Nobody's surface is in the pool, and nobody's surface is another's.
ActiveInv ==
  active # None =>
    /\ active \notin free \cup shown \cup Held(slot)
    /\ ~InReady(active)
    /\ \A c \in Contexts : fc[c].busy => active \notin fc[c].releases \cup fc[c].refs \cup {fc[c].surface}

ReadyInv == \A i \in DOMAIN ready : ready[i] \notin free

\* The target of a frame in flight is its own: only younger frames drop it
\* or show it, and they retire later.
TargetInv ==
  \A c \in Contexts : Decoding(c) =>
    /\ fc[c].surface \notin free \cup shown
    /\ ~InReady(fc[c].surface)
    /\ \A d \in Contexts \ {c} : fc[d].busy /\ fc[d].surface = fc[c].surface =>
         fc[d].existing /\ Older(c, d)
    /\ \A d \in Contexts : fc[d].busy /\ fc[c].surface \in fc[d].releases => Older(c, d)

\* A parked picture is in a slot, or a younger frame dropped it.
ParkedInv ==
  \A c \in Contexts : fc[c].existing =>
    \/ fc[c].surface \in Held(slot)
    \/ \E d \in Contexts : fc[d].busy /\ fc[c].surface \in fc[d].releases /\ Older(c, d)

\* A reference still to be read is in a slot, or the reader itself or a
\* younger frame dropped it; who decodes it is older.
ReferenceInv ==
  \A c \in Contexts : \A s \in fc[c].refs :
    /\ \/ s \in Held(slot)
       \/ \E d \in Contexts : fc[d].busy /\ s \in fc[d].releases /\ ~Older(d, c)
    /\ \A d \in Contexts : Decoding(d) /\ fc[d].surface = s => Older(d, c)

\* Progress that is not final has a running producer.
ProgressInv ==
  \A s \in Surfaces : progress[s] \in {"done", "error"} \/ \E d \in Contexts : Running(d) /\ fc[d].surface = s

SurfaceInv ==
  /\ ContextInv
  /\ ActiveInv
  /\ ReadyInv
  /\ ReleasedOnce
  /\ TargetInv
  /\ ParkedInv
  /\ ReferenceInv
  /\ ProgressInv

RingInv == TypeInv /\ ControlInv /\ SurfaceInv

-----------------------------------------------------------------------------
(* Where every surface is, and how many pictures a call can return, for     *)
(* streams of threadable frames that do not fail.                           *)

Clean == Inputs \subseteq {"show", "newseq", "reset", "close"}

Busy == {c \in Contexts : fc[c].busy}

\* A hidden frame needs no mention: it refreshed a slot.
Accounted(s) ==
  \/ s \in Held(slot) \cup shown
  \/ InReady(s)
  \/ \E c \in Contexts : fc[c].busy /\ (s \in fc[c].releases \/ (fc[c].show /\ fc[c].surface = s))

Between == {"caller", "reset", "close", "closed"}

\* The event the decode goroutine has taken and not yet put in the ring.
Taken == IF pc \in {"frame", "show", "reclaim", "park"} THEN 1 ELSE 0

\* A picture of this call was in flight when the call began, or is one of the
\* payload's events.
BatchBound ==
  pc \notin Between => Len(ready) + Cardinality(Busy) + budget + Taken <= N + MaxEvents

AccountsInv ==
  /\ active = None /\ ~err
  /\ \A s \in Surfaces : progress[s] # "error"
  /\ \A c \in Contexts : fc[c].ok
  /\ pc \notin {"serial", "finish", "showserial", "failed", "unread"}
  /\ pc \in {"reclaim", "park"} => ~fc[cur].busy
  /\ pc \notin Between => shown = {}
  /\ pc = "caller" => \A s \in Used : InReady(s) => s \in shown
  /\ \A s \in Used : Accounted(s)
  /\ BatchBound
=============================================================================
