---------------------------- MODULE MCRingEvents ----------------------------
(***************************************************************************)
(* Two kinds of streams through the ring: payloads of one event of any     *)
(* kind, with Reset and Close, and payloads of several shown frames.       *)
(***************************************************************************)
EXTENDS MCFramePipeline

VARIABLE streams

\* What the streams of a kind leave out: the second event of a payload, or
\* every event but a frame and a shown slot.
Expected ==
  /\ streams = "mixed" => ~(budget = 1 /\ budget' = 0 /\ pc = "events" /\ pc' # "caller")
  /\ streams = "shown" => pc' \notin {"serial", "showserial", "newseq", "reset", "close"}

EventsInit == Init /\ streams \in {"shown", "mixed"}
EventsNext == Next /\ Expected /\ UNCHANGED streams
EventsSpec == EventsInit /\ [][EventsNext]_<<vars, streams>>

EventsView == <<View, streams>>
=============================================================================
