---------------------------- MODULE FreeSurfaces ----------------------------
(***************************************************************************)
(* The pool as FramePipeline uses it: a set of free surfaces.  Any of them *)
(* may be handed out, what is in use is returned once, and a call that is  *)
(* refused changes nothing.                                                *)
(***************************************************************************)
CONSTANT Surfaces

VARIABLES
  free,
  live,   \* the surfaces callers have
  ok      \* the last call succeeded

poolVars == <<free, live, ok>>

Init == free = Surfaces /\ live = {} /\ ok = TRUE

Acquire ==
  /\ \E s \in free : free' = free \ {s} /\ live' = live \cup {s}
  /\ ok' = TRUE

Release ==
  /\ \E S \in SUBSET live : free' = free \cup S /\ live' = live \ S
  /\ ok' = TRUE

Refuse == ok' = FALSE /\ UNCHANGED <<free, live>>

Reset == free' = Surfaces /\ live' = {} /\ ok' = TRUE

Next == Acquire \/ Release \/ Refuse \/ Reset

Spec == Init /\ [][Next]_poolVars
=============================================================================
