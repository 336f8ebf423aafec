----------------------------- MODULE MCSurfaces -----------------------------
(***************************************************************************)
(* The surfaces' owners in one run, each by itself: the frame pool, and a  *)
(* serial decoder with two reference slots and three surfaces.             *)
(***************************************************************************)
EXTENDS SurfacePool, SerialDecode, TLC

CONSTANTS s1, s2

VARIABLE part

F(key, show, refresh, refs) ==
  [key |-> key, inter |-> refs # {}, show |-> show, refresh |-> refresh, refs |-> refs]

\* A key frame, one shown later, a hidden frame and one that is shown and
\* refreshes nothing.
SentFrames == {F(TRUE, TRUE, Slots, {}), F(TRUE, FALSE, {s1}, {}),
               F(FALSE, FALSE, {s2}, {s1}), F(FALSE, TRUE, {}, Slots)}

ASSUME NoOrphans

PartsInit == PoolInit /\ Init /\ part \in {"pool", "decoder"}
PartsNext ==
  /\ \/ part = "pool" /\ PoolNext /\ UNCHANGED vars
     \/ part = "decoder" /\ Next /\ UNCHANGED poolVars
  /\ UNCHANGED part
PartsSpec == PartsInit /\ [][PartsNext]_<<part, poolVars, vars>>

Alike == Permutations(Surfaces)
=============================================================================
