-------------------------- MODULE MCFramePipeline --------------------------
(***************************************************************************)
(* Small instances of FramePipeline.  Surfaces are interchangeable, and    *)
(* seven of them have too many permutations for a SYMMETRY set: View is    *)
(* the same reduction, by what the state says of each surface.             *)
(***************************************************************************)
EXTENDS FramePipelineInv

MCSurfaces == 1 .. RefFrames + 1 + 2 * N

\* Every place of the state where surface s is named; the slots, too, are
\* interchangeable.
Roles(s) ==
  <<s \in free, progress[s], s = active, s \in shown,
    {i \in DOMAIN ready : ready[i] = s},
    Cardinality({i \in Slots : slot[i] = s}),
    {c \in Contexts : fc[c].surface = s},
    {c \in Contexts : s \in fc[c].refs},
    {c \in Contexts : s \in fc[c].releases}>>

\* How many surfaces have which roles, and everything that names no surface.
View ==
  <<LET roles == {<<Roles(s), s>> : s \in Surfaces}
    IN  {<<r[1], Cardinality({t \in roles : t[1] = r[1]})>> : r \in roles},
    [c \in Contexts |-> <<fc[c].busy, fc[c].existing, fc[c].show, fc[c].phase, fc[c].ok>>],
    next, err, pc, cur, budget>>

\* The weaker reduction of the liveness run: of the free surfaces nothing but
\* their names tells apart, the least is acquired.
Canonical ==
  free' \subseteq free => \A s \in free \ free', t \in free : Roles(s) = Roles(t) => s <= t
=============================================================================
