----------------------------- MODULE MCTimeline -----------------------------
(***************************************************************************)
(* Timelines of two authors, in a world where a period has four seconds.   *)
(***************************************************************************)
EXTENDS Timeline

Symmetry == Permutations(Authors)
=============================================================================
