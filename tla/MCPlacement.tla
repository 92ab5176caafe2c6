----------------------------- MODULE MCPlacement -----------------------------
(***************************************************************************)
(* Placement for TLC: the symmetric sets of a small instance.              *)
(***************************************************************************)
EXTENDS Feed, TLC

Symmetry ==
    Permutations(EventId) \cup Permutations(Component) \cup Permutations(Request)
=============================================================================
