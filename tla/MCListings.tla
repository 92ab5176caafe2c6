----------------------------- MODULE MCListings -------------------------------
(***************************************************************************)
(* Listings for TLC: the writers are interchangeable, and so are the       *)
(* events but the one that is edited.                                      *)
(***************************************************************************)
EXTENDS Listings

Interchangeable == Permutations(Writer) \cup Permutations(Event \ {Edited})
===============================================================================
