---------------------------- MODULE MCComponents ------------------------------
(* A calendar of three months, two to a year. *)
EXTENDS Components, TLC

Lengths == <<2, 1, 2>>

Interchangeable == Permutations(Poster) \cup Permutations(Incident)
===============================================================================
