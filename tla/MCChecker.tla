------------------------------ MODULE MCChecker -------------------------------
(***************************************************************************)
(* Instances of Checker for TLC.  Requests are interchangeable; ids, dates *)
(* and instants are ordered and are not.                                   *)
(***************************************************************************)
EXTENDS Checker, TLC

Symmetry == Permutations(Request)
===============================================================================
