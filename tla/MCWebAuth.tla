------------------------------- MODULE MCWebAuth -------------------------------
(***************************************************************************)
(* WebAuth with symmetry for TLC: all requests are treated alike.          *)
(***************************************************************************)
EXTENDS WebAuthInvariant, TLC

Symmetry == Permutations(Requests)
===============================================================================
