------------------------ MODULE MCTrustedLocalSessions ------------------------
(***************************************************************************)
(* TrustedLocalSessions with symmetry for TLC.  Requests are treated alike *)
(* by every action and every safety property, and so are subjects; the     *)
(* liveness run uses no symmetry.                                          *)
(***************************************************************************)
EXTENDS TrustedLocalSessionsInvariant, TLC

Symmetry == Permutations(Requests) \cup Permutations(Subjects)
===============================================================================
