----------------------------- MODULE MCServers -----------------------------
(***************************************************************************)
(* Servers, for TLC.                                                       *)
(***************************************************************************)
EXTENDS Servers, TLC

Symmetry == Permutations(Thread) \cup Permutations(Fd) \cup Permutations(Cell)
=============================================================================
