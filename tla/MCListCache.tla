---------------------------- MODULE MCListCache ----------------------------
(***************************************************************************)
(* Instances of ListCache for TLC.                                         *)
(***************************************************************************)
EXTENDS ListCache

\* Threads and addresses are interchangeable.
Symmetry == Permutations(Thread) \cup Permutations(Block)
=============================================================================
