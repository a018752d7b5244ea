--------------------------- MODULE MCTinyBaseline ---------------------------
(***************************************************************************)
(* Instances of TinyBaseline for TLC.  Liveness is checked, so no symmetry *)
(* is used.                                                                *)
(***************************************************************************)
EXTENDS TinyBaseline
=============================================================================
