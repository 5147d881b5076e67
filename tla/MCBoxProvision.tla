--------------------------- MODULE MCBoxProvision ---------------------------
(***************************************************************************)
(* BoxProvision for TLC.                                                   *)
(***************************************************************************)
EXTENDS BoxProvision, TLC

Symmetry == Permutations(Boxes) \cup Permutations(Commands)
=============================================================================
