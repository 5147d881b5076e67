---------------------------- MODULE MCSnapshots ----------------------------
(***************************************************************************)
(* Snapshots for TLC: two commands, one saved environment and one clone.   *)
(***************************************************************************)
EXTENDS Snapshots, TLC

=============================================================================
