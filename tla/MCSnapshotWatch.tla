-------------------------- MODULE MCSnapshotWatch --------------------------
(* Two overlapping polls and two blocks at the snapshot height for TLC. *)
EXTENDS SnapshotWatch
=============================================================================
