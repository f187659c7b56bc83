-------------------------- MODULE MC_SnapshotServer --------------------------
(* Instances of SnapshotServer for TLC. *)
EXTENDS SnapshotServer, TLC
==============================================================================
