---------------------------- MODULE MC_WriteStall ----------------------------
(* Instances of WriteStall for TLC. *)
EXTENDS WriteStall
==============================================================================
