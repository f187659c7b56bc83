---------------------------- MODULE MC_WalWriter ----------------------------
(* Instances of WalWriter for TLC. *)
EXTENDS WalWriter
=============================================================================
