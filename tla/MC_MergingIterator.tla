-------------------------- MODULE MC_MergingIterator --------------------------
(* Instances of MergingIterator for TLC. *)
EXTENDS MergingIterator
==============================================================================
