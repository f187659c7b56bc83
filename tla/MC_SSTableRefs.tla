--------------------------- MODULE MC_SSTableRefs ---------------------------
(* Instances of SSTableRefs for TLC. *)
EXTENDS SSTableRefs, TLC

\* Files, tasks and snapshots are interchangeable.
Interchangeable == Permutations(Files) \cup Permutations(Tasks) \cup Permutations(Snaps)
=============================================================================
