---------------------------- MODULE MC_LSMEngine ----------------------------
(* Instances of LSMEngine for TLC. *)
EXTENDS LSMEngine, TLC

\* Values are only compared for equality.
ValueSymmetry == Permutations(Vals)

\* Exploration stops where two workers have written the same SSTable name.
NoCollisionYet == "file_collision" \notin exposed

\* After a LogWriter's own rotation it goes on without I/O failures and without a
\* Snapshot (`wop` is then "snapshot" until the next Write).
OneMisfortune ==
  NoCollisionYet /\ ("wal_rotation" \in exposed => faults = 0 /\ wop = "write")
=============================================================================
