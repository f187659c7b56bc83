--------------------------- MODULE MC_SqlStatements ---------------------------
(* Instances of SqlStatements for TLC. *)
EXTENDS SqlStatements, TLC

\* Sessions and table names are only compared for equality.
NameSymmetry == Permutations(Sessions) \cup Permutations(Tabs)
=============================================================================
