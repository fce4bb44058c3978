----------------------------- MODULE MCRootDir ------------------------------
(* A small root directory for TLC. *)
EXTENDS RootDir, TLC

CONSTANTS n1, n2
TwoNames    == {n1, n2}
NamesMatter == Permutations(TwoNames)
=============================================================================
