------------------------- MODULE MCPersistentState -------------------------
(* PersistentState with the constants of the runs.                         *)
EXTENDS PersistentState, TLC

CONSTANTS k1, k2, v1
MCKeys == {k1, k2}
MCValues == {v1}
MCHeights == {1}
Symmetry == Permutations(MCKeys)
=============================================================================
