---------------------------- MODULE MCSyncEngine ----------------------------
(* SyncEngine with the constants of its run.  An empty block keeps whatever *)
(* state the engine started from.                                           *)
EXTENDS SyncEngine

CONSTANTS k1, v1, n1, n2
MCKeys == {k1}
MCValues == {v1}
MCNodes == {n1, n2}
MCTxLists == {<<>>,
              <<[type |-> "Set", key |-> k1, value |-> v1]>>,
              <<[type |-> "Set", key |-> k1, value |-> v1],
                [type |-> "Remove", key |-> k1, value |-> Absent]>>}
=============================================================================
