--------------------------- MODULE MCSyncDaemon ----------------------------
(* Two transactions that set different keys, as deterministic_txs does.    *)
EXTENDS SyncDaemon

CONSTANTS k1, k2, v1

MCTxs == <<[type |-> "Set", key |-> k1, value |-> v1],
           [type |-> "Set", key |-> k2, value |-> v1]>>
=============================================================================
