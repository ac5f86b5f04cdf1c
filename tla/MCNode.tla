------------------------------- MODULE MCNode -------------------------------
(***************************************************************************)
(* The node daemon and its audit log.  The daemon drops the errors of the  *)
(* log and never reads it, so that neither depends on the steps of the     *)
(* other: each behaviour lets one of them run.                             *)
(***************************************************************************)
EXTENDS MCNodeDaemon, NodeAudit

VARIABLE part     \* the part that runs

NodeInit ==
    /\ part \in {"daemon", "audit"} /\ Init /\ AuditInit
    /\ part = "audit" => names = <<"consensus", "p2p", "storage">>

NodeNext ==
    /\ UNCHANGED part
    /\ \/ part = "daemon" /\ Next /\ UNCHANGED audit
       \/ part = "audit" /\ AuditNext /\ UNCHANGED vars

\* The daemon's thread goes on (NodeDaemon); nobody has to record anything.
NodeSpec ==
    /\ NodeInit /\ [][NodeNext]_<<part, vars, audit>>
    /\ part = "daemon" => WF_vars(DaemonStep)

\* The type invariants of both parts (supervisor.rs, lifecycle.rs, audit.rs).
NodeTypeOK == TypeOK /\ AuditTypeOK
=============================================================================
