----------------------------- MODULE IpcGateway -----------------------------
(***************************************************************************)
(* The gateway AI agents send their messages through                       *)
(* (kai-os/ai/src/ipc.rs) and the audit pipeline it writes (audit.rs).     *)
(* Callers may register an agent again at any time, and messages come in   *)
(* any order and more than once.                                           *)
(*                                                                         *)
(* Of a payload it matters whether the fields its type requires are there. *)
(* An event of the audit is its actor and kind; its sequence number is its *)
(* place, and what the chained hash of an event commits to is the pipeline *)
(* up to it.                                                               *)
(***************************************************************************)
EXTENDS Naturals, Sequences

CONSTANTS Agents,      \* agent ids; none is called "ipc-gateway"
          Schemas,     \* message types with an entry in SCHEMAS
          OtherTypes,  \* message types without
          Unregistered,\* not in the map capabilities
          MaxMsgSeq,   \* bound on sequence numbers of messages
          MaxEvents    \* bound on calls of the gateway

ASSUME GatewayAssumption ==
    /\ "ipc-gateway" \notin Agents
    /\ MaxMsgSeq \in Nat /\ MaxEvents \in Nat

MsgTypes == Schemas \cup OtherTypes
IpcMessage == [from_agent : Agents, msg_type : MsgTypes, seq : 0..MaxMsgSeq,
               complete : BOOLEAN]

VARIABLES capabilities,   \* allowed message types of each agent
          last_seq,       \* 0 for an agent that has none
          audit,          \* AuditPipeline.events
          receipts        \* history: receipts handed out, with their message

gateway == <<capabilities, last_seq, audit, receipts>>

GatewayInit ==
    /\ capabilities = [a \in Agents |-> Unregistered]
    /\ last_seq = [a \in Agents |-> 0]
    /\ audit = <<>>
    /\ receipts = <<>>

\* AuditPipeline::record
Record(actor, kind) == audit' = Append(audit, [actor |-> actor, kind |-> kind])

\* Mutant: a new registration starts a new sequence.
RegisterAgentAnew(a, types) ==
    /\ Len(audit) < MaxEvents
    /\ capabilities' = [capabilities EXCEPT ![a] = types]
    /\ last_seq' = [last_seq EXCEPT ![a] = 0]
    /\ Record("ipc-gateway", "agent_registered")
    /\ UNCHANGED receipts

\* register_agent replaces the capabilities; last_seq goes on.
RegisterAgent(a, types) ==
    /\ Len(audit) < MaxEvents
    /\ capabilities' = [capabilities EXCEPT ![a] = types]
    /\ Record("ipc-gateway", "agent_registered")
    /\ UNCHANGED <<last_seq, receipts>>

\* check_schema: a type without a schema has no required fields.
CheckSchema(msg) == msg.msg_type \in Schemas => msg.complete

\* The checks of deliver, in their order: the kind it records, or "ok".
Verdict(msg) ==
    LET caps == capabilities[msg.from_agent]
    IN  IF caps = Unregistered THEN "rejected_unknown_agent"
        ELSE IF msg.msg_type \notin caps THEN "rejected_capability"
        ELSE IF msg.seq <= last_seq[msg.from_agent] THEN "rejected_replay"
        ELSE IF ~CheckSchema(msg) THEN "rejected_schema"
        ELSE "ok"

Reject(msg) ==
    /\ Len(audit) < MaxEvents
    /\ Verdict(msg) # "ok"
    /\ Record("ipc-gateway", Verdict(msg))
    /\ UNCHANGED <<capabilities, last_seq, receipts>>

Deliver(msg) ==
    /\ Len(audit) < MaxEvents
    /\ Verdict(msg) = "ok"
    /\ last_seq' = [last_seq EXCEPT ![msg.from_agent] = msg.seq]
    /\ Record(msg.from_agent, msg.msg_type)
    /\ receipts' = Append(receipts, [msg |-> msg, audit_seq |-> Len(audit) + 1])
    /\ UNCHANGED capabilities

GatewayNext ==
    \/ \E a \in Agents, types \in SUBSET MsgTypes : RegisterAgent(a, types)
    \/ \E msg \in IpcMessage : Reject(msg) \/ Deliver(msg)

GatewaySpec == GatewayInit /\ [][GatewayNext]_gateway
----------------------------------------------------------------------------
\* Type invariant.
GatewayTypeOK ==
    /\ \A a \in Agents : capabilities[a] # Unregistered => capabilities[a] \subseteq MsgTypes
    /\ last_seq \in [Agents -> 0..MaxMsgSeq]
    /\ audit \in Seq([actor : Agents \cup {"ipc-gateway"},
                      kind : MsgTypes \cup {"agent_registered", "rejected_unknown_agent",
                                            "rejected_capability", "rejected_replay",
                                            "rejected_schema"}])
    /\ receipts \in Seq([msg : IpcMessage, audit_seq : Nat])

\* "Replay-Schutz: strikt monoton pro Agent" (ipc.rs, 140) and "jeder Schritt
\* auditierbar" (117), over registrations and rejections: a message gets no
\* second receipt, none after a later one of its agent, and the events the
\* audit has of agents are the receipts, each where its receipt says.
ReceiptsAreUnique ==
    /\ \A i, j \in DOMAIN receipts :
           i < j /\ receipts[i].msg.from_agent = receipts[j].msg.from_agent
               => receipts[i].msg.seq < receipts[j].msg.seq
    /\ \A i \in DOMAIN receipts :
           audit[receipts[i].audit_seq] =
               [actor |-> receipts[i].msg.from_agent, kind |-> receipts[i].msg.msg_type]
    /\ {n \in DOMAIN audit : audit[n].actor \in Agents}
           = {receipts[i].audit_seq : i \in DOMAIN receipts}
=============================================================================
