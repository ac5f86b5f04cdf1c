-------------------------------- MODULE Boot --------------------------------
(***************************************************************************)
(* The boot pipeline (kai-os/integration/src/lib.rs): nine steps in a      *)
(* fixed order, each of which uses one component and stops the boot when   *)
(* that returns an error.  The components are those of the modules this    *)
(* one extends, fresh when the boot begins.  Once booted, the owner of the *)
(* system goes on with the keyring.                                        *)
(*                                                                         *)
(* What the code writes as literals is a constant here: agent, message,    *)
(* services.  The report is the list of steps that came before step.       *)
(***************************************************************************)
EXTENDS Lifecycle, Keyring, StateStore, Watchdog, Runtime, IpcGateway, Proposals

CONSTANTS TxLogs,        \* values of BootConfig.txs
          VmExec,        \* the sandbox "vm-exec"
          BootAgent,     \* the agent "kai-agent-1"
          BootTypes,     \* what it is registered for
          ProposeTx,     \* the type of its message
          BootProposal,  \* the id of its proposal
          NodeService,   \* the service "node-daemon"
          BootTolerance, \* tolerances of the services
          NotYet         \* a field of BootedSystem that is not there yet

ASSUME BootAssumption ==
    /\ TxLogs \subseteq Seq(Tx)
    /\ {"node-key", "agent-key"} \subseteq KeyIds
    /\ VmExec \in Sandboxes /\ NodeService \in Services /\ BootTolerance \in Tolerances
    /\ BootAgent \in Agents /\ BootTypes \subseteq MsgTypes /\ BootTypes # Unregistered
    /\ ProposeTx \in BootTypes
    /\ BootProposal \in ProposalIds
    /\ 1 \in Amounts /\ 1 <= MaxMsgSeq      \* what boot() asks for and sends
    /\ \A seed \in Seeds :
          NotYet # [public |-> seed, signature |-> [signer |-> seed, msg |-> BootProposal]]

VARIABLES step,          \* the step boot() is at, "booted" or "failed"
          cfg,           \* BootConfig
          lifecycle, store, snapshot,
          handoff,       \* proposal_signature and the public key it was checked with
          observed       \* what HealthGossip has of each service

booting == <<step, cfg, lifecycle, keys, store, snapshot, handoff, observed>>
composed == <<vars, sandboxes, gateway, proposals>>

BootInit ==
    /\ step = "lifecycle"
    /\ cfg \in [node_seed : Seeds, agent_seed : Seeds, txs : TxLogs]
    /\ lifecycle = "Init"
    /\ KeyringInit
    /\ store = EmptyStore /\ snapshot = NotYet
    /\ handoff = NotYet /\ observed = NotYet

\* The step succeeds or returns its error; the caller has no system then.
Outcome(ok, next) == step' = IF ok THEN next ELSE "failed"

Boots ==
    /\ step = "lifecycle"
    /\ lifecycle' = Transition(Transition(lifecycle, "Boot"), "Running")
    /\ Outcome(lifecycle' = "Running", "node-key")
    /\ UNCHANGED <<cfg, keys, store, snapshot, handoff, observed, composed>>

ImportsKey(at, id, kind, seed, next) ==
    /\ step = at
    /\ IF Known(id) THEN UNCHANGED keys ELSE ImportSeed(id, kind, seed)
    /\ Outcome(~Known(id), next)
    /\ UNCHANGED <<cfg, lifecycle, store, snapshot, handoff, observed, composed>>

\* Snapshot::verify_against
VerifiedAgainst(s, height, root) ==
    s.height = height /\ s.root = root /\ StateRoot(s.entries) = root

\* Steps 3 and 4: apply_all, and a snapshot checked against the root.
AppliesLog ==
    /\ step = "state"
    /\ store' = ApplyAll(store, cfg.txs)
    /\ snapshot' = [height |-> 1, entries |-> store', root |-> StateRoot(store')]
    /\ Outcome(VerifiedAgainst(snapshot', 1, StateRoot(store')), "sandbox")
    /\ UNCHANGED <<cfg, lifecycle, keys, handoff, observed, composed>>

\* The code asks for half of the quota, 50 of 100.
Computes ==
    /\ step = "sandbox"
    /\ LET ok == Fits(usage[VmExec]["cpu"], 1, capability[VmExec].limit["cpu"])
       IN  /\ IF ok THEN Consume(VmExec, "cpu", 1) ELSE UNCHANGED sandboxes
           /\ Outcome(ok, "register")
    /\ UNCHANGED <<cfg, lifecycle, keys, store, snapshot, handoff, observed>>
    /\ UNCHANGED <<vars, gateway, proposals>>

RegistersAgent ==
    /\ step = "register"
    /\ RegisterAgent(BootAgent, BootTypes)
    /\ Outcome(TRUE, "ipc")
    /\ UNCHANGED <<cfg, lifecycle, keys, store, snapshot, handoff, observed>>
    /\ UNCHANGED <<vars, sandboxes, proposals>>

\* audit().verify() follows: it recomputes what record() computed just before,
\* which nothing has changed, so that its error is never returned.
Delivers ==
    LET msg == [from_agent |-> BootAgent, msg_type |-> ProposeTx, seq |-> 1, complete |-> TRUE]
    IN  /\ step = "ipc"
        /\ IF Verdict(msg) = "ok" THEN Deliver(msg) ELSE Reject(msg)
        /\ Outcome(Verdict(msg) = "ok", "submit")
        /\ UNCHANGED <<cfg, lifecycle, keys, store, snapshot, handoff, observed>>
        /\ UNCHANGED <<vars, sandboxes, proposals>>

\* A call of the proposal registry, which fails in the wrong state.
Calls(at, expected, Call(_), next) ==
    /\ step = at
    /\ IF state[BootProposal] = expected THEN Call(BootProposal) ELSE UNCHANGED proposals
    /\ Outcome(state[BootProposal] = expected, next)
    /\ UNCHANGED <<cfg, lifecycle, keys, store, snapshot, handoff, observed>>
    /\ UNCHANGED <<vars, sandboxes, gateway>>

\* Mutant: the proposal is handed over before it is specified.
ProposesUnspecified ==
    \/ Calls("submit", NoProposal, Submit, "hand")
    \/ Calls("specify", "Proposed", MarkSpecified, "sign")
    \/ Calls("hand", "Specified", MarkHandedToVm, "specify")

Proposes ==
    \/ Calls("submit", NoProposal, Submit, "specify")
    \/ Calls("specify", "Proposed", MarkSpecified, "hand")
    \/ Calls("hand", "Specified", MarkHandedToVm, "sign")

SignsHandoff ==
    /\ step = "sign"
    /\ handoff' = IF Known("node-key")
                  THEN [public |-> PublicKey("node-key"),
                        signature |-> Sign("node-key", BootProposal)]
                  ELSE NotYet
    /\ Outcome(/\ handoff' # NotYet
               /\ VerifyMsg(handoff'.public, BootProposal, handoff'.signature), "health")
    /\ UNCHANGED <<cfg, lifecycle, keys, store, snapshot, observed, composed>>

RegistersService ==
    /\ step = "health"
    /\ \E s \in Services : Register(s, BootTolerance)
    /\ UNCHANGED <<booting, sandboxes, gateway, proposals>>

\* HealthStatus::from
StatusFrom(serviceState) ==
    CASE serviceState = "Running" -> "Healthy"
      [] serviceState = "Stale" -> "Stale"
      [] serviceState = "DeclaredDead" -> "Dead"

Observes ==
    /\ step = "health"
    /\ Registered = Services
    /\ observed' = [s \in Services |-> StatusFrom(services[s].state)]
    /\ Outcome(services[NodeService].state = "Running", "booted")
    /\ UNCHANGED <<cfg, lifecycle, keys, store, snapshot, handoff, composed>>

\* The booted system's keyring: keys are rotated, revoked, imported anew.
UsesKeyring ==
    /\ step = "booted"
    /\ KeyringNext
    /\ UNCHANGED <<step, cfg, lifecycle, store, snapshot, handoff, observed, composed>>

BootNext ==
    \/ Boots
    \/ ImportsKey("node-key", "node-key", "NodeIdentity", cfg.node_seed, "agent-key")
    \/ ImportsKey("agent-key", "agent-key", "AgentSigning", cfg.agent_seed, "state")
    \/ AppliesLog \/ Computes
    \/ RegistersAgent \/ Delivers \/ Proposes
    \/ SignsHandoff
    \/ RegistersService \/ Observes
    \/ UsesKeyring

BootSpec ==
    /\ Init /\ SandboxInit /\ GatewayInit /\ ProposalsInit /\ BootInit
    /\ [][BootNext]_<<booting, composed>>
----------------------------------------------------------------------------
\* Type invariant of what boot() adds to its components.
BootTypeOK ==
    /\ KeyringTypeOK
    /\ store \in Store
    /\ step \in {"lifecycle", "node-key", "agent-key", "state", "sandbox", "register",
                 "ipc", "submit", "specify", "hand", "sign", "health", "booted", "failed"}

\* "Ein System bootet deterministisch oder gar nicht ... es gibt kein teilweise
\* gebootetes System" (integration/src/lib.rs, 3-6): no configuration makes
\* a step fail, equal seeds included; a booted system is complete, in the
\* state its log gives; and the handoff it signed verifies with the key kept
\* from the boot, and no other, however the key is rotated, revoked and
\* imported again (keyring.rs, 6-7).
BootIsWhole ==
    /\ step # "failed"
    /\ step = "booted" =>
           /\ lifecycle = "Running"
           /\ snapshot.root = StateRoot(ApplyAll(EmptyStore, cfg.txs))
           /\ state[BootProposal] = "HandedToVM"
           /\ {receipts[i].msg.msg_type : i \in DOMAIN receipts} = {ProposeTx}
           /\ \A s \in Services : observed[s] = "Healthy"
           /\ \A seed \in Seeds :
                  VerifyMsg(seed, BootProposal, handoff.signature) <=> seed = cfg.node_seed
=============================================================================
