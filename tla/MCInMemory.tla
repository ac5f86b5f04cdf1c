----------------------------- MODULE MCInMemory -----------------------------
(***************************************************************************)
(* The parts of the system that keep their state in memory and to          *)
(* themselves: watchdog and gossip (health), sandboxes and scheduler       *)
(* (runtime), gateway, proposals and models (ai), the package manager      *)
(* (pkg).  They share no state, so that what one does never depends on the *)
(* steps of another: each behaviour lets one of them run, or the boot,     *)
(* which puts most of them together.                                       *)
(*                                                                         *)
(* Tolerances of 0, the least that tell the states apart, and the largest  *)
(* value of the type, here 15: (1, 14) just fits, (3, 15) does not.  One   *)
(* open and one closed capability, and one that build() rejects; amounts   *)
(* up to the largest u64, here 3, so that sums wrap; two ids               *)
(* that are registered more than once; two agents, of whose message types  *)
(* one has no schema; a cache of at most two entries for three models.     *)
(***************************************************************************)
EXTENDS Boot, HealthGossip, Scheduler, ModelStore, MCPackages, TLC

VARIABLE part     \* the part that runs

Tolerance(stale, dead) == [stale_after |-> stale, dead_after |-> dead]
MCTolerances == {Tolerance(0, 0), Tolerance(1, 0), Tolerance(1, 2), Tolerance(0, 5),
                 Tolerance(1, 14), Tolerance(3, 15)}

Capability(cpu, memory, storage, allowed) ==
    [limit |-> [q \in Quotas |-> CASE q = "cpu" -> cpu [] q = "memory" -> memory
                                   [] q = "storage" -> storage],
     allow |-> [d \in Directions |-> IF d = "out" THEN allowed ELSE {}]]

MCCapabilities ==
    {Capability(1, 2, 1, {}), Capability(1, 1, 1, Ports), Capability(0, 2, 1, Ports)}

Symmetry == Permutations(Nodes)

MCTxLogs ==
    LET set(v) == [type |-> "Set", key |-> "k", value |-> v]
        remove == [type |-> "Remove", key |-> "k", value |-> Absent]
    IN  {<<>>, <<set("v1")>>, <<set("v1"), set("v2")>>, <<set("v1"), remove>>}
MCBootTolerance == Tolerance(1, 2)

InMemoryInit ==
    /\ part \in {"watchdog", "gossip", "sandboxes", "scheduler", "gateway", "proposals",
                 "models", "packages", "boot"}
    /\ Init /\ GossipInit /\ SandboxInit /\ SchedulerInit /\ GatewayInit
    /\ ProposalsInit /\ ModelStoreInit /\ PackagesInit /\ BootInit
    \* A part that does not run stays in one initial state.
    /\ part # "sandboxes" => capability = [s \in Sandboxes |-> Capability(1, 2, 1, {})]
    /\ part # "models" => max_entries = 0
    /\ part # "boot" => cfg = [node_seed |-> "seed1", agent_seed |-> "seed1", txs |-> <<>>]

\* The part p runs alone: the state of all others stays.
Runs(p) ==
    /\ part = p
    /\ p # "watchdog" => UNCHANGED vars
    /\ p # "gossip" => UNCHANGED gossip
    /\ p # "sandboxes" => UNCHANGED sandboxes
    /\ p # "scheduler" => UNCHANGED schedule
    /\ p # "gateway" => UNCHANGED gateway
    /\ p # "proposals" => UNCHANGED proposals
    /\ p # "models" => UNCHANGED modelStore
    /\ p # "packages" => UNCHANGED registry
    /\ UNCHANGED booting

InMemoryNext ==
    /\ UNCHANGED part
    /\ \/ Runs("watchdog") /\ Next
       \/ Runs("gossip") /\ GossipNext
       \/ Runs("sandboxes") /\ SandboxNext
       \/ Runs("scheduler") /\ SchedulerNext
       \/ Runs("gateway") /\ GatewayNext
       \/ Runs("proposals") /\ ProposalsNext
       \/ Runs("models") /\ ModelStoreNext
       \/ Runs("packages") /\ PackagesNext
       \/ part = "boot" /\ BootNext /\ UNCHANGED <<gossip, schedule, modelStore, registry>>

InMemorySpec ==
    /\ InMemoryInit
    /\ [][InMemoryNext]_<<part, vars, gossip, sandboxes, schedule, gateway, proposals,
                          modelStore, registry, booting>>

\* The type invariants of all parts: among them, no heartbeat lies in the
\* future (watchdog.rs), counters stay in the range of u64 (resources.rs),
\* the cursor inside the vector (scheduler.rs), the cache within its limit
\* and its order one with its entries (verified_cache.rs).
InMemoryTypeOK ==
    /\ TypeOK /\ GossipTypeOK /\ SandboxTypeOK /\ ScheduleTypeOK /\ GatewayTypeOK
    /\ ProposalsTypeOK /\ ModelStoreTypeOK /\ PackagesTypeOK /\ BootTypeOK
=============================================================================
