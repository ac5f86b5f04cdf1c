# kai-os in TLA+

A verification project for the Rust workspace `kai-os/` of a-townchain-os: TLA+
modules of its components, TLC configurations that check them on small
instances, and TLAPS proofs of the properties that matter most for every value
of the constants. `PROJECT.json` lists the components, the runs, the lines each
definition models, the hazards, the findings and the theorems.

    tlc -workers 2 -config PersistentState.cfg MCPersistentState
    tlapm PersistentStateProofs.tla

## 1. The system

kai-os is a set of library crates and two daemons. Everything is deterministic
and, apart from the daemons, free of threads and clocks: time is a tick counter
the caller advances. What is hard lies between calls: crashes between two
writes, messages in another order, a failing step of several, sums at the end
of their range.

| Component | State | Operations | Hard behaviour | What makes it correct |
|---|---|---|---|---|
| StateStore (`state/state.rs`) | map of keys to values | `apply`, `apply_all` | order of transactions | the same transactions give the same state |
| Merkle tree (`state/merkle.rs`) | none | `root`, `prove`, `verify_proof` | odd numbers of nodes, text encoding | proofs verify exactly for what is there; the root determines the store, as far as the text of leaves does |
| Write-ahead log, PersistentState (`state/wal.rs`, `persistence.rs`) | log file, snapshot file, `store`, `seq`, `prev_hash` | `open`, `apply`, `checkpoint` | crash, power loss or failed write between any two system calls | what was acknowledged survives, and whatever a crash leaves can be opened; both recovery paths agree |
| SyncEngine (`state/sync.rs`, `snapshot.rs`) | tip, applied blocks, state | `apply_block`, `from_verified_snapshot` | blocks repeated, reordered, forked | the same tip means the same state and history |
| Sync daemon (`syncd`) | two processes, each with a PersistentState, TCP connections | source: apply, checkpoint, connect, send, await; sink: accept, verify, persist, ack | kill between two steps or inside an append, timeout, retry, stray connections | an ack means saved; nothing confirmed is lost; nobody waits forever |
| Node daemon (`node`) | lifecycle, supervised subsystems, shutdown flag | boot, tick, restart, drain, signal | a subsystem call fails; a signal at any point | rollback leaves nothing up; shutdown always ends |
| Node audit log (`node/audit.rs`) | events of this run, a file all runs share | `to_file`, `record`, `verify_chain` | failing or cut off writes, several runs on one file | what a reader finds is a chain of what was recorded |
| Watchdog (`health/watchdog.rs`) | service entries, tick | `register`, `heartbeat`, `tick`, `restart` | limits, overflow | each state exactly at its limit |
| Health gossip (`health/gossip.rs`) | observations per observer | `observe`, `snapshot`, `merge`, `consensus_view` | snapshots lost, repeated, reordered | newest entry wins, views agree |
| Sandbox runtime (`runtime/sandbox.rs`, `resources.rs`, `capability.rs`) | usage per sandbox | `execute`, `reset_tick` | shared books, overflow | no quota is exceeded while no sum wraps |
| Scheduler (`runtime/scheduler.rs`) | order, cursor | `register`, `next_turn` | registering between turns | nobody is passed over |
| Peer authentication, sessions (`network/auth.rs`, `session.rs`) | nonces, registry, sequence numbers | `issue`, `answer`, `verify`, `send`, `receive` | messages lost, repeated, reordered, reflected; an id opened again; a nonce changed on its way | handshakes are mutual; each session delivers in order and once |
| Peer discovery (`network/discovery.rs`, `peer.rs`) | peer store | announce, list, `evict_stale` | old lists | fresh peers stay |
| TCP transport (`network/tcp.rs`, `transport.rs`) | read buffer | `send`, `receive` | frames cut anywhere, several in one read, timeout and retry, oversized frames | whole messages, in order, once |
| Protocol upgrade (`network/upgrade.rs`) | none | `negotiate`, `decode_checked` | each end decides alone, upgrades one end at a time | both choose the same version, the best there is |
| IPC gateway (`ai/ipc.rs`, `audit.rs`) | capabilities, last sequence numbers, audit events | `register_agent`, `deliver` | registering again, messages again | no second receipt; the audit is the receipts |
| Proposals (`ai/proposal.rs`) | state of each proposal, audit events | `submit`, `mark_specified`, `mark_handed_to_vm` | submitting again at any time | each proposal goes through its lifecycle once |
| Verified cache, model registry (`ai/verified_cache.rs`, `model_registry.rs`) | manifests; entries and their order | `publish`, `put`, `get` | limits of 0 and 1, a key put again, damaged bytes | what is served for a published manifest is what the registry says |
| Keyring (`keyring`) | keys | `import_seed`, `revoke`, `rotate`, `sign` | an id that comes back with another seed | old signatures verify with the old public key only |
| Package manager (`pkg`) | registry, lockfiles | `publish`, `resolve`, `from_plan`, `verify` | diamonds, cycles, publishing between two calls | a complete plan without cycles; a lockfile stays valid |
| Boot pipeline (`integration`) | the components it has made | `boot` | one of nine steps fails | a complete system or none |
| CLI (`cli`) | none | calls the others | none | none of its own |

How they interact: PersistentState is built on StateStore, the log and the
snapshot file; SyncEngine on StateStore and the Merkle root; each process of the
sync daemon owns a PersistentState and talks to the other over TCP. The node
daemon supervises subsystems through a trait and shares one flag with its signal
handler, and writes the audit log, whose errors it drops. The sandboxes share one
ResourceManager. Sessions are opened with the ids the handshake produced. The
messages of the sync daemon are frames of the TCP transport. The other crates
do not call each other, except for `integration`, which makes one instance of
most of them and drives it to a booted system, and `cli`.

## 2. Modules

| Module | Models | Built on |
|---|---|---|
| `StateStore` | `state.rs`: stores, transactions, the root as the set of entries | |
| `Merkle` | `merkle.rs` with its text encoding | StateStore |
| `WriteAheadLog` | the two files and what `open` reads from them | StateStore |
| `PersistentState` | a process on its files, with crashes and I/O errors | WriteAheadLog |
| `DurableStore` | abstract: an atomic, durable store; PersistentState implements it | StateStore |
| `SyncEngine` | engines on several nodes and the blocks that reach them | StateStore |
| `SyncDaemon` | source and sink process, composed with two sets of files | WriteAheadLog |
| `Framing` | one direction of a TCP connection, as bytes | |
| `Channel` | abstract: whole messages in order; Framing implements it | |
| `Lifecycle` | the states of a node | |
| `NodeDaemon` | main loop, supervisor, shutdown, signal | Lifecycle |
| `NodeAudit` | the audit file of the daemon | |
| `Watchdog`, `HealthGossip` | `health` | |
| `Runtime`, `Scheduler` | `runtime` | |
| `PeerSession`, `PeerDiscovery`, `Upgrade` | `network` | |
| `IpcGateway`, `Proposals`, `ModelStore` | `ai` | |
| `Keyring` | `keyring` | |
| `Packages` | `pkg` | |
| `Boot` | the boot pipeline, composed of the modules it extends | Lifecycle, Keyring, StateStore, Watchdog, Runtime, IpcGateway, Proposals |
| `StateStoreLemmas`, `WriteAheadLogLemmas` | what replay and recovery compute; induction over the naturals, recursive functions and sequences | the modules they are named after |
| `PersistentStateProofs` | theorems about PersistentState | the lemmas |
| `SyncEngineProofs` | theorems about SyncEngine and Merkle | StateStoreLemmas |
| `SyncDaemonProofs` | theorems about SyncDaemon, Framing and the two together | the lemmas, MCSync |
| `NodeProofs` | theorems about NodeDaemon, NodeAudit and the two together | MCNode |
| `InMemoryProofs` | theorems about Scheduler, Runtime, Watchdog, HealthGossip, IpcGateway, Proposals, ModelStore, Packages, Boot and all of them together | StateStoreLemmas, MCInMemory |
| `NetworkProofs` | theorems about Upgrade, PeerDiscovery, PeerSession and the three together | MCNetwork |
| `MCSync`, `MCNode`, `MCNetwork`, `MCInMemory` | constants for TLC; each holds several modules that share no state, and lets one of them run in each behaviour | |
| other `MC*` | constants and symmetry for TLC | |

Letting one of several parts run is no restriction: every property is about the
variables of one part, and no step of another changes them. The exception is the
boot, which uses the variables of the modules it composes and is a part of its
own in `MCInMemory`. That every step of the composition is, to each component,
one of its own steps or none is proved (`PartsRunAsSpecified`).

Conventions. Variables that have a counterpart in the code have its name; those
marked "history" have none, and only properties read them. Constants named
`Max...` bound counters and have no counterpart either. An operator marked
"Mutant" is a plausible bug in the definition after it; nothing uses it, and
substituting it makes the property it is listed with fail.

### Correspondence

**StateStore.** A store is a total function with `Absent`. `ApplyFrom(s, ops, i)`
is a closed form of the loop (the last op on a key decides), because the proofs
need one without recursion; `StateStoreLemmas` proves that it follows the loop op
by op, and `CrashLosesNothing`, which is proved, compares it with the store a
process built transaction by transaction.
`StateRoot` is the set of entries: equal roots mean equal stores. For plain stores,
those in which no key holds a separator and no entry reads as an inner node of the
tree, the real Merkle root deserves that: `RootsAreInjective`, a theorem about
`Merkle`. All modules that compare roots are about such stores.

**Merkle.** A string is a sequence of tokens: characters, the separator, and hashes.
The 64 hex digits of a hash are one token, which holds the string it is of. Keys
and values are any strings, as in the code: they may hold separators and hashes.
A leaf and an inner node are written and hashed alike, so that nothing but their
contents tells them apart. The loops of
`levels`, `prove` and `verify_proof` are recursive functions: `Rounds` gives the
level after each round, `Height` the round after which the loop ends, `Path` the
value of `i` in each round.

**WriteAheadLog, PersistentState.** The log file is its lines, the bytes after the
last newline, and whether it is `garbled`. A record that lands on torn bytes is
`Glued` and no longer parses. `serde_json` writes keys and values as they are, so
that a cut may fall inside a character; the file is then not UTF-8, nothing
appended later makes it so, and `replay` returns an I/O error (`wal.rs:162`).
`append_op` is three steps (`WriteRecord`, `WriteNewline`, `SyncData`), the
snapshot two (truncate, save); a crash or an I/O error may come at each. The
file as a reader sees it and the contents a power loss leaves are separate
variables: `SyncData` makes the log's equal, nothing forces that for the
snapshot, which the operating system writes back at some time (`WriteBack`). A
power loss leaves either version of each file, or an empty snapshot.
`open` is one step, because it only reads.

**SyncEngine.** `published` is a set of blocks, right and wrong ones, and any of
it may reach any node at any time and again. `apply_block` is one action with
the checks in the order of the code; its result is kept in `answer`.

**SyncDaemon.** The log of each process is a log file of `WriteAheadLog`, with the op
in place of its record. `StartSource`/`StartSink` are a process start with
recovery; a log that does not replay ends the process with BOOT-FAILED, which
changes nothing and is no action. A kill may come between two steps, or inside an
append: it then leaves a part of the record, or all of it without its newline, and
the record of the next run is glued to it. The
source applies, checkpoints, and makes attempts; an attempt ends with an ack, a
refused connection, a closed one, or the timeout. The sink accepts connections
in order and answers what it can verify. Connections of abandoned attempts stay
in the backlog with what was sent on them. A snapshot the sink cannot write makes
`persist_verified` fail after it has replaced the store; the sink listens on.

**Framing.** Bytes are digits to a small base, a header is two of them; frames
are built and parsed digit by digit, as `frame` and `parse_frame` do. `receive`
is one action per turn of its loop, and a call that returned an error may be
repeated. As its callers do, a sender that could not send drops the connection.

**NodeDaemon.** One thread (`DaemonStep`) and the signal handler. Every start,
stop and tick of a subsystem may fail. Names may be listed twice, as
`NodeConfig::validate` allows.

**NodeAudit.** A line of the file is an event, or `Broken` when a write stopped in
it or another event was written behind it. Each run starts its chain anew.

**IpcGateway, Proposals.** The checks of `deliver` are one operator, in the order
of the code; a rejected message changes nothing but the audit. The two
`AuditPipeline`s are sequences of events; the chained hash of an event stands
for the events up to it.

**ModelStore.** A content stands for its hash. `put` takes any manifest, published or
not, as long as the bytes have its hash; damage may change the bytes of an entry
at any time. `vouched` is the history of the keys that were last put with a
manifest `publish` had accepted.

**Packages.** A call of `resolve_inner` is a record of its arguments. What the calls
that may still be nested `depth` deep return is a function of the calls nested
one less deep (`ResolveAt`); the loop over the dependencies is a function of its
turns. A call adds its package to the path and fails when it is on it, so that as
many levels as there are published names are enough: with all of them on the path
every call is a cycle. The result is compared with the set of packages reachable
from the root.

**Boot.** One action per step, or per call where a step makes several; an error
leads to `failed`. The components start fresh, and after the boot the keyring
goes on being used.

**Watchdog, Runtime.** Sums are taken modulo `Modulus` and `UsageModulus` (2^64 in
the code), and wrap there. `granted` is the history of what was granted, without
wrapping; `MaxGranted` bounds it.

**HealthGossip, PeerSession, PeerDiscovery.** The network is a set of everything
ever sent: losing, repeating and reordering need no actions of their own.

**PeerSession.** As in `tests/tcp_transport.rs`, a peer opens a `SecureSession` for
every challenge it answers, whether or not it has one of that id; the sessions of
an id are a sequence, and messages sent on one may arrive at any other. The nonce
of an answer is not signed, and `VerifyResponse` takes it with any value.
Everything else in an answer or an envelope is signed, or compared with what is,
and arrives as it was sent. A challenge is not signed; one that is changed on its
way is not modelled, as an answer to it verifies for no challenge that was issued.

### Assumptions

- SHA-256 is injective and signatures cannot be made without the key. The text
  that is hashed is modelled in `Merkle` only; the text of a block
  (`sync.rs:26`) is taken to be injective too.
- Stores whose roots are compared are plain (see StateStore above).
- What the two sync daemons write is ASCII: `deterministic_txs` makes it.
- The workspace sets no `overflow-checks`, so sums wrap in a release build.
- The file system keeps synced data, and an unsynced append may lose its end.
- The transactions `kai-sync-node` applies set distinct keys, because
  `deterministic_txs` numbers them (`kai-sync-node.rs:28-35`).

## 3. Runs

Runs that must pass (distinct states in brackets):

| Run | Shows | Bounds |
|---|---|---|
| `Merkle.cfg` (1,024) | `ProofsAreExact`, `RootDeterminesEntries` | all stores of up to 5 entries: the odd node is duplicated at the leaves (3, 5) and above them (5); among the 5 keys and 3 values are the empty text, a separator, a key that ends in one, and the hashes of leaves, so that a leaf can read as an inner node |
| `PersistentState.cfg` (511,112) | `AckedSurvive`, `BothPathsAgree`, `FailClosed`, and `ImplementsDurableStore` (refinement) | 4 appends, 2 crashes, 1 I/O error: two checkpoints with a transaction on either side, and a crash during the recovery's first append; every cut of a record, inside a character too |
| `SyncEngine.cfg` (245,569) | `Agreement`, `AppliedIsChain`, `VerdictsAreRight` | 2 nodes, 3 blocks, height 2: a fork at either height, a block of the wrong root or parent, a gap, an empty block, which keeps the state an engine started from |
| `Sync.cfg` (175,707) | `AckMeansSaved`, `NoPartialState`, `ConfirmedIsKept`, `NobodyWaits` (liveness), and `ImplementsChannel` (refinement, with liveness) | 2 transactions, 1 retry, 2 starts of each, one kill, between steps or inside an append, or failing write, one timeout, one stray connection: a second sync over a first one, and an abandoned attempt served late; 3 messages of 0 to 3 bytes, one of them too large, reads of up to 3 bytes: a read may cut a header, or hold two frames |
| `Node.cfg` (148,373) | `NothingLeftUp`, `NodeStateIsHonest`, `DrainIsComplete`, `AuditIsAChain`, and `ShutdownCompletes` (liveness) | 3 entries, one configuration with a name listed twice, 2 restarts, 6 failing calls: restarts used up and a stop that fails; 5 lines, 3 torn writes, any number of runs of the daemon |
| `InMemory.cfg` (392,880) | see below | |
| `Network.cfg` (207,449) | `HandshakesAreMutual`, `DeliveredInOrder`; `FreshStaysKnown`; `NegotiationAgrees` | 2 peers, 2 challenges in either direction, answers with any nonce, 3 sessions in all, so that an id is opened again, 2 envelopes sent in each; 3 peers, 2 ticks, 2 messages, maximal age 1; all ranges of 5 versions at both ends |

The parts of `InMemory.cfg`:

| Part | Shows | Bounds |
|---|---|---|
| watchdog | `StateIsExactBelowOverflow`, `NeverHealsItself` | 2 services, tolerances 0, small, just fitting and overflowing a type of 16 values, 8 ticks |
| gossip | `HeldIsNewest`, `ViewsAgree` | 3 nodes (relaying needs a third), 2 ticks, 3 observations, 2 different snapshots: an old and a newer one of an observer, which arrive in either order, or those of two observers; the proofs are for any number |
| sandboxes | `QuotaRespected` | 2 sandboxes, numbers modulo 4, amounts 0, 1 and 3: sums that fit, do not, and wrap; up to 5 granted of a quota |
| scheduler | `NobodyStarves` | 6 registrations of 2 ids |
| gateway | `ReceiptsAreUnique` | 2 agents, a message type with and one without a schema, sequence numbers up to 2, 5 calls: two deliveries of an agent with a registration and a replay between them |
| proposals | `TrailIsLifecycle` | 2 proposals, 4 submissions: one after each step of a lifecycle |
| models | `ServedIsPublished`; the order of the cache (type invariant) | 3 models, 2 contents, limits 0, 1 and 2, any manifest put, published or not |
| packages | `PlanIsRight` | 16 manifests: a chain, diamonds, a requirement nothing matches, two cycles, versions on both sides of a major boundary; all registries they make |
| boot | `BootIsWhole` | equal and different seeds, 4 transaction logs |

Each module's type invariant is checked with them, except for Merkle, which has one
variable that can only be a store.

Deadlock is not checked where the system may stop: where processes may be down
and the bounded counters used up, and after the daemon's exit.

### Findings

Each of these runs shows the code violating what its documentation says. The
passing run of the module states the property with the exception the finding
describes.

| Run | The code | Where |
|---|---|---|
| `PersistentStateTornTail.cfg` | A torn last record is ignored by `open` but left in the file; the next record is appended to it and lost, or the log can no longer be opened. | `wal.rs:107` |
| `PersistentStateIoError.cfg` | A failed append leaves `seq` counted up; the next record breaks the chain. | `wal.rs:124` |
| `SyncDaemonSinkKilled.cfg` | The sink replaces its store without Apply records; killed between marker and snapshot it recovers the empty state. | `syncd/lib.rs:126` |
| `NodeDaemonRestarts.cfg` | After one failed restart a subsystem is never restarted again. | `supervisor.rs:139` |
| `PackagesDiamond.cfg` | Two packages ask for different versions of a third: the version chosen for the first is used for both, and `resolve` reports success. | `registry.rs:136` |

The properties of the passing runs name further exceptions that the code needs
and its documentation does not mention:

- `DrainIsComplete`: the drain runs in reverse order only when no subsystem is
  listed twice; `stop_subsystem` stops the first running entry of a name
  (`supervisor.rs:219`).
- `StateIsExactBelowOverflow`: when `stale_after + dead_after` wraps, a service
  is declared dead too early (`watchdog.rs:124`).
- `HeldIsNewest` asks for an entry of the highest tick, not for the worst of
  them: `merge` keeps the local one at equal ticks (`gossip.rs:62`), although the
  README of kai-os promises the worst status.
- `QuotaRespected`: `used + requested` is a wrapping sum (`resources.rs:81`, `:103`,
  `:138`). A request that makes it wrap is granted, and a sandbox may so come to
  hold more than its quota; it then holds at least 2^64, and its counter is off by
  multiples of 2^64.
- `RootDeterminesEntries` is about plain stores. `key|value` is not escaped, and
  leaves are written as inner nodes are (`merkle.rs:11`, `:33`): `{a|: ""}` has the
  root of `{a: "|"}`, and `{x: 1, y: 2}` that of `{sha(x|1): sha(y|2)}`. For the same
  reason `ProofsAreExact` says of keys with a separator that a proof is for the
  text `key|value`.
- `AckedSurvive`: a record cut off inside a character of several bytes makes the log
  unreadable as a whole (`wal.rs:162`); the records are in the file, but no process
  opens it.
- `AckMeansSaved`, `NoPartialState`, `ConfirmedIsKept`: a process killed inside an
  append leaves a torn line, and the first record of the next run is glued to it
  (`wal.rs:107`, `:133`). The sink so loses its marker although its ack was sent; the
  source's log no longer opens once more was appended. This is the finding of
  `PersistentStateTornTail.cfg`, at work in the daemon. What remains true without
  the exception is that nothing is recovered that never was.
- `HandshakesAreMutual`: the nonce of an answer is neither signed nor compared with
  that of the challenge (`auth.rs:124`, `:130`), so that an answer whose nonce was
  raised on its way verifies again. The accepted nonces rise all the same.
- `DeliveredInOrder` is about one `SecureSession`. A challenge that comes again is
  answered again, and a responder that opens a session for each answer, as in
  `tests/tcp_transport.rs:123`, hands out the same envelopes once more.
- `AuditIsAChain`: behind a line that a kill or a failed write left unfinished, one
  event can be lost although `record` returned Ok (`node/audit.rs:67`).
- `ServedIsPublished`: `put` asks nobody whether a manifest was published
  (`verified_cache.rs:58`), and what was put with another one is served as well, as
  `ai/tests/model_registry.rs:126` shows. The property is about the keys put with a
  published manifest, and about contents, not manifests: `publish` is Ok for
  another manifest with the same hash, and the cache then serves that one
  (`model_registry.rs:96`).
- `ModelStoreTypeOK`: a cache with limit 0 holds one entry
  (`verified_cache.rs:70`).
- `FramingTypeOK` bounds the buffer only until a frame was found too large: a
  `receive` that is repeated then reads on (`tcp.rs:106`).
- Nothing is claimed about peers that fall silent: a list refreshes the peers it
  names (`discovery.rs:67`), so a peer that left stays known as long as others
  pass their lists on.

### Refinements

- `ImplementsDurableStore`: with `history` the ops a replay of the log gives,
  `kept` the number of acknowledged records, `served` the running store, every
  step of PersistentState is a step of `DurableStore` or none. The write of a
  record enters it into the history, as a replay finds it from then on;
  `sync_data` confirms it; a crash takes at most what was not confirmed.
- `ImplementsChannel`: a frame is pending from the write of its last byte until
  `receive` returns it. The abstract channel has weak fairness of `Receive`, so
  that every message arrives that is neither too large, nor behind one that is,
  nor lost with the connection.

### Fairness

- `SyncDaemon`: weak fairness of `SourceStep` and of `SinkStep`. A process that
  can go on is scheduled by the operating system, and each of its waits has a
  timeout in the code, so some step is always possible. Nobody has to start or
  kill a process, to connect, or to be slow: these have no fairness.
- `Framing`: weak fairness of `ReceiveFrame` and `ReceiveBytes`: the receiver calls
  `receive` again after a timeout, and TCP delivers in the end what was written,
  or resets the connection. Sending, closing and failing have none.
- `NodeDaemon`: weak fairness of the daemon's thread, whose loop sleeps for a
  bounded time. The signal has none.

## 4. Proofs

Every theorem is of the form `Spec => []Inv`, `Spec => [][Step]_vars`, for a
refinement or a composition `Spec => Abstract`, or a fact about operators, for
every value of the constants: any number of nodes, keys, messages, packages,
subsystems, crashes and retries. Every invariant and every action property that
a passing run checks is stated by one of them.

| Module | Theorem | States | of |
|---|---|---|---|
| `StateStoreLemmas` | `ApplyFromAppend` | `ApplyFrom` of a list and one transaction more is `Apply` after `ApplyFrom` of the list | StateStore |
| `PersistentStateProofs` | `TypeCorrect`, `AckedRecordsSurvive`, `RecoveryPathsAgree` | `TypeOK`, `AckedSurvive`, `BothPathsAgree` | PersistentState |
| | `RunningStateIsDurable`, `SnapshotsAreVouchedFor` | `CrashLosesNothing`, `SnapshotHasMarker` | |
| | `ReplayIsFailClosed` | `FailClosed` | |
| | `FilesImplementTheStore` | `ImplementsDurableStore` | |
| `SyncEngineProofs` | `TypeCorrect`, `EnginesAgree`, `EnginesHoldChains`, `EnginesShareHistory` | `TypeOK`, `Agreement`, `AppliedIsChain`, `CommonPrefix` | SyncEngine |
| | `AnswersAreRight` | `VerdictsAreRight` | |
| | `RootsAreInjective` | two plain stores have one Merkle root exactly when they have one `StateRoot` | Merkle |
| | `RootsTellStoresApart`, `ProofsVerifyExactly` | `RootDeterminesEntries`, `ProofsAreExact` | |
| `SyncDaemonProofs` | `SyncdTypeCorrect`, `AcksMeanSaved`, `NothingPartial`, `ConfirmedStays` | `TypeOK`, `AckMeansSaved`, `NoPartialState`, `ConfirmedIsKept` | SyncDaemon |
| | `FramingTypeCorrect`, `FramesImplementChannel` | `FramingTypeOK`, `ImplementsChannel` without its fairness | Framing |
| | `SyncTypesHold` | `SyncTypeOK` | MCSync |
| `NodeProofs` | `DaemonTypeCorrect`, `NothingIsLeftUp`, `NodeReportsItsState`, `DrainStopsAll` | `TypeOK`, `NothingLeftUp`, `NodeStateIsHonest`, `DrainIsComplete` | NodeDaemon |
| | `AuditTypeCorrect`, `AuditHolds` | `AuditTypeOK`, `AuditIsAChain` | NodeAudit |
| | `NodeTypesHold` | `NodeTypeOK` | MCNode |
| `NetworkProofs` | `UpgradeTypeCorrect`, `EndsAgree` | `UpgradeTypeOK`, `NegotiationAgrees` | Upgrade |
| | `DiscoveryTypeCorrect`, `AnnouncedStaysKnown` | `DiscoveryTypeOK`, `FreshStaysKnown` | PeerDiscovery |
| | `SessionTypeCorrect`, `HandshakesHold`, `SessionsDeliverInOrder` | `TypeOK`, `HandshakesAreMutual`, `DeliveredInOrder` | PeerSession |
| | `NetworkTypesHold` | `NetworkTypeOK` | MCNetwork |
| `InMemoryProofs` | `ScheduleTypeCorrect`, `RoundRobin` | `ScheduleTypeOK`, `NobodyStarves` | Scheduler |
| | `CountersStayInRange`, `QuotasHold` | `SandboxTypeOK`, `QuotaRespected` | Runtime |
| | `WatchdogTypeCorrect`, `JudgementIsExact`, `NeverHeals` | `TypeOK`, `StateIsExactBelowOverflow`, `NeverHealsItself` | Watchdog |
| | `GossipTypeCorrect`, `NewestWins`, `ConsensusIsShared` | `GossipTypeOK`, `HeldIsNewest`, `ViewsAgree` | HealthGossip |
| | `NoReplayIsDelivered` | `GatewayTypeOK`, `ReceiptsAreUnique` | IpcGateway |
| | `ProposalsKeepTheirLifecycle` | `ProposalsTypeOK`, `TrailIsLifecycle` | Proposals |
| | `CacheKeepsItsOrder`, `CacheServesWhatIsPublished` | `ModelStoreTypeOK`, `ServedIsPublished` | ModelStore |
| | `PackagesTypeCorrect`, `PlansAreRight` | `PackagesTypeOK`, `PlanIsRight` | Packages |
| | `BootIsComplete` | `BootTypeOK`, `BootIsWhole` | Boot |
| | `PartsRunAsSpecified`, `InMemoryTypesHold` | the specifications of all parts; `InMemoryTypeOK` | MCInMemory |

They rest on the named `ASSUME`s of the modules (bounds are naturals, markers for
"nothing" are none of the values they stand beside, configurations are of their
types, the boot's literals name things that exist and its amounts are within the
bounds, a payload's length fits into the header, keys and values are strings of
tokens, `KeyOrder` lists every key once, versions are pairs of numbers), which TLC
evaluates in the runs. No theorem has a hypothesis of its own but
`RootsAreInjective`, whose stores are plain; the exceptions of the properties (§3)
are part of the properties.

**Induction over data.** The library's induction theorems take a predicate as
parameter, which the provers cannot instantiate. `StateStoreLemmas` proves an
induction theorem about a set of numbers instead (`NatSetInduction`, from a least
element of its complement); a proof by induction defines the set of the numbers
it holds for. A recursive function is a `CHOOSE` of a function that satisfies
its equation: that one exists is proved by the same induction, up to each number
(`Recursion`, `NatRecursion`), and what it computes then by another.

Each invariant below is inductive: a conjunction of named parts, whose proof has a
case for each action.

**StateStore, WriteAheadLog.** `ApplyFromAppend` (one more op) and `ApplyFromSkip`
(a marker changes nothing) say what replay does. `MarkerSound`: a store with the
last marker's root, and the ops after it, give what a replay from genesis gives.
It survives appending a record, and `RecoverSound` follows: both recovery paths
agree. The proofs about one PersistentState and about the two of the sync daemon
use it.

**PersistentState.** The invariants are not inductive: whether the next crash is
harmless depends on how far the running append is. `IInv` adds
- `LogInv`: the records replay keeps, of the log a reader sees and of the log a
  power loss leaves, are numbered and chained, begin with what was acknowledged,
  and are `MarkerSound`;
- `FileInv`: every version of the snapshot that loads has its marker in the log;
- `MemoryInv`: for each point of the program, how `store`, `seq`, `prev` and the
  record being written relate to the file.

There is one lemma for each part. `LogInv` is needed for both logs because a
power loss makes the second the first. The invariants hold while no I/O error
occurred and nothing was glued; the findings show that these exceptions are
needed. They are about the lines of the file, so that a cut inside a character,
after which no process opens it, needs no case of its own in them. `FailClosed`
allows I/O errors and has an invariant of its own, `FInv`:
when a log replays at all, its chain commits to the ops before each record, and a
record that is being written carries the chain of what is served.
The refinement maps each step of the program to one of `DurableStore`, or to none;
it needs `DiskBehind` besides `IInv`: what is synced is a prefix of what is read.

**SyncEngine.** `IInv` is `TypeOK`, `AppliedIsChain` and `RootInTip`: the root in
the tip's block is the root of the state. Agreement follows, as the root
determines the store; common history follows, as a hash determines its prefix,
and so do the verdicts, which compare a block with that history.

**Merkle.** Every hash is one token and holds its string. An inner node has two hashes
about one separator, so that it determines its children. The first separator of a
leaf ends its key when the key holds none, so that the leaf determines key and
value, whatever the value holds. In a plain store a leaf is never an inner node,
nor the empty root. Two trees with
one root are compared from the top: by induction over the levels, every node of the
one occurs in the other at the same distance from the root, which is all that can be
said, as an odd last node is there twice. When the leaves of the one tree are
reached, so are those of the other, as no leaf is an inner node; every entry of the
one store is therefore one of the other, and the reverse. A proof retraces
the path of its leaf: by induction over the levels, what `verify_proof` has
computed is the node at that place exactly when the leaf is the one it began with.
That needs no plain store: only the last step, from the text of the leaf to its key
and value, asks for keys without separators.

**SyncDaemon.** `DaemonInv` has four parts besides the types:
- `SourceInv`: the source's log gives a prefix of the transactions (`DiskSound`), the
  running store is that prefix, and what was confirmed is part of it. The prefix
  only grows because the keys are distinct: a transaction applied again by a source
  that was started again changes nothing. Where a record was glued to a torn line,
  the lines before it, which are all that is left of such a log, give a prefix too,
  one that may be shorter: `DiskSound` says so of the log without its tail, of a log
  that opens, and, with the exact prefix, of one without glue;
- `HeldInv`: what verifies on any connection, abandoned ones included, is a state
  that was sent, and, unless the source lost a record, not older than the last one
  confirmed; on the connection the source still holds it is the present state; and
  once an ack is on its way, nothing that verifies is;
- `OneLive`: the source holds at most one connection;
- `SinkInv`: the sink's log holds markers only, and how far the checkpoint is says
  what of it is on disk.

That an abandoned attempt, served late, cannot undo what was confirmed later is
`HeldInv`: the sink ends after an ack, and all connections to it with it.

**Framing.** `FramingInv`: buffer and wire together are the frames of the pending
messages, one after the other, and nothing behind them while the sender may still
send; behind them there may otherwise be a part of one more frame. Where a frame
ends is a function of the messages before it, so that no parsing occurs in the
invariant. `DeclaredIsLength` is the theorem about the header: reading the digits
of a number that were written most significant first gives the number, for every
base and every width it fits in. What `parse_frame` finds is therefore the first
pending message, and nothing when that has not arrived whole; a reset leaves the
messages whose frames were read to the end.

**NodeDaemon.** `NodeInv` says for each phase what runs (`ByPhase`), that whatever
is up is supervised or refused to stop (`Supervised`), and that an entry given up
is Unhealthy (`Judged`). The drain works by name. `Draining` keeps a one-to-one
matching of the names left to stop with the entries left running; where a name is
listed twice, the entry stopped need not be the one matched, and the two change
places. Where none is, the matching is the reverse order.

**NodeAudit.** The last line is the event recorded last, or broken, or nobody's
record; every whole line but such a last one has its record, and torn lines are
counted by `Torn`, in which a line without newline is already counted.

**Upgrade.** `NegotiationAgrees` follows from the types, for all ranges.

**PeerDiscovery.** `KnownOrOld`: an announced peer that is not in the store was
announced too long ago, one that is in it was seen then or later.

**PeerSession.** `SessionInv` has a part for each kind of message: every nonce was
issued in a challenge (`NoncesAreIssued`); an answer signed by the peer it was for
means that this peer has opened a session of the challenge (`MessagesAreSigned`,
`VerifiedAreAnswered`), and the registry is not behind any nonce it accepted; an
envelope, on the network or handed out, was sent in a session of its id, which has
moved on since (`DeliveredAreSent`). Sessions are only added to, keep their remote
and count up (`Grown`), and all four parts survive that; so opening one again
needs no case of its own.

**Watchdog, Scheduler, Runtime.** `StateIsExactBelowOverflow` is inductive with the
types (`NoWrap`: a sum below the modulus is unchanged by it). `NobodyStarves` is
not: `InTurn` adds that the turns a place has waited and those until the cursor
reaches it stay below the number of registrations. `BookedIsGranted`: a counter is
within the quota and differs from what was granted by a multiple of the modulus
(`Books`), so that whoever was granted more than the quota was granted a whole
modulus at least.

**HealthGossip.** `OwnIsAhead`: an observer's own map is ahead of every copy of it,
held by others, on the wire or merged. Two nodes that everything has reached
therefore hold the same entries, and consensus takes the worst of them.

**AI runtime.** `last_seq` is above every receipt of its agent, over registrations
too; the trail's lifecycle is inductive with the types; the manifest of an entry
that was put with a published one is one the registry still vouches for, and the order of the cache is as long
as the set of its entries.

**Packages.** `RegistryInv`: the registry is finite, its entries are of published
manifests, one for each name and version, and a lockfile lists some of them. The
rest is about one call of `resolve`. `IsReady` is what a call of `resolve_inner`
may rely on: every package on the path needs the one that is asked for, and what
is resolved is a sound plan without any package of the path. `IsRight` is what it
returns: an error with its cause, or a larger sound plan with the package in it. The
loop keeps this from one dependency to the next, and the calls by induction on the
depth. A proof of the earlier statement that no package in a plan is among its own
`Needs` failed, and rightly: `Needs` follows the version each requirement would
choose, and where the plan uses another one, chosen before, the chosen versions may
form a cycle that the plan does not have. TLC found such a registry once it had a
package that asks for one version and then for a later one (the third `app` 1.0 of
`MCPackages`). What holds, and what the code's order of the two checks is for, is
that the packages of the plan themselves form no cycle (`Acyclic`), which `AddPackage`
preserves because a package is added after all it depends on.

**Boot.** `BootInv` says of each component when it is still fresh and what the boot
has made of it from which step on.

**The compositions.** A step of `MCSync`, `MCNode`, `MCNetwork` or `MCInMemory` is a
step of one part and leaves the others alone. In `MCInMemory` it may also be a step
of the boot, which is then a step of the component it calls
(`BootCallsComponents`); `BootInv` holds as long as the boot is what runs.

Only model-checked is liveness: `NobodyWaits`, `ShutdownCompletes`, and that in
`ImplementsChannel` every message arrives that can. The provers handle neither
fairness nor `ENABLED`. The runs of the findings show a violation, which TLC finds
and nothing proves.

## 5. Not modelled

- `cli`: it prints what the other components return.
- `persist_state` and `restore` of the supervisor: `main` never calls them.
- Ping and Pong, and the operations Syscall and Sign of a sandbox: they change no
  state. Neither do the queries of the model registry.
- A restart of a peer in `PeerSession`, which forgets nonces and the registry: no
  code of the repository does it or says what should happen.
- An append that returns an error, in the sync daemon: covered for one
  PersistentState, not in the composition, where a kill inside an append is.
- A challenge that is changed on its way (see PeerSession above).
- A power loss under the audit log, whose file is never synced.
- Parsing of arguments, versions, configurations and JSON, and all output.

## 6. Plan

Done, in this order: the state layer (StateStore, WriteAheadLog,
PersistentState, SyncEngine), the sync daemon, the node daemon, health, runtime,
peers and sessions; the proofs of the state layer, the watchdog and the
scheduler; then framing, the audit log, version negotiation, the AI runtime,
keyring, packages, the boot, and the abstract specifications of the store and of
the channel; then the proofs of all safety properties of the modules without
recursion, and of the refinement of `DurableStore`; then, with recursion written as
functions, those of Framing and its refinement of `Channel`, of Merkle and of
Packages, and the type invariants of the compositions.

What could follow: the text of a block hash (`sync.rs:26`) in the way `Merkle` has
that of a leaf, and appends that return an error in the composition of the two
daemons.
