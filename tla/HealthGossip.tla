---------------------------- MODULE HealthGossip ----------------------------
(***************************************************************************)
(* Nodes that observe services and gossip what they observed               *)
(* (kai-os/health/src/gossip.rs).  Each node keeps a map per observer: its *)
(* own observations and the ones it merged from snapshots.  A snapshot of  *)
(* any observer's map may be sent on by any node; snapshots are lost,      *)
(* duplicated and reordered.  The ticks are those of the observer's own    *)
(* watchdog.                                                               *)
(***************************************************************************)
EXTENDS Naturals, FiniteSets

CONSTANTS Nodes,       \* the nodes, each an observer
          Targets,     \* the nodes observed
          None,        \* no entry
          MaxGossipTick,     \* bound on an observer's clock
          MaxSends,    \* bound on different snapshots sent
          MaxObserves  \* bound on observations

HealthStatus == {"Healthy", "Stale", "Dead"}

\* NodeHealth, stored under its node_id
NodeHealth == [status : HealthStatus, tick : 1..MaxGossipTick]

ASSUME GossipAssumption ==
    /\ MaxGossipTick \in Nat \ {0} /\ MaxSends \in Nat /\ MaxObserves \in Nat
    /\ None \notin NodeHealth

VARIABLES
    observations,   \* observations[n][o]: what node n holds of observer o
    tick,           \* the clock of each observer
    wire,           \* snapshots that were sent, none is ever taken away
    received,       \* history: <<o, t, entry>> that node n merged
    repeated,       \* history: <<o, t>> that o observed twice in one tick
    observes        \* counter for the bound

gossip == <<observations, tick, wire, received, repeated, observes>>

GossipInit ==
    /\ observations = [n \in Nodes |-> [o \in Nodes |-> [t \in Targets |-> None]]]
    /\ tick = [n \in Nodes |-> 1]
    /\ wire = {}
    /\ received = [n \in Nodes |-> {}]
    /\ repeated = {}
    /\ observes = 0

TickOnce(n) ==
    /\ tick[n] < MaxGossipTick
    /\ tick' = [tick EXCEPT ![n] = @ + 1]
    /\ UNCHANGED <<observations, wire, received, repeated, observes>>

\* observe: the own entry is overwritten.
Observe(n, t, status) ==
    /\ observes < MaxObserves
    /\ observes' = observes + 1
    /\ observations' =
           [observations EXCEPT ![n][n][t] = [status |-> status, tick |-> tick[n]]]
    /\ repeated' = IF observations[n][n][t] # None /\ observations[n][n][t].tick = tick[n]
                      /\ observations[n][n][t].status # status
                   THEN repeated \cup {<<n, t>>} ELSE repeated
    /\ UNCHANGED <<tick, wire, received>>

\* snapshot(observer), sent to everybody.
SendSnapshot(n, o) ==
    /\ Cardinality(wire) < MaxSends
    /\ \E t \in Targets : observations[n][o][t] # None
    /\ wire' = wire \cup {[observer |-> o, entries |-> observations[n][o]]}
    /\ UNCHANGED <<observations, tick, received, repeated, observes>>

\* Mutant: what arrives last wins.
AdoptLast(local, remote) == IF remote = None THEN local ELSE remote

\* Mutant: what arrived first stays.
AdoptFirst(local, remote) == IF local = None THEN remote ELSE local

\* merge keeps the local entry unless the remote one has a higher tick.
Adopt(local, remote) ==
    IF remote = None THEN local
    ELSE IF local # None /\ local.tick >= remote.tick THEN local
    ELSE remote

Merge(n, snap) ==
    /\ observations' =
           [observations EXCEPT ![n][snap.observer] =
               [t \in Targets |-> Adopt(@[t], snap.entries[t])]]
    /\ received' =
           [received EXCEPT ![n] = @ \cup
               {<<snap.observer, t, snap.entries[t]>> :
                   t \in {u \in Targets : snap.entries[u] # None}}]
    /\ UNCHANGED <<tick, wire, repeated, observes>>

Severity(status) ==
    IF status = "Healthy" THEN 0 ELSE IF status = "Stale" THEN 1 ELSE 2

\* consensus_view: of all observers' entries the worst at the highest tick.
Worse(e, f) ==
    e.tick > f.tick \/ (e.tick = f.tick /\ Severity(e.status) > Severity(f.status))

ConsensusView(n, t) ==
    LET known == {observations[n][o][t] : o \in Nodes} \ {None}
    IN  IF known = {} THEN None
        ELSE CHOOSE e \in known : \A f \in known : ~Worse(f, e)

GossipNext ==
    \/ \E n \in Nodes : TickOnce(n)
    \/ \E n \in Nodes, t \in Targets, s \in HealthStatus : Observe(n, t, s)
    \/ \E n, o \in Nodes : SendSnapshot(n, o)
    \/ \E n \in Nodes, snap \in wire : Merge(n, snap)

GossipSpec == GossipInit /\ [][GossipNext]_gossip
----------------------------------------------------------------------------
\* Type invariant of the nodes' maps and of the snapshots on the wire.
GossipTypeOK ==
    /\ observations \in [Nodes -> [Nodes -> [Targets -> NodeHealth \cup {None}]]]
    /\ tick \in [Nodes -> 1..MaxGossipTick]
    /\ wire \subseteq [observer : Nodes, entries : [Targets -> NodeHealth \cup {None}]]

\* What node n merged about what o says of t.
MergedBy(n, o, t) == {r[3] : r \in {q \in received[n] : q[1] = o /\ q[2] = t}}

\* "hoeherer Tick gewinnt": whatever snapshots arrive late, twice, or from a
\* third node, a node holds an entry of the highest tick that reached it.
HeldIsNewest ==
    \A n \in Nodes : \A o \in Nodes \ {n} : \A t \in Targets :
        LET held == observations[n][o][t]
            merged == MergedBy(n, o, t)
        IN  IF merged = {} THEN held = None
            ELSE held \in merged /\ \A e \in merged : e.tick <= held.tick

\* Everything the observers now say of t has reached n.
UpToDate(n, t) ==
    \A o \in Nodes \ {n} :
        observations[o][o][t] \in MergedBy(n, o, t) \cup {None}

\* Two nodes that everything has reached have the same consensus_view of a
\* target, in whatever order it did, unless an observer changed its mind
\* within one tick.
ViewsAgree ==
    \A m, n \in Nodes, t \in Targets :
        /\ UpToDate(m, t) /\ UpToDate(n, t)
        /\ \A o \in Nodes : <<o, t>> \notin repeated
        => ConsensusView(m, t) = ConsensusView(n, t)
=============================================================================
