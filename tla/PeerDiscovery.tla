---------------------------- MODULE PeerDiscovery ----------------------------
(***************************************************************************)
(* Peer discovery (kai-os/network/src/discovery.rs) and the PeerStore it    *)
(* fills (peer.rs): peers announce themselves, pass on the lists of peers   *)
(* they know, and evict entries that have become stale.  Messages may be    *)
(* lost, duplicated and reordered: sent holds all that were ever sent.      *)
(* Ping and Pong touch no store and are left out.                           *)
(***************************************************************************)
EXTENDS Integers, FiniteSets

CONSTANTS Nodes,       \* peer ids
          Addrs,       \* addresses a peer may announce
          MaxAge,      \* max_age of evict_stale
          MaxTick,     \* bound on the clock
          MaxSends,    \* bound on messages sent
          Absent       \* no entry for this peer

PeerInfo == [addr : Addrs, last_seen_tick : Nat]

ASSUME DiscoveryAssumption ==
    /\ MaxAge \in Nat /\ MaxTick \in Nat /\ MaxSends \in Nat
    /\ Absent \notin Nat /\ Absent \notin PeerInfo

VARIABLES now_tick,
          store,       \* PeerStore of each peer: PeerInfo of each peer it knows
          sent,        \* messages ever sent
          announced    \* history: tick at which n last handled an Announce of p

discovery == <<now_tick, store, sent, announced>>

PeerStore == [Nodes -> PeerInfo \cup {Absent}]
DiscoveryMessage ==
    [type : {"Announce"}, peer : Nodes, info : PeerInfo]
    \cup [type : {"PeerList"}, peers : PeerStore]

DiscoveryInit ==
    /\ now_tick = 0
    /\ store = [n \in Nodes |-> [p \in Nodes |-> Absent]]
    /\ sent = {}
    /\ announced = [n \in Nodes |-> [p \in Nodes |-> Absent]]

\* The caller's clock moves on.
Tick ==
    /\ now_tick < MaxTick
    /\ now_tick' = now_tick + 1
    /\ UNCHANGED <<store, sent, announced>>

Transmit(m) ==
    /\ Cardinality(sent) < MaxSends
    /\ sent' = sent \cup {m}
    /\ UNCHANGED <<now_tick, store, announced>>

SendAnnounce(p, addr) ==
    Transmit([type |-> "Announce", peer |-> p,
              info |-> [addr |-> addr, last_seen_tick |-> now_tick]])

\* peer_list(): everything in the store.
SendPeerList(p) == Transmit([type |-> "PeerList", peers |-> store[p]])

\* Mutant: last_seen_tick stays what the sender put there.
SeenByOthers(info) == info

\* last_seen_tick becomes the receiver's own time before the upsert.
Seen(info) == [info EXCEPT !.last_seen_tick = now_tick]

HandleAnnounce(n, m) ==
    /\ m.type = "Announce"
    /\ store' = [store EXCEPT ![n][m.peer] = Seen(m.info)]
    /\ announced' = [announced EXCEPT ![n][m.peer] = now_tick]
    /\ UNCHANGED <<now_tick, sent>>

\* An upsert of every entry of the list; the others stay.
Merged(old, peers) ==
    [p \in Nodes |-> IF peers[p] = Absent THEN old[p] ELSE Seen(peers[p])]

HandlePeerList(n, m) ==
    /\ m.type = "PeerList"
    /\ store' = [store EXCEPT ![n] = Merged(@, m.peers)]
    /\ UNCHANGED <<now_tick, sent, announced>>

Stale(info) == now_tick - info.last_seen_tick > MaxAge

EvictStale(n) ==
    /\ store' = [store EXCEPT ![n] = [p \in Nodes |->
                    IF @[p] # Absent /\ Stale(@[p]) THEN Absent ELSE @[p]]]
    /\ UNCHANGED <<now_tick, sent, announced>>

\* PeerStore::remove, the caller's own decision.
Remove(n, p) ==
    /\ store[n][p] # Absent
    /\ store' = [store EXCEPT ![n][p] = Absent]
    /\ announced' = [announced EXCEPT ![n][p] = Absent]
    /\ UNCHANGED <<now_tick, sent>>

DiscoveryNext ==
    \/ Tick
    \/ \E p \in Nodes : SendPeerList(p)
    \/ \E p \in Nodes, addr \in Addrs : SendAnnounce(p, addr)
    \/ \E n \in Nodes, m \in sent : HandleAnnounce(n, m) \/ HandlePeerList(n, m)
    \/ \E n \in Nodes : EvictStale(n)
    \/ \E n \in Nodes, p \in Nodes : Remove(n, p)

DiscoverySpec == DiscoveryInit /\ [][DiscoveryNext]_discovery
----------------------------------------------------------------------------
\* Type invariant; no entry was seen in the future.
DiscoveryTypeOK ==
    /\ now_tick \in Nat
    /\ store \in [Nodes -> PeerStore]
    /\ \A n, p \in Nodes : store[n][p] # Absent => store[n][p].last_seen_tick <= now_tick
    /\ sent \subseteq DiscoveryMessage
    /\ announced \in [Nodes -> [Nodes -> Nat \cup {Absent}]]

\* A peer that announced itself within max_age ticks is still known, however
\* old lists, duplicates and evictions interleave with the announcement.
FreshStaysKnown ==
    \A n, p \in Nodes :
        announced[n][p] # Absent /\ now_tick - announced[n][p] <= MaxAge =>
            store[n][p] # Absent
=============================================================================
