----------------------------- MODULE MCNetwork ------------------------------
(***************************************************************************)
(* Three parts of the network crate, sessions, discovery and negotiation   *)
(* of versions.  They share no state, so that what one does never depends  *)
(* on the steps of the others: each behaviour lets one of them run.        *)
(***************************************************************************)
EXTENDS PeerSession, PeerDiscovery, Upgrade, TLC

VARIABLE part     \* the part that runs

NetworkInit ==
    /\ part \in {"session", "discovery", "upgrade"}
    /\ Init /\ DiscoveryInit /\ UpgradeInit
    \* A part that does not run stays in one initial state.
    /\ part # "upgrade" =>
           \A end \in Ends : hello[end].last_verified_root = CHOOSE r \in VerifiedRoots : TRUE

NetworkNext ==
    /\ UNCHANGED part
    /\ \/ part = "session" /\ Next /\ UNCHANGED <<discovery, hello>>
       \/ part = "discovery" /\ DiscoveryNext /\ UNCHANGED <<vars, hello>>
       \/ part = "upgrade" /\ UpgradeNext /\ UNCHANGED <<vars, discovery>>

NetworkSpec == NetworkInit /\ [][NetworkNext]_<<part, vars, discovery, hello>>

Symmetry == Permutations(Peers)

\* The type invariants of all parts (auth.rs, session.rs, discovery.rs and
\* upgrade.rs).
NetworkTypeOK == TypeOK /\ DiscoveryTypeOK /\ UpgradeTypeOK
=============================================================================
