--------------------------- MODULE NetworkProofs ---------------------------
(***************************************************************************)
(* Proofs about the network crate: negotiation of versions, discovery of   *)
(* peers, and handshakes with the sessions they open, for any number of    *)
(* peers, versions and messages.                                           *)
(***************************************************************************)
EXTENDS MCNetwork, FiniteSetTheorems, SequenceTheorems, TLAPS

(* Versions.                                                               *)

\* Every Hello is well-typed, also the senseless ones.
THEOREM UpgradeTypeCorrect == UpgradeSpec => []UpgradeTypeOK
<1>1. UpgradeInit => UpgradeTypeOK
  BY UpgradeAssumption DEF UpgradeInit, UpgradeTypeOK, Hello, ProtocolSupport, Ours
<1>2. UpgradeTypeOK /\ [UpgradeNext]_hello => UpgradeTypeOK'
  BY DEF UpgradeTypeOK, UpgradeNext, Deploy
<1> QED BY <1>1, <1>2, PTL DEF UpgradeSpec

\* The two ends of a connection, each computing negotiate() on its own, come
\* to the same result, whatever versions they support.
THEOREM EndsAgree == UpgradeSpec => []NegotiationAgrees
<1>1. UpgradeTypeOK => NegotiationAgrees
  <2> SUFFICES ASSUME UpgradeTypeOK PROVE NegotiationAgrees
    OBVIOUS
  <2> DEFINE a == hello["initiator"]
  <2> DEFINE b == hello["responder"]
  <2> DEFINE shared == Lower(a.support.current, b.support.current)
  <2> DEFINE required == Required(a.support, b.support)
  <2> DEFINE common == {v \in 0..MaxVersion :
                           DecodeChecked(v, a.support) /\ DecodeChecked(v, b.support)}
  <2>1. a \in Hello /\ b \in Hello
    BY DEF UpgradeTypeOK, Ends
  <2>2. /\ a.support.current \in 0..MaxVersion /\ a.support.min \in 0..MaxVersion
        /\ b.support.current \in 0..MaxVersion /\ b.support.min \in 0..MaxVersion
        /\ MaxVersion \in Nat
    BY <2>1, UpgradeAssumption DEF Hello, ProtocolSupport
  <2> HIDE DEF a, b
  <2>3. /\ shared = Lower(b.support.current, a.support.current)
        /\ required = Required(b.support, a.support)
    BY <2>2 DEF Lower, Required
  <2>4. ASSUME NEW v \in 0..MaxVersion
        PROVE  v \in common <=> /\ Validate(a.support) /\ Validate(b.support)
                                /\ required <= v /\ v <= shared
    BY <2>2 DEF DecodeChecked, Lower, Required
  <2>5. shared \in 0..MaxVersion /\ required \in 0..MaxVersion
    BY <2>2 DEF Lower, Required
  <2> HIDE DEF shared, required
  <2>6. CASE ~Validate(a.support) \/ ~Validate(b.support)
    <3>1. Negotiate(a, b) = [result |-> "MalformedSupport"]
          /\ Negotiate(b, a) = [result |-> "MalformedSupport"]
      BY <2>6 DEF Negotiate
    <3>2. common = {}
      BY <2>4, <2>6
    <3> QED BY <3>1, <3>2 DEF NegotiationAgrees, a, b
  <2>7. CASE Validate(a.support) /\ Validate(b.support) /\ shared < required
    <3>1. /\ Negotiate(a, b) = [result |-> "Incompatible",
                                resync_root_hint |-> b.last_verified_root]
          /\ Negotiate(b, a) = [result |-> "Incompatible",
                                resync_root_hint |-> a.last_verified_root]
      BY <2>3, <2>7 DEF Negotiate, shared, required
    <3>2. common = {}
      BY <2>4, <2>5, <2>7
    <3> QED BY <3>1, <3>2 DEF NegotiationAgrees, a, b
  <2>8. CASE Validate(a.support) /\ Validate(b.support) /\ ~(shared < required)
    <3>1. /\ Negotiate(a, b) = [result |-> "Negotiated", version |-> shared]
          /\ Negotiate(b, a) = [result |-> "Negotiated", version |-> shared]
      BY <2>3, <2>8 DEF Negotiate, shared, required
    <3>2. shared \in common
      BY <2>4, <2>5, <2>8
    <3>3. \A v \in common : v <= shared
      BY <2>4
    <3> HIDE DEF common
    <3>4. /\ Negotiate(a, b).result = "Negotiated" /\ Negotiate(b, a).result = "Negotiated"
          /\ Negotiate(a, b) = Negotiate(b, a)
          /\ Negotiate(a, b).version = shared
      BY <3>1
    <3>5. Negotiate(a, b).version \in common /\ \A v \in common : v <= Negotiate(a, b).version
      BY <3>2, <3>3, <3>4
    <3> QED BY <3>4, <3>5 DEF NegotiationAgrees, a, b, common
  <2> QED BY <2>6, <2>7, <2>8
<1> QED BY <1>1, UpgradeTypeCorrect, PTL

-----------------------------------------------------------------------------
(* Discovery.  An announced peer that is not in the store was evicted, and *)
(* was therefore announced too long ago; one that is in the store was seen *)
(* when it was announced, or later.                                        *)

KnownOrOld ==
    \A n, p \in Nodes :
        announced[n][p] # Absent =>
            IF store[n][p] # Absent THEN announced[n][p] <= store[n][p].last_seen_tick
            ELSE now_tick - announced[n][p] > MaxAge

DiscoveryInv == DiscoveryTypeOK /\ KnownOrOld

\* An entry as the receiver stores it.
LEMMA SeenNow ==
    ASSUME NEW info \in PeerInfo, now_tick \in Nat
    PROVE  /\ Seen(info) \in PeerInfo /\ Seen(info) # Absent
           /\ Seen(info).last_seen_tick = now_tick
<1>1. Seen(info) \in PeerInfo /\ Seen(info).last_seen_tick = now_tick
  BY DEF Seen, PeerInfo
<1> QED BY <1>1, DiscoveryAssumption

LEMMA DiscoveryTypes ==
    ASSUME DiscoveryTypeOK
    PROVE  /\ now_tick \in Nat /\ MaxAge \in Nat
           /\ \A n, p \in Nodes :
                 /\ store[n][p] # Absent => store[n][p] \in PeerInfo
                                             /\ store[n][p].last_seen_tick \in Nat
                                             /\ store[n][p].last_seen_tick <= now_tick
                 /\ announced[n][p] # Absent => announced[n][p] \in Nat
           /\ \A m \in sent : /\ m.type = "Announce" => m.peer \in Nodes /\ m.info \in PeerInfo
                              /\ m.type = "PeerList" => m.peers \in PeerStore
<1>1. store \in [Nodes -> [Nodes -> PeerInfo \cup {Absent}]]
  BY DEF DiscoveryTypeOK, PeerStore
<1>2. \A n, p \in Nodes : store[n][p] # Absent =>
          store[n][p] \in PeerInfo /\ store[n][p].last_seen_tick \in Nat
  BY <1>1 DEF PeerInfo
<1>3. \A m \in sent : /\ m.type = "Announce" => m.peer \in Nodes /\ m.info \in PeerInfo
                      /\ m.type = "PeerList" => m.peers \in PeerStore
  BY DEF DiscoveryTypeOK, DiscoveryMessage
<1> QED BY <1>2, <1>3, DiscoveryAssumption DEF DiscoveryTypeOK

LEMMA DiscoveryStep ==
    ASSUME DiscoveryInv, [DiscoveryNext]_discovery PROVE DiscoveryInv'
<1>0. /\ now_tick \in Nat /\ MaxAge \in Nat
      /\ store \in [Nodes -> [Nodes -> PeerInfo \cup {Absent}]]
      /\ sent \subseteq DiscoveryMessage
      /\ announced \in [Nodes -> [Nodes -> Nat \cup {Absent}]]
  BY DiscoveryTypes DEF DiscoveryInv, DiscoveryTypeOK, PeerStore
<1>i. ASSUME NEW n \in Nodes, NEW p \in Nodes
      PROVE  /\ store[n][p] # Absent => store[n][p] \in PeerInfo
                                         /\ store[n][p].last_seen_tick \in Nat
                                         /\ store[n][p].last_seen_tick <= now_tick
             /\ announced[n][p] # Absent => announced[n][p] \in Nat
             /\ announced[n][p] # Absent /\ store[n][p] # Absent =>
                    announced[n][p] <= store[n][p].last_seen_tick
             /\ announced[n][p] # Absent /\ store[n][p] = Absent =>
                    now_tick - announced[n][p] > MaxAge
  BY DiscoveryTypes DEF DiscoveryInv, KnownOrOld
<1> DEFINE TypesNext == /\ now_tick' \in Nat
                        /\ store' \in [Nodes -> [Nodes -> PeerInfo \cup {Absent}]]
                        /\ sent' \subseteq DiscoveryMessage
                        /\ announced' \in [Nodes -> [Nodes -> Nat \cup {Absent}]]
<1> DEFINE EntryNext(n, p) ==
              /\ store'[n][p] # Absent => store'[n][p].last_seen_tick <= now_tick'
              /\ announced'[n][p] # Absent /\ store'[n][p] # Absent =>
                    announced'[n][p] <= store'[n][p].last_seen_tick
              /\ announced'[n][p] # Absent /\ store'[n][p] = Absent =>
                    now_tick' - announced'[n][p] > MaxAge
<1> SUFFICES TypesNext /\ \A n, p \in Nodes : EntryNext(n, p)
  BY DEF DiscoveryInv, DiscoveryTypeOK, PeerStore, KnownOrOld
<1>1. ASSUME Tick PROVE TypesNext /\ \A n, p \in Nodes : EntryNext(n, p)
  <2>1. TypesNext
    BY <1>0, <1>1 DEF Tick
  <2>2. ASSUME NEW n \in Nodes, NEW p \in Nodes PROVE EntryNext(n, p)
    <3>1. store' = store /\ announced' = announced /\ now_tick' = now_tick + 1
      BY <1>1 DEF Tick
    <3> QED BY <3>1, <1>i, <1>0
  <2> QED BY <2>1, <2>2
<1>2. ASSUME NEW m \in DiscoveryMessage, Transmit(m)
      PROVE  TypesNext /\ \A n, p \in Nodes : EntryNext(n, p)
  BY <1>0, <1>i, <1>2 DEF Transmit
<1>3. ASSUME NEW r \in Nodes, NEW m \in sent, HandleAnnounce(r, m)
      PROVE  TypesNext /\ \A n, p \in Nodes : EntryNext(n, p)
  <2>0. m.peer \in Nodes /\ m.info \in PeerInfo
    BY <1>3, DiscoveryTypes DEF HandleAnnounce, DiscoveryInv
  <2>1. PICK i \in PeerInfo : i = Seen(m.info) /\ i # Absent /\ i.last_seen_tick = now_tick
    BY <1>0, <2>0, SeenNow
  <2>2. /\ store' = [store EXCEPT ![r][m.peer] = i]
        /\ announced' = [announced EXCEPT ![r][m.peer] = now_tick]
        /\ now_tick' = now_tick /\ sent' = sent
    BY <1>3, <2>1 DEF HandleAnnounce
  <2>3. TypesNext
    BY <1>0, <2>0, <2>2
  <2>4. ASSUME NEW n \in Nodes, NEW p \in Nodes PROVE EntryNext(n, p)
    <3>1. CASE n = r /\ p = m.peer
      <4>1. store'[n][p] = i /\ announced'[n][p] = now_tick
        BY <1>0, <2>0, <2>2, <3>1
      <4> QED BY <4>1, <2>1, <2>2, <1>0
    <3>2. CASE ~(n = r /\ p = m.peer)
      <4>1. store'[n][p] = store[n][p] /\ announced'[n][p] = announced[n][p]
        BY <1>0, <2>0, <2>2, <3>2
      <4> QED BY <4>1, <2>2, <1>i
    <3> QED BY <3>1, <3>2
  <2> QED BY <2>3, <2>4
<1>4. ASSUME NEW r \in Nodes, NEW m \in sent, HandlePeerList(r, m)
      PROVE  TypesNext /\ \A n, p \in Nodes : EntryNext(n, p)
  <2>0. m.peers \in [Nodes -> PeerInfo \cup {Absent}]
    BY <1>4, DiscoveryTypes DEF HandlePeerList, DiscoveryInv, PeerStore
  <2>1. /\ store' = [store EXCEPT ![r] = Merged(store[r], m.peers)]
        /\ now_tick' = now_tick /\ sent' = sent /\ announced' = announced
    BY <1>0, <1>4 DEF HandlePeerList
  <2>2. ASSUME NEW p \in Nodes
        PROVE  \/ Merged(store[r], m.peers)[p] = store[r][p]
               \/ /\ Merged(store[r], m.peers)[p] \in PeerInfo
                  /\ Merged(store[r], m.peers)[p] # Absent
                  /\ Merged(store[r], m.peers)[p].last_seen_tick = now_tick
    <3>1. CASE m.peers[p] = Absent
      BY <3>1 DEF Merged
    <3>2. CASE m.peers[p] # Absent
      <4>1. Merged(store[r], m.peers)[p] = Seen(m.peers[p])
        BY <3>2 DEF Merged
      <4>2. m.peers[p] \in PeerInfo
        BY <2>0, <3>2
      <4> QED BY <4>1, <4>2, <1>0, SeenNow
    <3> QED BY <3>1, <3>2
  <2>3. Merged(store[r], m.peers) \in [Nodes -> PeerInfo \cup {Absent}]
    <3>1. \A p \in Nodes : Merged(store[r], m.peers)[p] \in PeerInfo \cup {Absent}
      BY <1>0, <2>2
    <3> QED BY <3>1 DEF Merged
  <2>4. TypesNext
    BY <1>0, <2>1, <2>3
  <2>5. ASSUME NEW n \in Nodes, NEW p \in Nodes PROVE EntryNext(n, p)
    <3>1. CASE n = r
      <4>1. store'[n][p] = Merged(store[r], m.peers)[p]
        BY <1>0, <2>1, <3>1
      <4>2. announced[n][p] # Absent => announced[n][p] <= now_tick
        BY <1>i, <1>0
      <4>3. CASE store'[n][p] = store[n][p]
        BY <4>3, <2>1, <1>i
      <4>4. CASE /\ store'[n][p] \in PeerInfo /\ store'[n][p] # Absent
                 /\ store'[n][p].last_seen_tick = now_tick
        BY <4>2, <4>4, <2>1, <1>0
      <4> QED BY <4>1, <4>3, <4>4, <2>2, <3>1
    <3>2. CASE n # r
      <4>1. store'[n][p] = store[n][p]
        BY <1>0, <2>1, <3>2
      <4> QED BY <4>1, <2>1, <1>i
    <3> QED BY <3>1, <3>2
  <2> QED BY <2>4, <2>5
<1>5. ASSUME NEW r \in Nodes, EvictStale(r)
      PROVE  TypesNext /\ \A n, p \in Nodes : EntryNext(n, p)
  <2>1. now_tick' = now_tick /\ sent' = sent /\ announced' = announced
    BY <1>5 DEF EvictStale
  <2>2. /\ store' \in [Nodes -> [Nodes -> PeerInfo \cup {Absent}]]
        /\ \A n, p \in Nodes : n # r => store'[n][p] = store[n][p]
        /\ \A p \in Nodes : store'[r][p] =
              IF store[r][p] # Absent /\ Stale(store[r][p]) THEN Absent ELSE store[r][p]
    BY <1>0, <1>5 DEF EvictStale
  <2>3. ASSUME NEW n \in Nodes, NEW p \in Nodes PROVE EntryNext(n, p)
    <3>1. CASE store'[n][p] = store[n][p]
      BY <3>1, <2>1, <1>i
    <3>2. CASE store'[n][p] # store[n][p]
      <4>1. n = r /\ store[n][p] # Absent /\ Stale(store[n][p]) /\ store'[n][p] = Absent
        BY <2>2, <3>2
      <4>2. now_tick - store[n][p].last_seen_tick > MaxAge
        BY <4>1 DEF Stale
      <4>3. announced[n][p] # Absent => now_tick - announced[n][p] > MaxAge
        BY <4>1, <4>2, <1>i, <1>0
      <4> QED BY <4>1, <4>3, <2>1
    <3> QED BY <3>1, <3>2
  <2> QED BY <2>1, <2>2, <2>3, <1>0
<1>6. ASSUME NEW r \in Nodes, NEW q \in Nodes, Remove(r, q)
      PROVE  TypesNext /\ \A n, p \in Nodes : EntryNext(n, p)
  <2>1. TypesNext
    BY <1>0, <1>6 DEF Remove
  <2>2. ASSUME NEW n \in Nodes, NEW p \in Nodes PROVE EntryNext(n, p)
    <3>1. CASE n = r /\ p = q
      <4>1. store'[n][p] = Absent /\ announced'[n][p] = Absent
        BY <1>0, <1>6, <3>1 DEF Remove
      <4> QED BY <4>1
    <3>2. CASE ~(n = r /\ p = q)
      <4>1. store'[n][p] = store[n][p] /\ announced'[n][p] = announced[n][p]
            /\ now_tick' = now_tick
        BY <1>0, <1>6, <3>2 DEF Remove
      <4> QED BY <4>1, <1>i
    <3> QED BY <3>1, <3>2
  <2> QED BY <2>1, <2>2
<1>7. ASSUME UNCHANGED discovery PROVE TypesNext /\ \A n, p \in Nodes : EntryNext(n, p)
  BY <1>0, <1>i, <1>7 DEF discovery
<1>8. ASSUME NEW p \in Nodes, SendPeerList(p) PROVE TypesNext /\ \A n, q \in Nodes : EntryNext(n, q)
  <2>1. [type |-> "PeerList", peers |-> store[p]] \in DiscoveryMessage
    BY <1>0 DEF DiscoveryMessage, PeerStore
  <2> QED BY <2>1, <1>2, <1>8 DEF SendPeerList
<1>9. ASSUME NEW p \in Nodes, NEW addr \in Addrs, SendAnnounce(p, addr)
      PROVE  TypesNext /\ \A n, q \in Nodes : EntryNext(n, q)
  <2>1. [type |-> "Announce", peer |-> p,
         info |-> [addr |-> addr, last_seen_tick |-> now_tick]] \in DiscoveryMessage
    BY <1>0 DEF DiscoveryMessage, PeerInfo
  <2> QED BY <2>1, <1>2, <1>9 DEF SendAnnounce
<1> HIDE DEF TypesNext, EntryNext
<1> QED BY <1>1, <1>3, <1>4, <1>5, <1>6, <1>7, <1>8, <1>9 DEF DiscoveryNext

LEMMA DiscoveryInvariance == DiscoverySpec => []DiscoveryInv
<1>1. DiscoveryInit => DiscoveryInv
  BY DEF DiscoveryInit, DiscoveryInv, DiscoveryTypeOK, KnownOrOld, PeerStore
<1>2. DiscoveryInv /\ [DiscoveryNext]_discovery => DiscoveryInv'
  BY DiscoveryStep
<1> QED BY <1>1, <1>2, PTL DEF DiscoverySpec

\* The stores hold entries of the past only.
THEOREM DiscoveryTypeCorrect == DiscoverySpec => []DiscoveryTypeOK
  BY DiscoveryInvariance, PTL DEF DiscoveryInv

\* Neither old peer lists nor evict_stale make a peer forget one that has
\* announced itself within max_age, for any number of peers and ticks.
THEOREM AnnouncedStaysKnown == DiscoverySpec => []FreshStaysKnown
<1>1. DiscoveryInv => FreshStaysKnown
  <2> SUFFICES ASSUME DiscoveryInv, NEW n \in Nodes, NEW p \in Nodes, announced[n][p] # Absent,
                      now_tick - announced[n][p] <= MaxAge, store[n][p] = Absent
               PROVE  FALSE
    BY DEF FreshStaysKnown
  <2>1. announced[n][p] \in Nat /\ now_tick \in Nat /\ MaxAge \in Nat
    BY DiscoveryTypes DEF DiscoveryInv
  <2>2. now_tick - announced[n][p] > MaxAge
    BY DEF DiscoveryInv, KnownOrOld
  <2> QED BY <2>1, <2>2
<1> QED BY <1>1, DiscoveryInvariance, PTL

-----------------------------------------------------------------------------
(* Sessions.  The nonces of a peer are those of its challenges on the      *)
(* network, which are therefore as many as MaxChallenges allows.  The      *)
(* SecureSessions of an id are only ever added to, keep their remote and   *)
(* count up; what is on the network, verified or delivered was signed by a *)
(* peer that has such a session, which has moved on since.                 *)

Challenges == {m \in network : m.type = "challenge"}

NoncesAreIssued ==
    /\ IsFiniteSet(network)
    /\ \A a \in Peers : \A k \in 1..last_nonce[a] :
          \E m \in Challenges : m.challenge.from = a /\ m.challenge.nonce = k

Answered(c) == \E k \in 1..Len(sessions[c.to][c]) : sessions[c.to][c][k].remote = c.from

Sent(e) ==
    /\ e.payload \in 1..Len(sessions[e.from][e.session_id])
    /\ e.seq < sessions[e.from][e.session_id][e.payload].next_local_seq

MessagesAreSigned ==
    /\ \A m \in network : m.type = "response" =>
          (m.signature.signer = m.signature.content.to => Answered(m.signature.content))
    /\ \A m \in network : m.type = "envelope" =>
          m.signature.signer = m.envelope.from /\ Sent(m.envelope)

VerifiedAreAnswered ==
    \A a \in Peers : \A i \in 1..Len(verified[a]) :
        LET v == verified[a][i]
        IN  /\ v.challenge.from = a /\ Answered(v.challenge)
            /\ v.nonce <= registry[a][v.challenge.to]
            /\ \A j \in 1..i - 1 : verified[a][j].challenge.to = v.challenge.to =>
                   verified[a][j].nonce < v.nonce

\* What one SecureSession, s, has handed out.
GotInOrder(got, s, sid) ==
    \A i \in 1..Len(got) :
        /\ got[i].session_id = sid /\ got[i].from = s.remote
        /\ got[i].seq <= s.last_remote_seq
        /\ \A j \in 1..i - 1 : got[j].seq < got[i].seq

DeliveredAreSent ==
    \A p \in Peers, sid \in SessionIds :
        /\ Len(delivered[p][sid]) = Len(sessions[p][sid])
        /\ \A k \in 1..Len(sessions[p][sid]) :
              /\ GotInOrder(delivered[p][sid][k], sessions[p][sid][k], sid)
              /\ \A i \in 1..Len(delivered[p][sid][k]) : Sent(delivered[p][sid][k][i])

SessionInv ==
    TypeOK /\ NoncesAreIssued /\ MessagesAreSigned /\ VerifiedAreAnswered /\ DeliveredAreSent

\* A message is what its type says.
LEMMA MessageTypes ==
    ASSUME TypeOK, NEW m \in network
    PROVE  /\ m.type = "challenge" => m.challenge \in Challenge
           /\ m.type = "response" => /\ m.from \in Peers /\ m.nonce \in Nonces
                                     /\ m.signature.content \in Challenge
           /\ m.type = "envelope" => m.envelope \in Envelope
<1>1. m \in Message
  BY DEF TypeOK
<1> QED BY <1>1 DEF Message

LEMMA ChallengeTypes ==
    ASSUME NEW c \in Challenge
    PROVE  c.from \in Peers /\ c.to \in Peers /\ c.nonce \in Nat /\ c.nonce \in 1..MaxChallenges
BY SessionAssumption DEF Challenge, Nonces

LEMMA EnvelopeTypes ==
    ASSUME NEW e \in Envelope
    PROVE  /\ e.session_id \in SessionIds /\ e.from \in Peers /\ e.seq \in Nat
           /\ e.payload \in Nat
BY SessionAssumption DEF Envelope, Payload

LEMMA SecureSessionTypes ==
    ASSUME NEW s \in SecureSession
    PROVE  s.remote \in Peers /\ s.next_local_seq \in Nat \ {0} /\ s.last_remote_seq \in Nat
BY DEF SecureSession

\* The sessions of one id, before and after a step.
Grown(old, new) ==
    /\ Len(old) <= Len(new)
    /\ \A k \in 1..Len(old) :
          /\ new[k].remote = old[k].remote
          /\ old[k].next_local_seq <= new[k].next_local_seq
          /\ old[k].last_remote_seq <= new[k].last_remote_seq

LEMMA GrownSame == ASSUME NEW s \in Seq(SecureSession) PROVE Grown(s, s)
<1>1. \A k \in 1..Len(s) : s[k] \in SecureSession
  OBVIOUS
<1>2. \A k \in 1..Len(s) : s[k].next_local_seq \in Nat /\ s[k].last_remote_seq \in Nat
  BY <1>1, SecureSessionTypes
<1> QED BY <1>2 DEF Grown

LEMMA GrownByOne ==
    ASSUME NEW s \in Seq(SecureSession), NEW x \in SecureSession
    PROVE  /\ Append(s, x) \in Seq(SecureSession) /\ Grown(s, Append(s, x))
           /\ Len(Append(s, x)) = Len(s) + 1 /\ Append(s, x)[Len(s) + 1] = x
           /\ \A k \in 1..Len(s) : Append(s, x)[k] = s[k]
<1> DEFINE t == Append(s, x)
<1>1. /\ t \in Seq(SecureSession) /\ Len(t) = Len(s) + 1 /\ t[Len(s) + 1] = x
      /\ \A k \in 1..Len(s) : t[k] = s[k]
  BY AppendProperties
<1> HIDE DEF t
<1>2. Grown(s, s) /\ Len(s) \in Nat
  BY GrownSame
<1>3. Grown(s, t)
  BY <1>1, <1>2 DEF Grown
<1> QED BY <1>1, <1>3 DEF t

\* The state in the terms the steps below use.
LEMMA SessionTypes ==
    ASSUME TypeOK
    PROVE  /\ sessions \in [Peers -> [SessionIds -> Seq(SecureSession)]]
           /\ delivered \in [Peers -> [SessionIds -> Seq(Seq(Envelope))]]
           /\ registry \in [Peers -> [Peers -> 0..MaxChallenges]] /\ MaxChallenges \in Nat
           /\ network \subseteq Message
           /\ verified \in [Peers -> Seq([challenge : Challenge, nonce : Nonces])]
           /\ \A p \in Peers, sid \in SessionIds :
                 /\ sessions[p][sid] \in Seq(SecureSession)
                 /\ delivered[p][sid] \in Seq(Seq(Envelope))
BY SessionAssumption DEF TypeOK

\* A session of the id more, with nothing delivered.
LEMMA OpenFacts ==
    ASSUME TypeOK, NEW p \in Peers, NEW sid \in SessionIds, NEW remote \in Peers,
           OpenSession(p, sid, remote)
    PROVE  /\ sessions' \in [Peers -> [SessionIds -> Seq(SecureSession)]]
           /\ delivered' \in [Peers -> [SessionIds -> Seq(Seq(Envelope))]]
           /\ sessions'[p][sid] = Append(sessions[p][sid], NewSession(remote))
           /\ delivered'[p][sid] = Append(delivered[p][sid], <<>>)
           /\ NewSession(remote) \in SecureSession
           /\ \A q \in Peers, c \in SessionIds : Grown(sessions[q][c], sessions'[q][c])
           /\ \A q \in Peers, c \in SessionIds : ~(q = p /\ c = sid) =>
                 sessions'[q][c] = sessions[q][c] /\ delivered'[q][c] = delivered[q][c]
<1>0. /\ sessions \in [Peers -> [SessionIds -> Seq(SecureSession)]]
      /\ delivered \in [Peers -> [SessionIds -> Seq(Seq(Envelope))]]
  BY SessionTypes
<1>1. NewSession(remote) \in SecureSession
  BY DEF NewSession, SecureSession
<1>2. PICK s \in Seq(SecureSession), d \in Seq(Seq(Envelope)) :
          /\ s = Append(sessions[p][sid], NewSession(remote))
          /\ d = Append(delivered[p][sid], <<>>) /\ Grown(sessions[p][sid], s)
  <2>1. sessions[p][sid] \in Seq(SecureSession) /\ delivered[p][sid] \in Seq(Seq(Envelope))
    BY <1>0
  <2>2. /\ Append(sessions[p][sid], NewSession(remote)) \in Seq(SecureSession)
        /\ Grown(sessions[p][sid], Append(sessions[p][sid], NewSession(remote)))
    BY <1>1, <2>1, GrownByOne
  <2>3. <<>> \in Seq(Envelope)
    OBVIOUS
  <2>4. Append(delivered[p][sid], <<>>) \in Seq(Seq(Envelope))
    BY <2>1, <2>3, AppendProperties
  <2> QED BY <2>2, <2>4
<1>3. /\ sessions' = [sessions EXCEPT ![p][sid] = s]
      /\ delivered' = [delivered EXCEPT ![p][sid] = d]
  BY <1>0, <1>2 DEF OpenSession
<1>4. /\ sessions' \in [Peers -> [SessionIds -> Seq(SecureSession)]]
      /\ delivered' \in [Peers -> [SessionIds -> Seq(Seq(Envelope))]]
      /\ sessions'[p][sid] = s /\ delivered'[p][sid] = d
  BY <1>0, <1>3
<1>5. ASSUME NEW q \in Peers, NEW c \in SessionIds, ~(q = p /\ c = sid)
      PROVE  sessions'[q][c] = sessions[q][c] /\ delivered'[q][c] = delivered[q][c]
  BY <1>0, <1>3, <1>5
<1>6. ASSUME NEW q \in Peers, NEW c \in SessionIds PROVE Grown(sessions[q][c], sessions'[q][c])
  <2>1. CASE q = p /\ c = sid
    BY <2>1, <1>2, <1>4
  <2>2. CASE ~(q = p /\ c = sid)
    <3>1. sessions[q][c] \in Seq(SecureSession)
      BY <1>0
    <3> QED BY <2>2, <3>1, <1>5, GrownSame
  <2> QED BY <2>1, <2>2
<1> QED BY <1>1, <1>2, <1>4, <1>5, <1>6

\* One session counts up, in what it sent or in what it received.
Counts(p, sid, i, x) ==
    /\ x.remote = sessions[p][sid][i].remote
    /\ sessions[p][sid][i].next_local_seq <= x.next_local_seq
    /\ sessions[p][sid][i].last_remote_seq <= x.last_remote_seq
    /\ sessions' = [sessions EXCEPT ![p][sid] = [sessions[p][sid] EXCEPT ![i] = x]]

Counted(p, sid, i, x) ==
    /\ sessions' \in [Peers -> [SessionIds -> Seq(SecureSession)]]
    /\ \A q \in Peers, c \in SessionIds :
          /\ Grown(sessions[q][c], sessions'[q][c])
          /\ Len(sessions'[q][c]) = Len(sessions[q][c])
          /\ \A k \in 1..Len(sessions[q][c]) :
                sessions'[q][c][k] = IF q = p /\ c = sid /\ k = i THEN x
                                     ELSE sessions[q][c][k]

LEMMA CountFacts ==
    ASSUME TypeOK, NEW p \in Peers, NEW sid \in SessionIds, NEW i \in 1..Len(sessions[p][sid]),
           NEW x \in SecureSession, Counts(p, sid, i, x)
    PROVE  Counted(p, sid, i, x)
<1>0. /\ sessions \in [Peers -> [SessionIds -> Seq(SecureSession)]]
      /\ sessions[p][sid] \in Seq(SecureSession)
  BY SessionTypes
<1>o. PICK o \in Seq(SecureSession) : o = sessions[p][sid]
  BY <1>0
<1>t. PICK s : s = [o EXCEPT ![i] = x]
  OBVIOUS
<1>1. /\ s \in Seq(SecureSession) /\ Len(s) = Len(o)
      /\ \A k \in 1..Len(o) : s[k] = IF k = i THEN x ELSE o[k]
  BY <1>o, <1>t, ExceptSeq
<1>g. Grown(o, s)
  <2>1. Grown(o, o) /\ Len(o) \in Nat
    BY GrownSame
  <2>2. /\ x.remote = o[i].remote /\ o[i].next_local_seq <= x.next_local_seq
        /\ o[i].last_remote_seq <= x.last_remote_seq
    BY <1>o DEF Counts
  <2> QED BY <1>1, <2>1, <2>2 DEF Grown
<1>2. sessions' = [sessions EXCEPT ![p][sid] = s]
  BY <1>o, <1>t DEF Counts
<1>3. sessions' \in [Peers -> [SessionIds -> Seq(SecureSession)]] /\ sessions'[p][sid] = s
  BY <1>0, <1>1, <1>2
<1>4. ASSUME NEW q \in Peers, NEW c \in SessionIds
      PROVE  /\ Grown(sessions[q][c], sessions'[q][c])
             /\ Len(sessions'[q][c]) = Len(sessions[q][c])
             /\ \A k \in 1..Len(sessions[q][c]) :
                   sessions'[q][c][k] = IF q = p /\ c = sid /\ k = i THEN x
                                        ELSE sessions[q][c][k]
  <2>1. CASE q = p /\ c = sid
    BY <2>1, <1>o, <1>g, <1>1, <1>3
  <2>2. CASE ~(q = p /\ c = sid)
    <3>1. sessions'[q][c] = sessions[q][c] /\ sessions[q][c] \in Seq(SecureSession)
      BY <1>0, <1>2, <2>2
    <3> QED BY <2>2, <3>1, GrownSame
  <2> QED BY <2>1, <2>2
<1> QED BY <1>3, <1>4 DEF Counted

\* What a step of one session does to all sessions.
LEMMA SendFacts ==
    ASSUME TypeOK, NEW p \in Peers, NEW sid \in SessionIds, NEW i \in 1..Len(sessions[p][sid]),
           Send(p, sid, i)
    PROVE  \E x \in SecureSession :
              /\ x.remote = sessions[p][sid][i].remote
              /\ x.next_local_seq = sessions[p][sid][i].next_local_seq + 1
              /\ x.last_remote_seq = sessions[p][sid][i].last_remote_seq
              /\ sessions[p][sid][i].next_local_seq \in 1..MaxSeq
              /\ Counted(p, sid, i, x)
<1>0. /\ sessions \in [Peers -> [SessionIds -> Seq(SecureSession)]]
      /\ sessions[p][sid] \in Seq(SecureSession)
  BY SessionTypes
<1>1. PICK o \in SecureSession : o = sessions[p][sid][i]
  BY <1>0
<1>2. /\ o.next_local_seq \in Nat \ {0} /\ o.last_remote_seq \in Nat /\ MaxSeq \in Nat
      /\ o.next_local_seq <= MaxSeq
  BY <1>1, SecureSessionTypes, SessionAssumption DEF Send
<1>3. PICK x \in SecureSession : x = [o EXCEPT !.next_local_seq = @ + 1]
  <2>1. o.next_local_seq + 1 \in Nat \ {0}
    BY <1>2
  <2>2. [o EXCEPT !.next_local_seq = @ + 1] \in SecureSession
    BY <2>1 DEF SecureSession
  <2> QED BY <2>2
<1>f. /\ x.remote = o.remote /\ x.next_local_seq = o.next_local_seq + 1
      /\ x.last_remote_seq = o.last_remote_seq
  BY <1>3 DEF SecureSession
<1>4. sessions' = [sessions EXCEPT ![p][sid] = [sessions[p][sid] EXCEPT ![i] = x]]
  <2>1. sessions' = [sessions EXCEPT ![p][sid][i].next_local_seq = @ + 1]
    BY DEF Send
  <2> QED BY <1>0, <1>1, <1>3, <2>1
<1>5. Counts(p, sid, i, x)
  BY <1>1, <1>2, <1>f, <1>4 DEF Counts
<1>6. Counted(p, sid, i, x)
  BY <1>5, CountFacts
<1>7. o.next_local_seq \in 1..MaxSeq
  BY <1>2
<1> QED BY <1>1, <1>f, <1>6, <1>7

LEMMA ReceiveFacts ==
    ASSUME TypeOK, NEW p \in Peers, NEW sid \in SessionIds, NEW i \in 1..Len(sessions[p][sid]),
           NEW m \in network, Receive(p, sid, i, m)
    PROVE  \E x \in SecureSession :
              /\ x.remote = sessions[p][sid][i].remote
              /\ x.last_remote_seq = m.envelope.seq
              /\ Counted(p, sid, i, x)
<1>0. /\ sessions \in [Peers -> [SessionIds -> Seq(SecureSession)]]
      /\ sessions[p][sid] \in Seq(SecureSession)
  BY SessionTypes
<1>1. PICK o \in SecureSession : o = sessions[p][sid][i]
  BY <1>0
<1>2. /\ o.next_local_seq \in Nat \ {0} /\ o.last_remote_seq \in Nat
      /\ m.envelope.seq > o.last_remote_seq
  BY <1>1, SecureSessionTypes DEF Receive, NewSeq
<1>m. m.envelope.seq \in Nat
  BY MessageTypes, EnvelopeTypes DEF Receive
<1>3. PICK x \in SecureSession : x = [o EXCEPT !.last_remote_seq = m.envelope.seq]
  <2>1. [o EXCEPT !.last_remote_seq = m.envelope.seq] \in SecureSession
    BY <1>m DEF SecureSession
  <2> QED BY <2>1
<1>f. /\ x.remote = o.remote /\ x.next_local_seq = o.next_local_seq
      /\ x.last_remote_seq = m.envelope.seq
  BY <1>3 DEF SecureSession
<1>4. sessions' = [sessions EXCEPT ![p][sid] = [sessions[p][sid] EXCEPT ![i] = x]]
  <2>1. sessions' = [sessions EXCEPT ![p][sid][i].last_remote_seq = m.envelope.seq]
    BY DEF Receive
  <2> QED BY <1>0, <1>1, <1>3, <2>1
<1>5. Counts(p, sid, i, x)
  BY <1>1, <1>2, <1>f, <1>m, <1>4 DEF Counts
<1>6. Counted(p, sid, i, x)
  BY <1>5, CountFacts
<1> QED BY <1>1, <1>f, <1>6

\* A peer that may issue another challenge has a nonce left for it.
LEMMA NonceLeft ==
    ASSUME TypeOK, NoncesAreIssued, NEW a \in Peers, Cardinality(Challenges) < MaxChallenges
    PROVE  last_nonce[a] < MaxChallenges
<1> DEFINE T == 1..last_nonce[a]
<1> DEFINE S == {m \in Challenges : m.challenge.from = a /\ m.challenge.nonce \in T}
<1> DEFINE f == [m \in S |-> m.challenge.nonce]
<1>0. last_nonce[a] \in Nat /\ MaxChallenges \in Nat
  BY SessionAssumption DEF TypeOK
<1>1. IsFiniteSet(Challenges)
  BY FS_Subset DEF NoncesAreIssued, Challenges
<1>2. IsFiniteSet(S) /\ Cardinality(S) <= Cardinality(Challenges)
  BY <1>1, FS_Subset
<1>3. f \in [S -> T]
  OBVIOUS
<1>4. \A k \in T : \E m \in S : f[m] = k
  BY DEF NoncesAreIssued
<1> HIDE DEF f, S
<1>5. f \in Surjection(S, T)
  BY <1>3, <1>4 DEF Surjection
<1>6. Cardinality(T) <= Cardinality(S)
  BY <1>2, <1>5, FS_Surjection
<1>7. Cardinality(T) = last_nonce[a]
  BY <1>0, FS_Interval
<1>8. Cardinality(S) \in Nat /\ Cardinality(Challenges) \in Nat
  BY <1>1, <1>2, FS_CardinalityType
<1> QED BY <1>0, <1>2, <1>6, <1>7, <1>8

\* What a received envelope does to the history.
Received(p, sid, i, e) ==
    /\ delivered' \in [Peers -> [SessionIds -> Seq(Seq(Envelope))]]
    /\ \A q \in Peers, c \in SessionIds :
          /\ Len(delivered'[q][c]) = Len(delivered[q][c])
          /\ \A k \in 1..Len(delivered[q][c]) :
                delivered'[q][c][k] = IF q = p /\ c = sid /\ k = i
                                      THEN Append(delivered[p][sid][i], e)
                                      ELSE delivered[q][c][k]

LEMMA DeliverFacts ==
    ASSUME SessionInv, NEW p \in Peers, NEW sid \in SessionIds,
           NEW i \in 1..Len(sessions[p][sid]), NEW m \in network, Receive(p, sid, i, m)
    PROVE  /\ m.envelope \in Envelope /\ i \in 1..Len(delivered[p][sid])
           /\ Received(p, sid, i, m.envelope)
<1>0. /\ delivered \in [Peers -> [SessionIds -> Seq(Seq(Envelope))]]
      /\ delivered[p][sid] \in Seq(Seq(Envelope))
  BY SessionTypes DEF SessionInv
<1>1. PICK e \in Envelope : e = m.envelope
  BY MessageTypes DEF Receive, SessionInv
<1>o. PICK o \in Seq(Seq(Envelope)) : o = delivered[p][sid]
  BY <1>0
<1>i. i \in 1..Len(o)
  BY <1>o DEF SessionInv, DeliveredAreSent
<1>2. PICK x \in Seq(Envelope) : x = Append(o[i], e)
  <2>1. o[i] \in Seq(Envelope)
    BY <1>i
  <2> QED BY <2>1, AppendProperties
<1>t. PICK s : s = [o EXCEPT ![i] = x]
  OBVIOUS
<1>3. /\ s \in Seq(Seq(Envelope)) /\ Len(s) = Len(o)
      /\ \A k \in 1..Len(o) : s[k] = IF k = i THEN x ELSE o[k]
  BY <1>i, <1>t, ExceptSeq
<1>4. delivered' = [delivered EXCEPT ![p][sid] = s]
  <2>1. delivered' = [delivered EXCEPT ![p][sid][i] = Append(@, m.envelope)]
    BY DEF Receive
  <2> QED BY <1>0, <1>o, <1>1, <1>2, <1>t, <2>1
<1>5. delivered' \in [Peers -> [SessionIds -> Seq(Seq(Envelope))]] /\ delivered'[p][sid] = s
  BY <1>0, <1>3, <1>4
<1>6. ASSUME NEW q \in Peers, NEW c \in SessionIds
      PROVE  /\ Len(delivered'[q][c]) = Len(delivered[q][c])
             /\ \A k \in 1..Len(delivered[q][c]) :
                   delivered'[q][c][k] = IF q = p /\ c = sid /\ k = i
                                         THEN Append(delivered[p][sid][i], m.envelope)
                                         ELSE delivered[q][c][k]
  <2>1. CASE q = p /\ c = sid
    BY <2>1, <1>o, <1>1, <1>2, <1>3, <1>5
  <2>2. CASE ~(q = p /\ c = sid)
    <3>1. delivered'[q][c] = delivered[q][c]
      BY <1>0, <1>4, <2>2
    <3> QED BY <2>2, <3>1
  <2> QED BY <2>1, <2>2
<1>7. Received(p, sid, i, m.envelope)
  BY <1>5, <1>6 DEF Received
<1> QED BY <1>1, <1>i, <1>o, <1>7

LEMMA SessionTypeStep ==
    ASSUME SessionInv, [Next]_vars
    PROVE  TypeOK' /\ NoncesAreIssued'
<1>i. TypeOK /\ NoncesAreIssued
  BY DEF SessionInv
<1>0. /\ last_nonce \in [Peers -> 0..MaxChallenges] /\ MaxChallenges \in Nat /\ MaxSeq \in Nat
      /\ registry \in [Peers -> [Peers -> 0..MaxChallenges]]
      /\ sessions \in [Peers -> [SessionIds -> Seq(SecureSession)]]
      /\ network \subseteq Message
      /\ verified \in [Peers -> Seq([challenge : Challenge, nonce : Nonces])]
      /\ delivered \in [Peers -> [SessionIds -> Seq(Seq(Envelope))]]
  BY <1>i, SessionAssumption DEF TypeOK
<1>n. ASSUME NEW m, network' = network \cup {m}, m.type # "challenge", last_nonce' = last_nonce
      PROVE  NoncesAreIssued'
  <2>1. Challenges' = Challenges
    BY <1>n DEF Challenges
  <2>2. IsFiniteSet(network')
    BY <1>i, <1>n, FS_AddElement DEF NoncesAreIssued
  <2> QED BY <1>i, <2>1, <2>2, <1>n DEF NoncesAreIssued
<1>u. ASSUME UNCHANGED <<network, last_nonce>> PROVE NoncesAreIssued'
  BY <1>i, <1>u DEF NoncesAreIssued, Challenges
<1>1. ASSUME NEW a \in Peers, NEW b \in Peers, IssueChallenge(a, b)
      PROVE  TypeOK' /\ NoncesAreIssued'
  <2> DEFINE c == [from |-> a, to |-> b, nonce |-> last_nonce[a] + 1]
  <2> DEFINE m == [type |-> "challenge", challenge |-> c]
  <2>1. last_nonce[a] + 1 \in 1..MaxChallenges
    <3>1. last_nonce[a] < MaxChallenges
      BY <1>i, <1>1, NonceLeft DEF IssueChallenge, Challenges
    <3> QED BY <3>1, <1>0
  <2>2. c \in Challenge /\ m \in Message
    BY <2>1 DEF Challenge, Nonces, Message
  <2>3. network' = network \cup {m} /\ last_nonce' = [last_nonce EXCEPT ![a] = @ + 1]
    BY <1>1 DEF IssueChallenge
  <2>4. last_nonce' \in [Peers -> 0..MaxChallenges]
    BY <1>0, <2>1, <2>3
  <2>5. TypeOK'
    BY <1>0, <1>1, <2>2, <2>3, <2>4 DEF TypeOK, IssueChallenge
  <2>6. Challenges' = Challenges \cup {m}
    BY <2>3 DEF Challenges
  <2>7. IsFiniteSet(network')
    <3>1. IsFiniteSet(network)
      BY <1>i DEF NoncesAreIssued
    <3> QED BY <2>3, <3>1, FS_AddElement
  <2>9. ASSUME NEW p \in Peers, NEW k \in 1..last_nonce'[p]
        PROVE  \E x \in Challenges' : x.challenge.from = p /\ x.challenge.nonce = k
    <3>1. CASE k \in 1..last_nonce[p]
      BY <1>i, <3>1, <2>6 DEF NoncesAreIssued
    <3>2. CASE k \notin 1..last_nonce[p]
      <4>0. last_nonce'[p] = IF p = a THEN last_nonce[a] + 1 ELSE last_nonce[p]
        BY <2>3, <1>0
      <4>a. p = a
        BY <4>0, <3>2
      <4>b. last_nonce[a] \in Nat
        BY <1>0, <4>a
      <4>1. p = a /\ k = last_nonce[a] + 1
        BY <4>0, <4>a, <4>b, <3>2
      <4>2. m.challenge.from = p /\ m.challenge.nonce = k /\ m \in Challenges'
        BY <4>1, <2>6
      <4> QED BY <4>2
    <3> QED BY <3>1, <3>2
  <2> QED BY <2>5, <2>7, <2>9 DEF NoncesAreIssued
<1>2. ASSUME NEW b \in Peers, NEW m \in network, Respond(b, m)
      PROVE  TypeOK' /\ NoncesAreIssued'
  <2>0. PICK c \in Challenge : c = m.challenge
    BY <1>i, <1>2, MessageTypes DEF Respond
  <2>2. c \in SessionIds /\ c.from \in Peers /\ c.to \in Peers /\ c.nonce \in Nonces
    BY <2>0 DEF Challenge, SessionIds
  <2>3. /\ sessions' \in [Peers -> [SessionIds -> Seq(SecureSession)]]
        /\ delivered' \in [Peers -> [SessionIds -> Seq(Seq(Envelope))]]
    <3>1. OpenSession(b, c, c.from)
      BY <1>2, <2>0 DEF Respond
    <3> QED BY <1>i, <2>2, <3>1, OpenFacts
  <2>4. Response(c, b) \in Message /\ Response(c, b).type # "challenge"
    BY <2>0, <2>2 DEF Response, Message, Signed
  <2>5. /\ network' = network \cup {Response(c, b)}
        /\ UNCHANGED <<last_nonce, registry, verified>>
    BY <1>2, <2>0 DEF Respond
  <2>6. TypeOK'
    BY <1>0, <2>3, <2>4, <2>5 DEF TypeOK
  <2> QED BY <1>n, <2>4, <2>5, <2>6
<1>3. ASSUME NEW a \in Peers, NEW c \in SessionIds, NEW r \in network, NEW nonce \in Nonces,
             VerifyResponse(a, c, r, nonce)
      PROVE  TypeOK' /\ NoncesAreIssued'
  <2>1. /\ c \in Challenge /\ c.to \in Peers /\ r.from \in Peers
        /\ nonce \in 0..MaxChallenges
    BY <1>0, <1>3, ChallengeTypes DEF VerifyResponse, Nonces, SessionIds
  <2>2. OpenSession(a, c, c.to) /\ UNCHANGED <<last_nonce, network>>
    BY <1>3 DEF VerifyResponse
  <2>3. /\ sessions' \in [Peers -> [SessionIds -> Seq(SecureSession)]]
        /\ delivered' \in [Peers -> [SessionIds -> Seq(Seq(Envelope))]]
    BY <1>i, <2>1, <2>2, OpenFacts
  <2>4. registry' \in [Peers -> [Peers -> 0..MaxChallenges]]
    BY <1>0, <1>3, <2>1 DEF VerifyResponse
  <2>5. verified' \in [Peers -> Seq([challenge : Challenge, nonce : Nonces])]
    <3> DEFINE V == [challenge : Challenge, nonce : Nonces]
    <3>1. PICK v \in V : v = [challenge |-> c, nonce |-> nonce]
      BY <2>1
    <3>2. verified' = [verified EXCEPT ![a] = Append(@, v)]
      BY <1>3, <3>1 DEF VerifyResponse
    <3> HIDE DEF V
    <3>3. verified[a] \in Seq(V) /\ verified \in [Peers -> Seq(V)]
      BY <1>0 DEF V
    <3>4. Append(verified[a], v) \in Seq(V)
      BY <3>3, AppendProperties
    <3>5. verified' \in [Peers -> Seq(V)]
      BY <3>2, <3>3, <3>4
    <3> QED BY <3>5 DEF V
  <2> QED BY <1>0, <1>u, <2>2, <2>3, <2>4, <2>5 DEF TypeOK
<1>4. ASSUME NEW p \in Peers, NEW sid \in SessionIds, NEW i \in 1..Len(sessions[p][sid]),
             Send(p, sid, i)
      PROVE  TypeOK' /\ NoncesAreIssued'
  <2> DEFINE e == [session_id |-> sid, seq |-> sessions[p][sid][i].next_local_seq,
                   from |-> p, payload |-> i]
  <2> DEFINE m == [type |-> "envelope", envelope |-> e, signature |-> Signed(e, p)]
  <2>1. /\ sessions[p][sid][i].next_local_seq \in 1..MaxSeq
        /\ sessions' \in [Peers -> [SessionIds -> Seq(SecureSession)]]
    BY <1>i, <1>4, SendFacts DEF Counted
  <2>p. i \in Payload
    <3>1. Len(sessions[p][sid]) \in Nat
      BY <1>0
    <3> QED BY <3>1 DEF Payload
  <2>2. e \in Envelope
    BY <2>1, <2>p DEF Envelope
  <2>3. m \in Message /\ m.type # "challenge"
    BY <2>2 DEF Message, Signed
  <2>6. network' = network \cup {m} /\ UNCHANGED <<last_nonce, registry, verified, delivered>>
    BY <1>4 DEF Send
  <2> HIDE DEF m
  <2>9. TypeOK'
    BY <1>0, <2>1, <2>3, <2>6 DEF TypeOK
  <2> QED BY <1>n, <2>3, <2>6, <2>9
<1>5. ASSUME NEW p \in Peers, NEW sid \in SessionIds, NEW i \in 1..Len(sessions[p][sid]),
             NEW m \in network, Receive(p, sid, i, m)
      PROVE  TypeOK' /\ NoncesAreIssued'
  <2>1. sessions' \in [Peers -> [SessionIds -> Seq(SecureSession)]]
    BY <1>i, <1>5, ReceiveFacts DEF Counted
  <2>2. delivered' \in [Peers -> [SessionIds -> Seq(Seq(Envelope))]]
    BY <1>5, DeliverFacts DEF Received
  <2>3. UNCHANGED <<last_nonce, registry, network, verified>>
    BY <1>5 DEF Receive
  <2> QED BY <1>0, <1>u, <2>1, <2>2, <2>3 DEF TypeOK
<1>6. ASSUME UNCHANGED vars PROVE TypeOK' /\ NoncesAreIssued'
  BY <1>i, <1>6, <1>u DEF vars, TypeOK
<1> QED BY <1>1, <1>2, <1>3, <1>4, <1>5, <1>6 DEF Next

\* SecureSessions stay, with their remote, and their counters only grow.
LEMMA SessionsGrow ==
    ASSUME SessionInv, [Next]_vars, NEW p \in Peers, NEW sid \in SessionIds
    PROVE  Grown(sessions[p][sid], sessions'[p][sid])
<1>0. TypeOK /\ sessions[p][sid] \in Seq(SecureSession)
  BY SessionTypes DEF SessionInv
<1>q. ASSUME sessions' = sessions PROVE Grown(sessions[p][sid], sessions'[p][sid])
  BY <1>0, <1>q, GrownSame
<1>1. ASSUME NEW a \in Peers, NEW b \in Peers, IssueChallenge(a, b)
      PROVE  Grown(sessions[p][sid], sessions'[p][sid])
  BY <1>1, <1>q DEF IssueChallenge
<1>2. ASSUME NEW b \in Peers, NEW m \in network, Respond(b, m)
      PROVE  Grown(sessions[p][sid], sessions'[p][sid])
  <2>1. PICK c \in Challenge : c = m.challenge
    BY <1>0, <1>2, MessageTypes DEF Respond
  <2>2. OpenSession(b, c, c.from) /\ c \in SessionIds /\ c.from \in Peers
    BY <1>2, <2>1, ChallengeTypes DEF Respond, SessionIds
  <2> QED BY <1>0, <2>2, OpenFacts
<1>3. ASSUME NEW a \in Peers, NEW c \in SessionIds, NEW r \in network, NEW nonce \in Nonces,
             VerifyResponse(a, c, r, nonce)
      PROVE  Grown(sessions[p][sid], sessions'[p][sid])
  <2>1. OpenSession(a, c, c.to) /\ c.to \in Peers
    BY <1>3, ChallengeTypes DEF VerifyResponse, SessionIds
  <2> QED BY <1>0, <2>1, OpenFacts
<1>4. ASSUME NEW a \in Peers, NEW c \in SessionIds, NEW i \in 1..Len(sessions[a][c]), Send(a, c, i)
      PROVE  Grown(sessions[p][sid], sessions'[p][sid])
  BY <1>0, <1>4, SendFacts DEF Counted
<1>5. ASSUME NEW a \in Peers, NEW c \in SessionIds, NEW i \in 1..Len(sessions[a][c]),
             NEW m \in network, Receive(a, c, i, m)
      PROVE  Grown(sessions[p][sid], sessions'[p][sid])
  BY <1>0, <1>5, ReceiveFacts DEF Counted
<1>6. ASSUME UNCHANGED vars PROVE Grown(sessions[p][sid], sessions'[p][sid])
  BY <1>6, <1>q DEF vars
<1> QED BY <1>1, <1>2, <1>3, <1>4, <1>5, <1>6 DEF Next

\* What was answered or sent stays so.
LEMMA HistoryStays ==
    ASSUME SessionInv, [Next]_vars, TypeOK'
    PROVE  /\ \A c \in Challenge : Answered(c) => Answered(c)'
           /\ \A e \in Envelope : Sent(e) => Sent(e)'
           /\ \A p, q \in Peers : registry[p][q] <= registry'[p][q]
<1>s. ASSUME NEW p \in Peers, NEW sid \in SessionIds
      PROVE  /\ Len(sessions[p][sid]) \in Nat /\ Len(sessions'[p][sid]) \in Nat
             /\ \A k \in 1..Len(sessions[p][sid]) : sessions[p][sid][k] \in SecureSession
             /\ \A k \in 1..Len(sessions'[p][sid]) : sessions'[p][sid][k] \in SecureSession
  <2>1. sessions[p][sid] \in Seq(SecureSession) /\ sessions'[p][sid] \in Seq(SecureSession)
    BY DEF SessionInv, TypeOK
  <2> QED BY <2>1
<1>1. ASSUME NEW c \in Challenge, Answered(c) PROVE Answered(c)'
  <2>1. c.to \in Peers /\ c \in SessionIds
    BY ChallengeTypes DEF SessionIds
  <2>2. PICK k \in 1..Len(sessions[c.to][c]) : sessions[c.to][c][k].remote = c.from
    BY <1>1 DEF Answered
  <2>3. k \in 1..Len(sessions'[c.to][c]) /\ sessions'[c.to][c][k].remote = c.from
    BY <1>s, <2>1, <2>2, SessionsGrow DEF Grown
  <2> QED BY <2>3 DEF Answered
<1>2. ASSUME NEW e \in Envelope, Sent(e) PROVE Sent(e)'
  <2>1. e.from \in Peers /\ e.session_id \in SessionIds /\ e.seq \in Nat
    BY EnvelopeTypes
  <2>2. PICK old, new : old = sessions[e.from][e.session_id] /\ new = sessions'[e.from][e.session_id]
    OBVIOUS
  <2>3. PICK k \in 1..Len(old) : k = e.payload /\ e.seq < old[k].next_local_seq
    BY <1>2, <2>2 DEF Sent
  <2>4. Grown(old, new)
    BY <2>1, <2>2, SessionsGrow
  <2>5. Len(old) \in Nat /\ Len(new) \in Nat /\ old[k] \in SecureSession
    BY <1>s, <2>1, <2>2
  <2>6. k \in 1..Len(new) /\ old[k].next_local_seq <= new[k].next_local_seq
    BY <2>4, <2>5 DEF Grown
  <2>7. new[k] \in SecureSession
    BY <1>s, <2>1, <2>2, <2>6
  <2>8. old[k].next_local_seq \in Nat /\ new[k].next_local_seq \in Nat
    BY <2>5, <2>7, SecureSessionTypes
  <2>9. e.seq < new[k].next_local_seq
    BY <2>1, <2>3, <2>6, <2>8
  <2> QED BY <2>2, <2>3, <2>6, <2>9 DEF Sent
<1>3. ASSUME NEW p \in Peers, NEW q \in Peers PROVE registry[p][q] <= registry'[p][q]
  <2>0. registry \in [Peers -> [Peers -> 0..MaxChallenges]] /\ registry[p][q] \in Nat
    BY SessionTypes DEF SessionInv
  <2>1. ASSUME NEW a \in Peers, NEW c \in SessionIds, NEW r \in network, NEW nonce \in Nonces,
               VerifyResponse(a, c, r, nonce)
        PROVE  registry[p][q] <= registry'[p][q]
    <3>1. /\ registry' = [registry EXCEPT ![a][r.from] = nonce]
          /\ nonce > registry[a][r.from] /\ nonce \in Nat
      BY <2>1, SessionAssumption DEF VerifyResponse, NewNonce, Nonces
    <3>2. CASE p = a /\ q = r.from
      <4>1. registry'[p][q] = nonce
        BY <2>0, <3>1, <3>2
      <4> QED BY <4>1, <3>1, <3>2, <2>0
    <3>3. CASE ~(p = a /\ q = r.from)
      <4>1. registry'[p][q] = registry[p][q]
        BY <2>0, <3>1, <3>3
      <4> QED BY <4>1, <2>0
    <3> QED BY <3>2, <3>3
  <2>2. ASSUME registry' = registry PROVE registry[p][q] <= registry'[p][q]
    BY <2>0, <2>2
  <2>3. ASSUME NEW a \in Peers, NEW b \in Peers, IssueChallenge(a, b) PROVE registry' = registry
    BY <2>3 DEF IssueChallenge
  <2>4. ASSUME NEW b \in Peers, NEW m \in network, Respond(b, m) PROVE registry' = registry
    BY <2>4 DEF Respond
  <2>5. ASSUME NEW a \in Peers, NEW c \in SessionIds, NEW i \in 1..Len(sessions[a][c]),
               Send(a, c, i) \/ \E m \in network : Receive(a, c, i, m)
        PROVE  registry' = registry
    BY <2>5 DEF Send, Receive
  <2>6. ASSUME UNCHANGED vars PROVE registry' = registry
    BY <2>6 DEF vars
  <2> QED BY <2>1, <2>2, <2>3, <2>4, <2>5, <2>6 DEF Next
<1> QED BY <1>1, <1>2, <1>3

LEMMA SignedStep ==
    ASSUME SessionInv, [Next]_vars, TypeOK' PROVE MessagesAreSigned'
<1>t. TypeOK /\ MessagesAreSigned
  BY DEF SessionInv
<1>1. ASSUME NEW m \in network', m.type = "response", m.signature.signer = m.signature.content.to
      PROVE  Answered(m.signature.content)'
  <2>1. CASE m \in network
    <3>1. PICK c \in Challenge : c = m.signature.content
      BY <1>t, <1>1, <2>1, MessageTypes
    <3>2. Answered(c)
      BY <1>t, <1>1, <2>1, <3>1 DEF MessagesAreSigned
    <3>3. Answered(c)'
      BY <3>2, HistoryStays
    <3> QED BY <3>1, <3>3 DEF Answered
  <2>2. ASSUME NEW b \in Peers, NEW x \in network, Respond(b, x), m \notin network
        PROVE  Answered(m.signature.content)'
    <3>1. PICK c \in Challenge : c = x.challenge
      BY <1>t, <2>2, MessageTypes DEF Respond
    <3>2. m = Response(c, b) /\ OpenSession(b, c, c.from)
      BY <2>2, <3>1 DEF Respond
    <3>3. m.signature.content = c /\ c.to = b
      BY <1>1, <3>2 DEF Response, Signed
    <3>4. c \in SessionIds /\ c.from \in Peers
      BY ChallengeTypes DEF SessionIds
    <3>5. PICK old \in Seq(SecureSession) : old = sessions[b][c]
      BY <1>t, <3>4, SessionTypes
    <3>6. sessions'[b][c] = Append(old, NewSession(c.from)) /\ NewSession(c.from) \in SecureSession
      BY <1>t, <3>2, <3>4, <3>5, OpenFacts
    <3>7. /\ Len(sessions'[b][c]) = Len(old) + 1 /\ Len(old) \in Nat
          /\ sessions'[b][c][Len(old) + 1] = NewSession(c.from)
      BY <3>6, GrownByOne
    <3>8. NewSession(c.from).remote = c.from
      BY DEF NewSession
    <3>9. Len(old) + 1 \in 1..Len(sessions'[b][c])
      BY <3>7
    <3> QED BY <3>3, <3>7, <3>8, <3>9 DEF Answered
  <2>3. ASSUME NEW a \in Peers, NEW b \in Peers, IssueChallenge(a, b) PROVE m \in network
    BY <1>1, <2>3 DEF IssueChallenge
  <2>4. ASSUME NEW p \in Peers, NEW sid \in SessionIds, NEW i \in 1..Len(sessions[p][sid]),
               Send(p, sid, i)
        PROVE  m \in network
    BY <1>1, <2>4 DEF Send
  <2>6. ASSUME NEW p \in Peers, NEW sid \in SessionIds, NEW i \in 1..Len(sessions[p][sid]),
               NEW x \in network, Receive(p, sid, i, x)
        PROVE  m \in network
    BY <2>6 DEF Receive
  <2>7. ASSUME NEW a \in Peers, NEW c \in SessionIds, NEW r \in network, NEW nonce \in Nonces,
               VerifyResponse(a, c, r, nonce)
        PROVE  m \in network
    BY <2>7 DEF VerifyResponse
  <2>8. ASSUME UNCHANGED vars PROVE m \in network
    BY <2>8 DEF vars
  <2> QED BY <2>1, <2>2, <2>3, <2>4, <2>6, <2>7, <2>8 DEF Next
<1>2. ASSUME NEW m \in network', m.type = "envelope"
      PROVE  m.signature.signer = m.envelope.from /\ Sent(m.envelope)'
  <2>1. CASE m \in network
    <3>1. PICK e \in Envelope : e = m.envelope
      BY <1>t, <1>2, <2>1, MessageTypes
    <3>2. Sent(e) /\ m.signature.signer = e.from
      BY <1>t, <1>2, <2>1, <3>1 DEF MessagesAreSigned
    <3>3. Sent(e)'
      BY <3>2, HistoryStays
    <3> QED BY <3>1, <3>2, <3>3 DEF Sent
  <2>2. ASSUME NEW p \in Peers, NEW sid \in SessionIds, NEW i \in 1..Len(sessions[p][sid]),
               Send(p, sid, i), m \notin network
        PROVE  m.signature.signer = m.envelope.from /\ Sent(m.envelope)'
    <3>0. PICK x \in SecureSession :
              /\ x.next_local_seq = sessions[p][sid][i].next_local_seq + 1
              /\ sessions[p][sid][i].next_local_seq \in 1..MaxSeq
              /\ Counted(p, sid, i, x)
      BY <1>t, <2>2, SendFacts
    <3>n. PICK n \in Nat : n = sessions[p][sid][i].next_local_seq
      BY <3>0
    <3>1. /\ m.envelope.session_id = sid /\ m.envelope.seq = n /\ m.envelope.from = p
          /\ m.envelope.payload = i /\ m.signature.signer = p
      BY <2>2, <3>n DEF Send, Signed
    <3>2. Len(sessions'[p][sid]) = Len(sessions[p][sid]) /\ sessions'[p][sid][i] = x
      BY <3>0 DEF Counted
    <3> QED BY <3>0, <3>n, <3>1, <3>2 DEF Sent
  <2>3. ASSUME NEW b \in Peers, NEW x \in network, Respond(b, x) PROVE m \in network
    BY <1>2, <2>3 DEF Respond, Response
  <2>4. ASSUME NEW p \in Peers, NEW q \in Peers, IssueChallenge(p, q) PROVE m \in network
    BY <1>2, <2>4 DEF IssueChallenge
  <2>6. ASSUME NEW p \in Peers, NEW sid \in SessionIds, NEW i \in 1..Len(sessions[p][sid]),
               NEW x \in network, Receive(p, sid, i, x)
        PROVE  m \in network
    BY <2>6 DEF Receive
  <2>7. ASSUME NEW a \in Peers, NEW c \in SessionIds, NEW r \in network, NEW nonce \in Nonces,
               VerifyResponse(a, c, r, nonce)
        PROVE  m \in network
    BY <2>7 DEF VerifyResponse
  <2>8. ASSUME UNCHANGED vars PROVE m \in network
    BY <2>8 DEF vars
  <2> QED BY <2>1, <2>2, <2>3, <2>4, <2>6, <2>7, <2>8 DEF Next
<1> QED BY <1>1, <1>2 DEF MessagesAreSigned, Answered, Sent

LEMMA VerifiedStep ==
    ASSUME SessionInv, [Next]_vars, TypeOK' PROVE VerifiedAreAnswered'
<1> DEFINE V == [challenge : Challenge, nonce : Nonces]
<1> DEFINE Goal(v, a, i) ==
        /\ v.challenge.from = a /\ Answered(v.challenge)'
        /\ v.nonce <= registry'[a][v.challenge.to]
        /\ \A j \in 1..i - 1 : verified'[a][j].challenge.to = v.challenge.to =>
               verified'[a][j].nonce < v.nonce
<1> SUFFICES ASSUME NEW a \in Peers, NEW i \in 1..Len(verified'[a]),
                    NEW v, v = verified'[a][i]
             PROVE  Goal(v, a, i)
  BY DEF VerifiedAreAnswered, Answered
<1>s. /\ verified \in [Peers -> Seq(V)] /\ registry \in [Peers -> [Peers -> 0..MaxChallenges]]
      /\ registry' \in [Peers -> [Peers -> 0..MaxChallenges]] /\ MaxChallenges \in Nat
      /\ TypeOK
  BY SessionTypes DEF SessionInv, TypeOK
<1>r. ASSUME NEW w \in V
      PROVE  /\ w.challenge \in Challenge /\ w.challenge \in SessionIds /\ w.challenge.to \in Peers
             /\ w.nonce \in Nat
             /\ registry[a][w.challenge.to] \in Nat /\ registry'[a][w.challenge.to] \in Nat
  <2>1. w.challenge \in Challenge /\ w.nonce \in Nonces
    OBVIOUS
  <2>2. w.challenge.to \in Peers
    BY <2>1, ChallengeTypes
  <2>3. w.nonce \in Nat /\ w.challenge \in SessionIds
    BY <1>s, <2>1 DEF SessionIds, Nonces
  <2>4. registry[a][w.challenge.to] \in Nat /\ registry'[a][w.challenge.to] \in Nat
    BY <1>s, <2>2
  <2> QED BY <2>1, <2>2, <2>3, <2>4
<1>v. ASSUME NEW k \in 1..Len(verified[a])
      PROVE  /\ verified[a][k] \in V
             /\ verified[a][k].challenge.from = a /\ Answered(verified[a][k].challenge)
             /\ verified[a][k].nonce <= registry[a][verified[a][k].challenge.to]
             /\ \A j \in 1..k - 1 : verified[a][j].challenge.to = verified[a][k].challenge.to =>
                    verified[a][j].nonce < verified[a][k].nonce
  <2>1. verified[a] \in Seq(V)
    BY <1>s
  <2>2. verified[a][k] \in V
    <3> HIDE DEF V
    <3> QED BY <2>1
  <2> QED BY <2>2 DEF SessionInv, VerifiedAreAnswered
<1> HIDE DEF V
<1>q. ASSUME i \in 1..Len(verified[a]), v = verified[a][i],
             \A j \in 1..i - 1 : verified'[a][j] = verified[a][j]
      PROVE  Goal(v, a, i)
  <2>1. /\ v.challenge.from = a /\ Answered(v.challenge)
        /\ v.nonce <= registry[a][v.challenge.to]
        /\ \A j \in 1..i - 1 : verified[a][j].challenge.to = v.challenge.to =>
               verified[a][j].nonce < v.nonce
    BY <1>q, <1>v
  <2>0. v \in V
    BY <1>q, <1>v
  <2>2. /\ v.challenge \in Challenge /\ v.challenge.to \in Peers /\ v.nonce \in Nat
        /\ registry[a][v.challenge.to] \in Nat /\ registry'[a][v.challenge.to] \in Nat
    BY <2>0, <1>r
  <2>3. Answered(v.challenge)' /\ registry[a][v.challenge.to] <= registry'[a][v.challenge.to]
    BY <2>1, <2>2, HistoryStays
  <2>4. v.nonce <= registry'[a][v.challenge.to]
    BY <2>1, <2>2, <2>3
  <2> QED BY <2>1, <2>3, <2>4, <1>q
<1>1. CASE verified'[a] = verified[a]
  BY <1>1, <1>q
<1>2. ASSUME NEW d \in SessionIds, NEW r \in network, NEW nonce \in Nonces,
             VerifyResponse(a, d, r, nonce)
      PROVE  Goal(v, a, i)
  <2>v. PICK n \in V : n = [challenge |-> d, nonce |-> nonce]
    BY DEF V, SessionIds
  <2>f. n.challenge = d /\ n.nonce = nonce
    BY <2>v
  <2>0. verified'[a] = Append(verified[a], n) /\ verified[a] \in Seq(V)
    BY <1>s, <1>2, <2>v DEF VerifyResponse
  <2>l. PICK l \in Nat : l = Len(verified[a])
    BY <2>0
  <2>a. /\ i \in 1..l + 1 /\ verified'[a][l + 1] = n
        /\ \A k \in 1..l : verified'[a][k] = verified[a][k]
    BY <2>0, <2>l, AppendProperties
  <2>1. CASE i \in 1..l
    <3>1. i \in 1..Len(verified[a]) /\ v = verified[a][i]
      BY <2>1, <2>a, <2>l
    <3>2. \A j \in 1..i - 1 : j \in 1..l
      BY <2>1
    <3> QED BY <3>1, <3>2, <2>a, <1>q
  <2>2. CASE i = l + 1
    <3>1. v = n
      BY <2>2, <2>a
    <3>2. /\ d.from = a /\ r.type = "response" /\ r.from = d.to
          /\ nonce > registry[a][d.to]
          /\ r.signature.content = d /\ r.signature.signer = d.to
      BY <1>2 DEF VerifyResponse, NewNonce, VerifySignature, Signed
    <3>3. /\ d \in Challenge /\ d.to \in Peers /\ nonce \in Nat
          /\ registry[a][d.to] \in Nat
      BY <1>r, <2>f
    <3>4. registry'[a][d.to] = nonce
      BY <1>s, <1>2, <3>2, <3>3 DEF VerifyResponse
    <3>5. Answered(d)'
      <4>1. Answered(d)
        BY <3>2 DEF SessionInv, MessagesAreSigned
      <4> QED BY <3>3, <4>1, HistoryStays
    <3>6. ASSUME NEW j \in 1..i - 1, verified'[a][j].challenge.to = d.to
          PROVE  verified'[a][j].nonce < nonce
      <4>1. j \in 1..Len(verified[a]) /\ verified'[a][j] = verified[a][j]
        BY <2>2, <2>a, <2>l
      <4>2. PICK w \in V : w = verified[a][j]
        BY <4>1, <1>v
      <4>3. w.nonce <= registry[a][d.to]
        BY <4>1, <4>2, <3>6, <1>v
      <4>4. w.nonce \in Nat
        BY <1>r
      <4>5. w.nonce < nonce
        BY <4>3, <4>4, <3>2, <3>3
      <4> QED BY <4>1, <4>2, <4>5
    <3> QED BY <2>f, <3>1, <3>2, <3>3, <3>4, <3>5, <3>6
  <2> QED BY <2>1, <2>2, <2>a, <2>l
<1>3. ASSUME NEW b \in Peers, b # a, NEW d \in SessionIds, NEW r \in network, NEW nonce \in Nonces,
             VerifyResponse(b, d, r, nonce)
      PROVE  verified'[a] = verified[a]
  BY <1>s, <1>3 DEF VerifyResponse
<1>4. ASSUME NEW p \in Peers, NEW q \in Peers, IssueChallenge(p, q) PROVE verified'[a] = verified[a]
  BY <1>4 DEF IssueChallenge
<1>5. ASSUME NEW b \in Peers, NEW m \in network, Respond(b, m) PROVE verified'[a] = verified[a]
  BY <1>5 DEF Respond
<1>6. ASSUME NEW p \in Peers, NEW c \in SessionIds, NEW k \in 1..Len(sessions[p][c]),
             Send(p, c, k) \/ \E m \in network : Receive(p, c, k, m)
      PROVE  verified'[a] = verified[a]
  BY <1>6 DEF Send, Receive
<1>7. ASSUME UNCHANGED vars PROVE verified'[a] = verified[a]
  BY <1>7 DEF vars
<1> HIDE DEF Goal
<1> QED BY <1>1, <1>2, <1>3, <1>4, <1>5, <1>6, <1>7 DEF Next

\* What a SecureSession has handed out stays in order while it counts up,
\* and when it hands out the next envelope.
LEMMA GotStays ==
    ASSUME NEW got \in Seq(Envelope), NEW sid, NEW s \in SecureSession, NEW t \in SecureSession,
           GotInOrder(got, s, sid), t.remote = s.remote, s.last_remote_seq <= t.last_remote_seq
    PROVE  GotInOrder(got, t, sid)
<1>1. \A i \in 1..Len(got) : got[i] \in Envelope
  OBVIOUS
<1>2. \A i \in 1..Len(got) : got[i].seq \in Nat
  BY <1>1, EnvelopeTypes
<1>3. s.last_remote_seq \in Nat /\ t.last_remote_seq \in Nat
  BY SecureSessionTypes
<1> QED BY <1>2, <1>3 DEF GotInOrder

LEMMA GotMore ==
    ASSUME NEW got \in Seq(Envelope), NEW sid, NEW s \in SecureSession, NEW t \in SecureSession,
           NEW e \in Envelope, GotInOrder(got, s, sid), e.session_id = sid, e.from = s.remote,
           e.seq > s.last_remote_seq, t.remote = s.remote, t.last_remote_seq = e.seq
    PROVE  GotInOrder(Append(got, e), t, sid)
<1>1. PICK n \in Nat : n = Len(got)
  OBVIOUS
<1>2. PICK new : new = Append(got, e)
  OBVIOUS
<1>3. Len(new) = n + 1 /\ new[n + 1] = e /\ \A k \in 1..n : new[k] = got[k]
  BY <1>1, <1>2, AppendProperties
<1>4. \A k \in 1..n : got[k] \in Envelope
  BY <1>1
<1>5. /\ e.seq \in Nat /\ s.last_remote_seq \in Nat
      /\ \A k \in 1..n : got[k].seq \in Nat /\ got[k].seq <= s.last_remote_seq
  BY <1>1, <1>4, EnvelopeTypes, SecureSessionTypes DEF GotInOrder
<1>6. ASSUME NEW i \in 1..n + 1
      PROVE  /\ new[i].session_id = sid /\ new[i].from = t.remote
             /\ new[i].seq <= t.last_remote_seq
             /\ \A j \in 1..i - 1 : new[j].seq < new[i].seq
  <2>1. CASE i \in 1..n
    <3>1. new[i] = got[i] /\ \A j \in 1..i - 1 : new[j] = got[j]
      BY <1>3, <2>1
    <3> QED BY <1>1, <1>5, <2>1, <3>1 DEF GotInOrder
  <2>2. CASE i = n + 1
    <3>1. new[i] = e /\ \A j \in 1..i - 1 : new[j] = got[j] /\ j \in 1..n
      BY <1>3, <2>2
    <3> QED BY <1>5, <3>1
  <2> QED BY <2>1, <2>2
<1> QED BY <1>2, <1>3, <1>6 DEF GotInOrder

LEMMA DeliveredStep ==
    ASSUME SessionInv, [Next]_vars, TypeOK' PROVE DeliveredAreSent'
<1> DEFINE Ok(got, s, sid) == /\ GotInOrder(got, s, sid)
                              /\ \A i \in 1..Len(got) : Sent(got[i])'
<1>t. TypeOK
  BY DEF SessionInv
<1> SUFFICES ASSUME NEW p \in Peers, NEW sid \in SessionIds,
                    NEW has, has = delivered'[p][sid], NEW new, new = sessions'[p][sid]
             PROVE  Len(has) = Len(new) /\ \A k \in 1..Len(new) : Ok(has[k], new[k], sid)
  BY DEF DeliveredAreSent, GotInOrder, Sent
<1>o. PICK old, had :
          /\ old = sessions[p][sid] /\ new = sessions'[p][sid]
          /\ had = delivered[p][sid] /\ has = delivered'[p][sid]
  OBVIOUS
<1>s. /\ old \in Seq(SecureSession) /\ new \in Seq(SecureSession)
      /\ had \in Seq(Seq(Envelope)) /\ has \in Seq(Seq(Envelope))
      /\ Len(had) = Len(old) /\ Grown(old, new)
  <2>1. old \in Seq(SecureSession) /\ had \in Seq(Seq(Envelope))
    BY <1>t, <1>o, SessionTypes
  <2>2. new \in Seq(SecureSession)
    BY <1>o DEF TypeOK
  <2>3. has \in Seq(Seq(Envelope))
    BY <1>o DEF TypeOK
  <2>4. Len(had) = Len(old)
    BY <1>o DEF SessionInv, DeliveredAreSent
  <2>5. Grown(old, new)
    BY <1>o, SessionsGrow
  <2> QED BY <2>1, <2>2, <2>3, <2>4, <2>5
<1>v. ASSUME NEW k \in 1..Len(old)
      PROVE  /\ had[k] \in Seq(Envelope) /\ old[k] \in SecureSession /\ new[k] \in SecureSession
             /\ GotInOrder(had[k], old[k], sid)
             /\ \A i \in 1..Len(had[k]) : had[k][i] \in Envelope /\ Sent(had[k][i])'
             /\ new[k].remote = old[k].remote
             /\ old[k].last_remote_seq <= new[k].last_remote_seq
  <2>1. /\ had[k] \in Seq(Envelope) /\ old[k] \in SecureSession /\ k \in 1..Len(new)
    BY <1>s DEF Grown
  <2>2. new[k] \in SecureSession
    BY <1>s, <2>1
  <2>3. GotInOrder(had[k], old[k], sid) /\ \A i \in 1..Len(had[k]) : Sent(had[k][i])
    BY <1>o DEF SessionInv, DeliveredAreSent
  <2>4. \A i \in 1..Len(had[k]) : had[k][i] \in Envelope
    BY <2>1
  <2>5. \A i \in 1..Len(had[k]) : Sent(had[k][i])'
    <3> SUFFICES ASSUME NEW i \in 1..Len(had[k]) PROVE Sent(had[k][i])'
      OBVIOUS
    <3>1. PICK e \in Envelope : e = had[k][i]
      BY <2>4
    <3>2. Sent(e)
      BY <2>3, <3>1
    <3>3. Sent(e)'
      BY <3>2, HistoryStays
    <3> QED BY <3>1, <3>3 DEF Sent
  <2> QED BY <1>s, <2>1, <2>2, <2>3, <2>4, <2>5 DEF Grown
<1>q. ASSUME NEW k \in 1..Len(old), has[k] = had[k] PROVE Ok(has[k], new[k], sid)
  <2>1. GotInOrder(had[k], new[k], sid)
    BY <1>v, GotStays
  <2> QED BY <1>v, <1>q, <2>1
<1> HIDE DEF Ok
<1> DEFINE Goal == Len(has) = Len(new) /\ \A k \in 1..Len(new) : Ok(has[k], new[k], sid)
<1>a. ASSUME has = had, Len(new) = Len(old) PROVE Goal
  BY <1>a, <1>s, <1>q
<1>c. ASSUME NEW a \in Peers, NEW c \in SessionIds, NEW remote \in Peers,
             OpenSession(a, c, remote)
      PROVE  Goal
  <2>1. CASE p = a /\ sid = c
    <3>1. /\ new = Append(old, NewSession(remote)) /\ has = Append(had, <<>>)
          /\ NewSession(remote) \in SecureSession
      BY <1>t, <1>o, <1>c, <2>1, OpenFacts
    <3>2. PICK n \in Nat : n = Len(old) /\ n = Len(had)
      BY <1>s
    <3>3. Len(new) = n + 1
      BY <1>s, <3>1, <3>2, AppendProperties
    <3>4. Len(has) = n + 1 /\ has[n + 1] = <<>> /\ \A k \in 1..n : has[k] = had[k]
      <4> DEFINE S == Seq(Envelope)
      <4>1. <<>> \in S /\ had \in Seq(S)
        BY <1>s
      <4> HIDE DEF S
      <4> QED BY <3>1, <3>2, <4>1, AppendProperties
    <3>5. Ok(has[n + 1], new[n + 1], sid)
      BY <3>4 DEF Ok, GotInOrder
    <3> QED BY <3>2, <3>3, <3>4, <3>5, <1>q
  <2>2. CASE ~(p = a /\ sid = c)
    <3>1. new = old /\ has = had
      BY <1>t, <1>o, <1>c, <2>2, OpenFacts
    <3> QED BY <3>1, <1>a
  <2> QED BY <2>1, <2>2
<1>1. ASSUME NEW a \in Peers, NEW b \in Peers, IssueChallenge(a, b) PROVE Goal
  BY <1>1, <1>a, <1>o DEF IssueChallenge
<1>2. ASSUME NEW b \in Peers, NEW m \in network, Respond(b, m) PROVE Goal
  <2>1. PICK c \in Challenge : c = m.challenge
    BY <1>t, <1>2, MessageTypes DEF Respond
  <2>2. OpenSession(b, c, c.from) /\ c \in SessionIds /\ c.from \in Peers
    BY <1>2, <2>1, ChallengeTypes DEF Respond, SessionIds
  <2> QED BY <2>2, <1>c
<1>3. ASSUME NEW a \in Peers, NEW c \in SessionIds, NEW r \in network, NEW nonce \in Nonces,
             VerifyResponse(a, c, r, nonce)
      PROVE  Goal
  <2>1. OpenSession(a, c, c.to) /\ c.to \in Peers
    BY <1>3, ChallengeTypes DEF VerifyResponse, SessionIds
  <2> QED BY <2>1, <1>c
<1>4. ASSUME NEW a \in Peers, NEW c \in SessionIds, NEW i \in 1..Len(sessions[a][c]), Send(a, c, i)
      PROVE  Goal
  <2>1. Len(new) = Len(old)
    BY <1>t, <1>o, <1>4, SendFacts DEF Counted
  <2>2. has = had
    BY <1>o, <1>4 DEF Send
  <2> QED BY <2>1, <2>2, <1>a
<1>5. ASSUME NEW a \in Peers, NEW c \in SessionIds, NEW i \in 1..Len(sessions[a][c]),
             NEW m \in network, Receive(a, c, i, m)
      PROVE  Goal
  <2>1. PICK e \in Envelope : e = m.envelope
    BY <1>5, DeliverFacts
  <2>2. PICK x \in SecureSession :
            /\ x.remote = sessions[a][c][i].remote /\ x.last_remote_seq = e.seq
            /\ Counted(a, c, i, x)
    BY <1>t, <1>5, <2>1, ReceiveFacts
  <2>3. Received(a, c, i, e)
    BY <1>5, <2>1, DeliverFacts
  <2>4. Len(new) = Len(old) /\ Len(has) = Len(had)
    BY <1>o, <2>2, <2>3 DEF Counted, Received
  <2>5. ASSUME NEW k \in 1..Len(old) PROVE Ok(has[k], new[k], sid)
    <3>1. CASE p = a /\ sid = c /\ k = i
      <4>1. new[k] = x /\ has[k] = Append(had[k], e)
        <5>1. k \in 1..Len(sessions[p][sid]) /\ k \in 1..Len(delivered[p][sid])
          BY <1>o, <1>s
        <5>2. sessions'[p][sid][k] = x
          BY <2>2, <3>1, <5>1 DEF Counted
        <5>3. delivered'[p][sid][k] = Append(delivered[p][sid][k], e)
          BY <2>3, <3>1, <5>1 DEF Received
        <5> QED BY <1>o, <5>2, <5>3
      <4>2. /\ e.session_id = sid /\ e.seq > old[k].last_remote_seq
            /\ m.signature.signer = old[k].remote /\ m.type = "envelope"
            /\ x.remote = old[k].remote
        BY <1>o, <1>5, <2>1, <2>2, <3>1 DEF Receive, NewSeq, VerifySignature, Signed
      <4>3. e.from = old[k].remote /\ Sent(e)
        BY <2>1, <4>2 DEF SessionInv, MessagesAreSigned
      <4>4. Sent(e)'
        BY <4>3, HistoryStays
      <4>5. GotInOrder(has[k], new[k], sid)
        BY <1>v, <2>2, <4>1, <4>2, <4>3, GotMore
      <4>6. \A j \in 1..Len(has[k]) : Sent(has[k][j])'
        <5> SUFFICES ASSUME NEW j \in 1..Len(has[k]) PROVE Sent(has[k][j])'
          OBVIOUS
        <5>1. PICK n \in Nat : n = Len(had[k])
          BY <1>v
        <5>2. /\ Len(has[k]) = n + 1 /\ has[k][n + 1] = e
              /\ \A l \in 1..n : has[k][l] = had[k][l]
          BY <1>v, <4>1, <5>1, AppendProperties
        <5>3. CASE j \in 1..n
          BY <5>1, <5>2, <5>3, <1>v DEF Sent
        <5>4. CASE j = n + 1
          BY <5>2, <5>4, <4>4 DEF Sent
        <5> QED BY <5>2, <5>3, <5>4
      <4> QED BY <4>5, <4>6 DEF Ok
    <3>2. CASE ~(p = a /\ sid = c /\ k = i)
      <4>1. has[k] = had[k]
        BY <1>o, <1>s, <2>3, <3>2 DEF Received
      <4> QED BY <4>1, <1>q
    <3> QED BY <3>1, <3>2
  <2> QED BY <2>4, <2>5, <1>s
<1>6. ASSUME UNCHANGED vars PROVE Goal
  BY <1>6, <1>a, <1>o DEF vars
<1>7. Goal
  BY <1>1, <1>2, <1>3, <1>4, <1>5, <1>6 DEF Next
<1> QED BY <1>o, <1>7

LEMMA SessionInvariance == Spec => []SessionInv
<1>1. Init => SessionInv
  <2> SUFFICES ASSUME Init PROVE SessionInv
    OBVIOUS
  <2>e. \A p \in Peers, sid \in SessionIds : sessions[p][sid] = <<>> /\ delivered[p][sid] = <<>>
    BY DEF Init
  <2>1. TypeOK
    <3>1. <<>> \in Seq(SecureSession) /\ <<>> \in Seq(Seq(Envelope))
      OBVIOUS
    <3>2. <<>> \in Seq([challenge : Challenge, nonce : Nonces])
      OBVIOUS
    <3>3. 0 \in 0..MaxChallenges
      BY SessionAssumption
    <3> QED BY <3>1, <3>2, <3>3 DEF Init, TypeOK
  <2>2. NoncesAreIssued
    <3>1. \A a \in Peers : 1..last_nonce[a] = {}
      BY DEF Init
    <3> QED BY <3>1, FS_EmptySet DEF Init, NoncesAreIssued
  <2>3. MessagesAreSigned
    BY DEF Init, MessagesAreSigned
  <2>4. VerifiedAreAnswered
    <3>1. \A a \in Peers : verified[a] = <<>>
      BY DEF Init
    <3> QED BY <3>1 DEF VerifiedAreAnswered
  <2>5. DeliveredAreSent
    BY <2>e DEF DeliveredAreSent
  <2> QED BY <2>1, <2>2, <2>3, <2>4, <2>5 DEF SessionInv
<1>2. SessionInv /\ [Next]_vars => SessionInv'
  <2> SUFFICES ASSUME SessionInv, [Next]_vars PROVE SessionInv'
    OBVIOUS
  <2>1. TypeOK' /\ NoncesAreIssued'
    BY SessionTypeStep
  <2> QED BY <2>1, SignedStep, VerifiedStep, DeliveredStep DEF SessionInv
<1> QED BY <1>1, <1>2, PTL DEF Spec

\* Nonces, sessions and messages stay in their types.
THEOREM SessionTypeCorrect == Spec => []TypeOK
  BY SessionInvariance, PTL DEF SessionInv

\* What AuthRegistry::verify accepts was answered by the peer it was for, and
\* the nonces accepted from a peer strictly increase, for any number of peers
\* and whatever the transport repeats or makes of the nonce of an answer.
THEOREM HandshakesHold == Spec => []HandshakesAreMutual
<1>1. SessionInv => HandshakesAreMutual
  <2> SUFFICES ASSUME VerifiedAreAnswered, NEW a \in Peers, NEW i \in 1..Len(verified[a]),
                      NEW c, c = verified[a][i].challenge
               PROVE  /\ \E k \in 1..Len(sessions[c.to][c]) : sessions[c.to][c][k].remote = a
                      /\ \A j \in 1..i - 1 : verified[a][j].challenge.to = c.to =>
                             verified[a][j].nonce < verified[a][i].nonce
    BY DEF SessionInv, HandshakesAreMutual
  <2>1. c.from = a /\ Answered(c)
    BY DEF VerifiedAreAnswered
  <2>2. \A j \in 1..i - 1 : verified[a][j].challenge.to = c.to =>
            verified[a][j].nonce < verified[a][i].nonce
    BY DEF VerifiedAreAnswered
  <2> QED BY <2>1, <2>2 DEF Answered
<1> QED BY <1>1, SessionInvariance, PTL

\* SecureSession::receive hands out what the remote sent in sessions of the
\* same id, once for each SecureSession and in the order of its sequence
\* numbers, for any number of peers, sessions and envelopes, and however often
\* an id is opened again.
THEOREM SessionsDeliverInOrder == Spec => []DeliveredInOrder
<1> DEFINE Good(got, r, sid) ==
        /\ \A i \in 1..Len(got) :
              /\ got[i].from = r /\ got[i].payload \in 1..Len(sessions[r][sid])
              /\ got[i].seq < sessions[r][sid][got[i].payload].next_local_seq
        /\ \A i, j \in 1..Len(got) : i < j => got[i].seq < got[j].seq
<1>1. ASSUME SessionInv, NEW p \in Peers, NEW sid \in SessionIds,
             NEW k \in 1..Len(sessions[p][sid])
      PROVE  Good(delivered[p][sid][k], sessions[p][sid][k].remote, sid)
  <2>d. PICK got, r : got = delivered[p][sid][k] /\ r = sessions[p][sid][k].remote
    OBVIOUS
  <2>t. got \in Seq(Envelope)
    <3>1. delivered[p][sid] \in Seq(Seq(Envelope)) /\ k \in 1..Len(delivered[p][sid])
      BY <1>1, SessionTypes DEF SessionInv, DeliveredAreSent
    <3> QED BY <2>d, <3>1
  <2>0. PICK n \in Nat : n = Len(got)
    BY <2>t
  <2>1. ASSUME NEW i \in 1..n
        PROVE  /\ got[i].session_id = sid /\ got[i].from = r /\ Sent(got[i])
               /\ \A j \in 1..i - 1 : got[j].seq < got[i].seq
    BY <1>1, <2>d, <2>0 DEF SessionInv, DeliveredAreSent, GotInOrder
  <2>2. ASSUME NEW i \in 1..n, NEW j \in 1..n, i < j PROVE got[i].seq < got[j].seq
    BY <2>1, <2>2, <2>0
  <2>3. Good(got, r, sid)
    BY <2>0, <2>1, <2>2 DEF Sent
  <2> QED BY <2>d, <2>3
<1>2. SessionInv => DeliveredInOrder
  BY <1>1 DEF DeliveredInOrder
<1> HIDE DEF Good
<1> QED BY <1>2, SessionInvariance, PTL

(* The parts side by side, as the run composes them.                       *)

\* Sessions, discovery and negotiation do not touch each other's state: each
\* behaves as it does alone and keeps its types (auth.rs, session.rs,
\* discovery.rs, upgrade.rs).
THEOREM NetworkTypesHold == NetworkSpec => []NetworkTypeOK
<1>1. NetworkInit => Init /\ DiscoveryInit /\ UpgradeInit
  BY DEF NetworkInit
<1>2. [NetworkNext]_<<part, vars, discovery, hello>>
        => [Next]_vars /\ [DiscoveryNext]_discovery /\ [UpgradeNext]_hello
  BY DEF NetworkNext
<1>3. NetworkSpec => Spec /\ DiscoverySpec /\ UpgradeSpec
  BY <1>1, <1>2, PTL DEF NetworkSpec, Spec, DiscoverySpec, UpgradeSpec
<1> QED
  BY <1>3, SessionTypeCorrect, DiscoveryTypeCorrect, UpgradeTypeCorrect, PTL
     DEF NetworkTypeOK
============================================================================
