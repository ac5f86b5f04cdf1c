----------------------------- MODULE PeerSession -----------------------------
(***************************************************************************)
(* Challenge-response handshake and signed sessions of two peers            *)
(* (kai-os/network/src/auth.rs and session.rs) over a transport that loses, *)
(* duplicates and reorders: network holds everything ever sent, and any of  *)
(* it may arrive any number of times, at its own sender too.  The nonce of  *)
(* a response is not signed, and may be another one when it arrives.        *)
(*                                                                          *)
(* Hashes and signatures are ideal: a session id is the triple it is        *)
(* derived from, a signature the pair of its signer and what was signed.    *)
(* The peers use the library as tests/tcp_transport.rs does: the responder  *)
(* opens a session whenever it answers a challenge, the initiator whenever  *)
(* it has verified an answer.  A session id may so be opened again while    *)
(* older SecureSessions of the same id are in use, on other connections.    *)
(***************************************************************************)
EXTENDS Integers, Sequences, FiniteSets

CONSTANTS Peers,        \* peer ids, which are the public keys
          MaxChallenges,\* bound on challenges issued by all peers together
          MaxSeq,       \* bound on envelopes a peer sends in a session
          MaxSessions   \* bound on sessions opened by all peers together

SecureSession == [remote : Peers, next_local_seq : Nat \ {0}, last_remote_seq : Nat]

ASSUME SessionAssumption ==
    MaxChallenges \in Nat /\ MaxSeq \in Nat /\ MaxSessions \in Nat

VARIABLES last_nonce,   \* ChallengeGenerator of each peer
          registry,     \* AuthRegistry of each peer: last nonce per responder
          sessions,     \* SecureSessions of each peer for each session id
          network,      \* messages ever sent
          verified,     \* history: challenges verified and the nonces accepted, in order
          delivered     \* history: what receive() of each SecureSession returned, in order

vars == <<last_nonce, registry, sessions, network, verified, delivered>>

Nonces == 1..MaxChallenges
Challenge == [from : Peers, to : Peers, nonce : Nonces]
SessionIds == Challenge
Payload == Nat \ {0}     \* which of the sender's sessions of this id it is sent in
Envelope == [session_id : SessionIds, seq : 1..MaxSeq, from : Peers, payload : Payload]

Signed(content, signer) == [content |-> content, signer |-> signer]
Message ==
    [type : {"challenge"}, challenge : Challenge]
    \cup [type : {"response"}, from : Peers, to : Peers, nonce : Nonces,
          signature : [content : Challenge, signer : Peers]]
    \cup [type : {"envelope"}, envelope : Envelope,
          signature : [content : Envelope, signer : Peers]]

Init ==
    /\ last_nonce = [p \in Peers |-> 0]
    /\ registry = [p \in Peers |-> [q \in Peers |-> 0]]
    /\ sessions = [p \in Peers |-> [sid \in SessionIds |-> <<>>]]
    /\ network = {}
    /\ verified = [p \in Peers |-> <<>>]
    /\ delivered = [p \in Peers |-> [sid \in SessionIds |-> <<>>]]

\* Mutant: sequence numbers start at 0.
NewSessionFromZero(remote) == [remote |-> remote, next_local_seq |-> 0, last_remote_seq |-> 0]

NewSession(remote) == [remote |-> remote, next_local_seq |-> 1, last_remote_seq |-> 0]

Opened == {s \in Peers \X SessionIds \X (1..MaxSessions) : s[3] <= Len(sessions[s[1]][s[2]])}

\* SecureSession::new, whether or not there is one of this id.
OpenSession(p, sid, remote) ==
    /\ Cardinality(Opened) < MaxSessions
    /\ sessions' = [sessions EXCEPT ![p][sid] = Append(@, NewSession(remote))]
    /\ delivered' = [delivered EXCEPT ![p][sid] = Append(@, <<>>)]

\* ChallengeGenerator::next, and the challenge is sent.
IssueChallenge(a, b) ==
    /\ a # b
    /\ Cardinality({m \in network : m.type = "challenge"}) < MaxChallenges
    /\ last_nonce' = [last_nonce EXCEPT ![a] = @ + 1]
    /\ network' = network \cup
          {[type |-> "challenge",
            challenge |-> [from |-> a, to |-> b, nonce |-> last_nonce[a] + 1]]}
    /\ UNCHANGED <<registry, sessions, verified, delivered>>

\* respond(): signs the challenge it was given, also one for somebody else.
Response(c, responder) ==
    [type |-> "response", from |-> c.to, to |-> c.from, nonce |-> c.nonce,
     signature |-> Signed(c, responder)]

Respond(b, m) ==
    /\ m.type = "challenge"
    /\ network' = network \cup {Response(m.challenge, b)}
    /\ OpenSession(b, m.challenge, m.challenge.from)
    /\ UNCHANGED <<last_nonce, registry, verified>>

\* Mutant: the nonce last seen is accepted once more.
NewNonceOrLast(last, nonce) == nonce >= last

\* An older nonce or the same is a replay.
NewNonce(last, nonce) == nonce > last

\* Mutant: a number that differs from the last is taken.
NewSeqOrOlder(last, seq) == seq # last

\* An older sequence number or the same is a replay.
NewSeq(last, seq) == seq > last

VerifySignature(public, content, signature) == signature = Signed(content, public)

\* AuthRegistry::verify of an answer r to the challenge c this peer issued;
\* nonce is what r arrives with.
VerifyResponse(a, c, r, nonce) ==
    /\ c.from = a /\ [type |-> "challenge", challenge |-> c] \in network
    /\ r.type = "response"
    /\ r.to = c.from /\ r.from = c.to
    /\ NewNonce(registry[a][r.from], nonce)
    /\ VerifySignature(c.to, c, r.signature)
    /\ registry' = [registry EXCEPT ![a][r.from] = nonce]
    /\ verified' = [verified EXCEPT ![a] = Append(@, [challenge |-> c, nonce |-> nonce])]
    /\ OpenSession(a, c, c.to)
    /\ UNCHANGED <<last_nonce, network>>

\* SecureSession::send.
Send(p, sid, i) ==
    LET session == sessions[p][sid][i]
        e == [session_id |-> sid, seq |-> session.next_local_seq, from |-> p, payload |-> i]
    IN  /\ session.next_local_seq <= MaxSeq
        /\ network' = network \cup
               {[type |-> "envelope", envelope |-> e, signature |-> Signed(e, p)]}
        /\ sessions' = [sessions EXCEPT ![p][sid][i].next_local_seq = @ + 1]
        /\ UNCHANGED <<last_nonce, registry, verified, delivered>>

\* SecureSession::receive.
Receive(p, sid, i, m) ==
    LET session == sessions[p][sid][i]
    IN  /\ m.type = "envelope" /\ m.envelope.session_id = sid
        /\ NewSeq(session.last_remote_seq, m.envelope.seq)
        /\ VerifySignature(session.remote, m.envelope, m.signature)
        /\ sessions' = [sessions EXCEPT ![p][sid][i].last_remote_seq = m.envelope.seq]
        /\ delivered' = [delivered EXCEPT ![p][sid][i] = Append(@, m.envelope)]
        /\ UNCHANGED <<last_nonce, registry, network, verified>>

Next ==
    \/ \E a, b \in Peers : IssueChallenge(a, b)
    \/ \E b \in Peers, m \in network : Respond(b, m)
    \/ \E a \in Peers, c \in SessionIds, r \in network, nonce \in Nonces :
           VerifyResponse(a, c, r, nonce)
    \/ \E p \in Peers, sid \in SessionIds : \E i \in 1..Len(sessions[p][sid]) :
           Send(p, sid, i) \/ \E m \in network : Receive(p, sid, i, m)

Spec == Init /\ [][Next]_vars
----------------------------------------------------------------------------
\* Type invariant.
TypeOK ==
    /\ last_nonce \in [Peers -> 0..MaxChallenges]
    /\ registry \in [Peers -> [Peers -> 0..MaxChallenges]]
    /\ sessions \in [Peers -> [SessionIds -> Seq(SecureSession)]]
    /\ network \subseteq Message
    /\ verified \in [Peers -> Seq([challenge : Challenge, nonce : Nonces])]
    /\ delivered \in [Peers -> [SessionIds -> Seq(Seq(Envelope))]]

\* A verified challenge was answered by the peer it was for, which has opened
\* a session of its id with the challenger; and the nonces accepted from a
\* peer strictly increase (auth.rs, 2, "strikt monoton").  An answer is so
\* verified once, unless its nonce is raised on the way: verify (123-134)
\* neither has it signed nor compares it with the challenge's.
HandshakesAreMutual ==
    \A a \in Peers : \A i \in 1..Len(verified[a]) :
        LET c == verified[a][i].challenge
        IN  /\ \E k \in 1..Len(sessions[c.to][c]) : sessions[c.to][c][k].remote = a
            /\ \A j \in 1..i - 1 : verified[a][j].challenge.to = c.to =>
                   verified[a][j].nonce < verified[a][i].nonce

\* A SecureSession hands out only what its remote sent in a session of the
\* same id, each envelope once, and those of one sending session in the
\* order they were sent, whatever the transport loses, repeats, reorders or
\* turns back (SecureSession::receive).  A second SecureSession of the id,
\* opened when the challenge is repeated (respond, 76-85), is given the same
\* envelopes once more, and envelopes of two sending sessions may mix.
DeliveredInOrder ==
    \A p \in Peers, sid \in SessionIds : \A k \in 1..Len(sessions[p][sid]) :
        LET got == delivered[p][sid][k]
            r   == sessions[p][sid][k].remote
        IN  /\ \A i \in 1..Len(got) :
                  /\ got[i].from = r /\ got[i].payload \in 1..Len(sessions[r][sid])
                  /\ got[i].seq < sessions[r][sid][got[i].payload].next_local_seq
            /\ \A i, j \in 1..Len(got) : i < j => got[i].seq < got[j].seq
=============================================================================
