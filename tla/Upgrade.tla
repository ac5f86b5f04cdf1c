------------------------------ MODULE Upgrade ------------------------------
(***************************************************************************)
(* Version negotiation (kai-os/network/src/upgrade.rs).  The two ends of a *)
(* connection each send a Hello with the versions they support and compute *)
(* the version they speak from both; envelopes carry that version and are  *)
(* decoded only within the receiver's own range.  Ends are upgraded one at *)
(* a time, also back, and a Hello from the wire need not make sense.       *)
(***************************************************************************)
EXTENDS Naturals

CONSTANTS MaxVersion,    \* bound on the version numbers, which are u32
          VerifiedRoots  \* values of last_verified_root

ASSUME UpgradeAssumption == MaxVersion \in Nat /\ MaxVersion >= 2

ProtocolSupport == [current : 0..MaxVersion, min : 0..MaxVersion]
Hello == [support : ProtocolSupport, last_verified_root : VerifiedRoots]
Ends == {"initiator", "responder"}

VARIABLE hello           \* the Hello of each end

\* ProtocolSupport::ours
Ours == [current |-> 2, min |-> 1]

UpgradeInit == hello \in [Ends -> [support : {Ours}, last_verified_root : VerifiedRoots]]

\* An end comes back with another build, and says Hello again.
Deploy(end, h) == hello' = [hello EXCEPT ![end] = h]

UpgradeNext == \E end \in Ends, h \in Hello : Deploy(end, h)

UpgradeSpec == UpgradeInit /\ [][UpgradeNext]_hello

Validate(support) == support.min <= support.current

Lower(a, b) == IF a <= b THEN a ELSE b

\* Mutant: only our own minimum counts.
RequiredOurs(ours, theirs) == ours.min

Required(ours, theirs) == IF ours.min >= theirs.min THEN ours.min ELSE theirs.min

Negotiate(ours, theirs) ==
    LET shared == Lower(ours.support.current, theirs.support.current)
    IN  IF ~Validate(ours.support) \/ ~Validate(theirs.support)
        THEN [result |-> "MalformedSupport"]
        ELSE IF shared < Required(ours.support, theirs.support)
        THEN [result |-> "Incompatible", resync_root_hint |-> theirs.last_verified_root]
        ELSE [result |-> "Negotiated", version |-> shared]

\* VersionedEnvelope::decode_checked: the payload is handed out.
DecodeChecked(version, support) ==
    Validate(support) /\ version <= support.current /\ version >= support.min
----------------------------------------------------------------------------
\* Type invariant.
UpgradeTypeOK == hello \in [Ends -> Hello]

\* "die gemeinsame Version ist min(current_a, current_b) und muss >= max(min_a,
\* min_b) sein" (upgrade.rs, 89), which each end computes on its own: both
\* come to the same result, an agreed version is the highest of those both
\* ends decode, and a connection is refused only when there is none; then
\* each end holds the root of the other to resync to.
NegotiationAgrees ==
    LET a == hello["initiator"]
        b == hello["responder"]
        common == {v \in 0..MaxVersion :
                      DecodeChecked(v, a.support) /\ DecodeChecked(v, b.support)}
    IN  /\ Negotiate(a, b).result = Negotiate(b, a).result
        /\ Negotiate(a, b).result = "Negotiated" =>
               /\ Negotiate(a, b) = Negotiate(b, a)
               /\ Negotiate(a, b).version \in common
               /\ \A v \in common : v <= Negotiate(a, b).version
        /\ Negotiate(a, b).result # "Negotiated" => common = {}
        /\ Negotiate(a, b).result = "Incompatible" =>
               /\ Negotiate(a, b).resync_root_hint = b.last_verified_root
               /\ Negotiate(b, a).resync_root_hint = a.last_verified_root
=============================================================================
