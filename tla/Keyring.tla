------------------------------ MODULE Keyring ------------------------------
(***************************************************************************)
(* The keyring (kai-os/keyring/src/keyring.rs).  A seed stands for its     *)
(* pair of keys, Ed25519 is ideal: a signature verifies under the public   *)
(* key of its signer and for what was signed, and for nothing else.  Calls *)
(* that return an error change nothing and have no action.                 *)
(***************************************************************************)
CONSTANTS KeyIds, Seeds,
          NoKey          \* no entry of this id

KeyKind == {"NodeIdentity", "AgentSigning"}
KeyEntry == [signing : Seeds, kind : KeyKind]

ASSUME KeyringAssumption == NoKey \notin KeyEntry

VARIABLE keys            \* Keyring.keys

KeyringInit == keys = [id \in KeyIds |-> NoKey]

Known(id) == keys[id] # NoKey

ImportSeed(id, kind, seed) ==
    /\ ~Known(id)
    /\ keys' = [keys EXCEPT ![id] = [signing |-> seed, kind |-> kind]]

Revoke(id) ==
    /\ Known(id)
    /\ keys' = [keys EXCEPT ![id] = NoKey]

\* The new secret takes the place of the old one, of the same kind.
Rotate(id, seed) ==
    /\ Known(id)
    /\ keys' = [keys EXCEPT ![id].signing = seed]

\* Of an id that is known.
PublicKey(id) == keys[id].signing
Sign(id, msg) == [signer |-> keys[id].signing, msg |-> msg]

VerifyMsg(public, msg, signature) == signature = [signer |-> public, msg |-> msg]

KeyringNext ==
    \E id \in KeyIds :
        \/ \E seed \in Seeds : Rotate(id, seed) \/ \E kind \in KeyKind : ImportSeed(id, kind, seed)
        \/ Revoke(id)

KeyringTypeOK ==
    \A id \in KeyIds : Known(id) => keys[id] \in KeyEntry
=============================================================================
