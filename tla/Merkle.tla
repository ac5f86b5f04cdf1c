------------------------------- MODULE Merkle -------------------------------
(***************************************************************************)
(* The Merkle tree over a store's entries (kai-os/state/src/merkle.rs):    *)
(* root, inclusion proofs and their verification, on a store that          *)
(* transactions change.                                                    *)
(*                                                                         *)
(* A string is a sequence of tokens: characters, the separator Bar, and    *)
(* the 64 hex digits of a hash, which are one token.  SHA-256 is           *)
(* injective: the hash of a string holds the whole string.  Leaves         *)
(* ("key|value") and inner nodes ("left|right") are hashed alike, and keys *)
(* and values are any strings, as in the code: they may hold the separator *)
(* and they may hold hashes.                                               *)
(***************************************************************************)
EXTENDS StateStore

CONSTANT KeyOrder     \* the keys in the order BTreeMap iterates them

Char(c) == [kind |-> "char", char |-> c]
Bar == [kind |-> "bar"]

\* What keys and values are written with.
Tokens == UNION {{s[i] : i \in DOMAIN s} : s \in Keys \cup Values}

ASSUME TextAssumption == Keys \cup Values \subseteq Seq(Tokens)

ASSUME KeyOrderAssumption ==
    /\ KeyOrder \in Seq(Keys)
    /\ \A k \in Keys : \E i \in 1..Len(KeyOrder) : KeyOrder[i] = k
    /\ \A i, j \in 1..Len(KeyOrder) : KeyOrder[i] = KeyOrder[j] => i = j

VARIABLE entries      \* the store

\* sha_hex
Hashed(string) == <<[kind |-> "hash", of |-> string]>>

\* EMPTY_ROOT, the hash of no bytes
EmptyRoot == Hashed(<<>>)

\* Two parts, written one after the other with a Bar between.
Joined(left, right) == left \o <<Bar>> \o right

Sha(left, right) == Hashed(Joined(left, right))

LeafHash(key, value) == Sha(key, value)

\* BTreeMap::keys
SortedKeys(store) ==
    LET upTo[i \in 0..Len(KeyOrder)] ==
            IF i = 0 THEN <<>>
            ELSE IF store[KeyOrder[i]] = Absent THEN upTo[i - 1]
            ELSE Append(upTo[i - 1], KeyOrder[i])
    IN  upTo[Len(KeyOrder)]

Leaves(store) ==
    LET keys == SortedKeys(store)
    IN  [p \in 1..Len(keys) |-> LeafHash(keys[p], store[keys[p]])]

\* Mutant: an odd last node is dropped.
ParentsOfPairs(level) ==
    [p \in 1..(IF Len(level) = 1 THEN 1 ELSE Len(level) \div 2) |->
        Sha(level[2 * p - 1],
            IF 2 * p <= Len(level) THEN level[2 * p] ELSE level[2 * p - 1])]

\* One round of levels: pairs are hashed, an odd last node with itself.
Parents(level) ==
    [p \in 1..((Len(level) + 1) \div 2) |->
        Sha(level[2 * p - 1],
            IF 2 * p <= Len(level) THEN level[2 * p] ELSE level[2 * p - 1])]

\* The levels above the leaves, and those the loop would go on with.
Rounds(leaves) ==
    LET level[h \in 0..Len(leaves)] == IF h = 0 THEN leaves ELSE Parents(level[h - 1])
    IN  level

\* The loop ends at the first level of one node, or of none.
Height(leaves) ==
    LET level == Rounds(leaves)
    IN  CHOOSE h \in 0..Len(leaves) :
            Len(level[h]) <= 1 /\ \A g \in 0..h - 1 : Len(level[g]) > 1

MerkleRoot(store) ==
    LET leaves == Leaves(store)
    IN  IF leaves = <<>> THEN EmptyRoot ELSE Rounds(leaves)[Height(leaves)][1]

\* The place of the key's node in each level; it counts from 0, as in the
\* code.
Path(store, key) ==
    LET keys == SortedKeys(store)
        idx == CHOOSE p \in DOMAIN keys : keys[p] = key
        i[h \in 0..Len(keys)] == IF h = 0 THEN idx - 1 ELSE i[h - 1] \div 2
    IN  i

\* Mutant: every sibling is said to be on the right.
SiblingOnTheRight(level, i) ==
    [hash |-> IF i % 2 = 1 THEN level[i]
              ELSE IF i + 1 < Len(level) THEN level[i + 2] ELSE level[i + 1],
     right |-> TRUE]

Sibling(level, i) ==
    IF i % 2 = 0
    THEN [hash |-> IF i + 1 < Len(level) THEN level[i + 2] ELSE level[i + 1],
          right |-> TRUE]
    ELSE [hash |-> level[i], right |-> FALSE]

\* prove, for a key that is present: the sibling at every level below the
\* root.
Prove(store, key) ==
    LET leaves == Leaves(store)
        level == Rounds(leaves)
        i == Path(store, key)
    IN  [h \in 1..Height(leaves) |-> Sibling(level[h - 1], i[h - 1])]

VerifyProof(leaf, siblings, root) ==
    LET cur[n \in 0..Len(siblings)] ==
            IF n = 0 THEN leaf
            ELSE IF siblings[n].right THEN Sha(cur[n - 1], siblings[n].hash)
            ELSE Sha(siblings[n].hash, cur[n - 1])
    IN  cur[Len(siblings)] = root
----------------------------------------------------------------------------
MerkleInit == entries = EmptyStore

ApplyTx == \E tx \in Tx : entries' = Apply(entries, tx)

MerkleSpec == MerkleInit /\ [][ApplyTx]_entries
----------------------------------------------------------------------------
Present == {k \in Keys : entries[k] # Absent}

HasBar(string) == \E i \in DOMAIN string : string[i] = Bar

\* prove and verify_proof fit together at every tree shape: the proof of a
\* present key verifies against the root with its own leaf, and with no leaf
\* of another text.  Where the keys hold no separator that means: for no
\* other value of the key and for no other key.
ProofsAreExact ==
    \A k \in Present, j \in Keys, v \in Values :
        LET accepted ==
                VerifyProof(LeafHash(j, v), Prove(entries, k), MerkleRoot(entries))
        IN  /\ accepted <=> Joined(j, v) = Joined(k, entries[k])
            /\ ~HasBar(j) /\ ~HasBar(k) => (accepted <=> j = k /\ v = entries[k])

IsHash(string) == Len(string) = 1 /\ string[1].kind = "hash"

\* No key holds a separator, and no entry reads "hash|hash", as an inner
\* node does.
Plain(store) ==
    \A k \in Keys : store[k] # Absent =>
        ~HasBar(k) /\ ~(IsHash(k) /\ IsHash(store[k]))

RootOf == [s \in Store |-> MerkleRoot(s)]
PlainStores == {s \in Store : Plain(s)}

\* "fremder Tx-Log -> anderer Root" (kai-os/README.md:191): among plain stores
\* the root determines the entries.  It does not among all stores: leaf_hash
\* (merkle.rs, 11) writes leaves as levels (33) writes inner nodes, so that
\* {x: 1, y: 2} has the root of {sha(x|1): sha(y|2)}, and "a|" with the value
\* "" has the leaf of "a" with the value "|".  The rest of the project
\* compares stores where the code compares roots, and is about plain stores.
RootDeterminesEntries ==
    Plain(entries) =>
        \A s \in PlainStores : s # entries => RootOf[s] # MerkleRoot(entries)
=============================================================================
