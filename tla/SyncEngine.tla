----------------------------- MODULE SyncEngine -----------------------------
(***************************************************************************)
(* Block application by a set of nodes, each with a SyncEngine of its own  *)
(* (kai-os/state/src/sync.rs), and the start of an engine from another     *)
(* node's verified snapshot (kai-os/state/src/snapshot.rs).                *)
(*                                                                         *)
(* Blocks reach an engine in any order, any number of times or not at all: *)
(* published is the set of blocks that exist, and every call picks one.    *)
(* A block is published by a node on top of its own tip, or arises with an *)
(* arbitrary height, parent or root.                                       *)
(*                                                                         *)
(* SHA-256 is injective: the hash of a block is the list of everything it  *)
(* commits to, [height, txs, root] for each block of the chain up to it.   *)
(***************************************************************************)
EXTENDS StateStore, FiniteSets

CONSTANTS Nodes,
          TxLists,      \* the transaction lists a block may carry
          MaxHeight,    \* bound on the height of blocks
          MaxBlocks     \* bound on the number of blocks published

ASSUME SyncAssumption ==
    TxLists \subseteq Seq(Tx) /\ MaxHeight \in Nat /\ MaxBlocks \in Nat

VARIABLES
    tipHeight, tipHash, applied, state,   \* the fields of each engine
    published,    \* the blocks that exist
    answer        \* the last apply_block call: node, block and result

engines == <<tipHeight, tipHash, applied, state>>
vars == <<engines, published, answer>>

GenesisPrev == <<>>

Roots == {StateRoot(s) : s \in Store}
Link == [height : Nat, txs : TxLists, root : Roots]
BlockHash == Seq(Link)
Block == [height : Nat, prev : BlockHash, txs : TxLists, root : Roots]

\* Block::block_hash
Hash(block) ==
    Append(block.prev,
           [height |-> block.height, txs |-> block.txs, root |-> block.root])

Init ==
    /\ tipHeight = [n \in Nodes |-> 0]
    /\ tipHash = [n \in Nodes |-> GenesisPrev]
    /\ applied = [n \in Nodes |-> {}]
    /\ state = [n \in Nodes |-> EmptyStore]
    /\ published = {}
    /\ answer = <<>>
----------------------------------------------------------------------------
(* Blocks come into being.                                                 *)

\* Mutant: the height is counted down.
ProposeBelow(n) ==
    \E txs \in TxLists :
        /\ Cardinality(published) < MaxBlocks
        /\ tipHeight[n] < MaxHeight
        /\ published' = published \cup
              {[height |-> tipHeight[n] - 1, prev |-> tipHash[n], txs |-> txs,
                root |-> StateRoot(ApplyAll(state[n], txs))]}
        /\ UNCHANGED <<engines, answer>>

\* A node builds a block on its tip, with the root it computes.
Propose(n) ==
    \E txs \in TxLists :
        /\ Cardinality(published) < MaxBlocks
        /\ tipHeight[n] < MaxHeight
        /\ published' = published \cup
              {[height |-> tipHeight[n] + 1, prev |-> tipHash[n], txs |-> txs,
                root |-> StateRoot(ApplyAll(state[n], txs))]}
        /\ UNCHANGED <<engines, answer>>

\* A block no correct engine would build: its parent is any block there is,
\* its height and root are whatever they are.
Misbuild ==
    \E h \in 0..MaxHeight, txs \in TxLists, root \in Roots,
       prev \in {GenesisPrev} \cup {Hash(b) : b \in published} :
        /\ Cardinality(published) < MaxBlocks
        /\ published' = published \cup
              {[height |-> h, prev |-> prev, txs |-> txs, root |-> root]}
        /\ UNCHANGED <<engines, answer>>
----------------------------------------------------------------------------
(* SyncEngine::apply_block.                                                *)

\* Mutant: only the tip is looked up among the applied blocks.
KnownAtTip(n, h) ==
    {a.hash : a \in {x \in applied[n] : x.height = h /\ h = tipHeight[n]}}

KnownAt(n, h) == {a.hash : a \in {x \in applied[n] : x.height = h}}

\* Mutant: the root a block claims is not recomputed.
VerdictWithoutRoot(n, block) ==
    CASE KnownAt(n, block.height) # {}
             -> IF Hash(block) \in KnownAt(n, block.height) THEN "Duplicate" ELSE "Fork"
      [] KnownAt(n, block.height) = {} /\ block.height # tipHeight[n] + 1 -> "HeightGap"
      [] OTHER -> IF block.prev # tipHash[n] THEN "PrevMismatch" ELSE "Ok"

\* Mutant: the height is not compared with the tip.
VerdictWithoutHeight(n, block) ==
    CASE KnownAt(n, block.height) # {}
             -> IF Hash(block) \in KnownAt(n, block.height) THEN "Duplicate" ELSE "Fork"
      [] KnownAt(n, block.height) = {} /\ block.prev # tipHash[n] -> "PrevMismatch"
      [] OTHER -> IF StateRoot(ApplyAll(state[n], block.txs)) = block.root
                  THEN "Ok" ELSE "RootMismatch"

\* The checks, in the order the code makes them.
Verdict(n, block) ==
    CASE KnownAt(n, block.height) # {} /\ Hash(block) \notin KnownAt(n, block.height)
             -> "Fork"
      [] KnownAt(n, block.height) # {} /\ Hash(block) \in KnownAt(n, block.height)
             -> "Duplicate"
      [] KnownAt(n, block.height) = {} /\ block.height # tipHeight[n] + 1
             -> "HeightGap"
      [] KnownAt(n, block.height) = {} /\ block.height = tipHeight[n] + 1
           /\ block.prev # tipHash[n]
             -> "PrevMismatch"
      [] OTHER
             -> IF StateRoot(ApplyAll(state[n], block.txs)) = block.root
                THEN "Ok" ELSE "RootMismatch"

Accept(n, block) ==
    /\ Verdict(n, block) = "Ok"
    /\ state' = [state EXCEPT ![n] = ApplyAll(@, block.txs)]
    /\ tipHeight' = [tipHeight EXCEPT ![n] = block.height]
    /\ tipHash' = [tipHash EXCEPT ![n] = Hash(block)]
    /\ applied' = [applied EXCEPT ![n] =
                      @ \cup {[height |-> block.height, hash |-> Hash(block)]}]

ApplyBlock(n) ==
    \E block \in published :
        /\ \/ Accept(n, block)
           \/ Verdict(n, block) # "Ok" /\ UNCHANGED engines
        /\ answer' = <<n, block, Verdict(n, block)>>
        /\ UNCHANGED published
----------------------------------------------------------------------------
(* Snapshot::from_state on node m, verify_against its tip on node n, then  *)
(* SyncEngine::new(snapshot.to_state()): the new engine has the state but  *)
(* starts at height 0.                                                     *)

SnapshotOf(m) ==
    [height |-> tipHeight[m], root |-> StateRoot(state[m]), entries |-> state[m]]

VerifyAgainst(snapshot, height, root) ==
    /\ snapshot.height = height
    /\ StateRoot(snapshot.entries) = snapshot.root
    /\ StateRoot(snapshot.entries) = root

StartFromSnapshot(n, m) ==
    /\ VerifyAgainst(SnapshotOf(m), tipHeight[m], StateRoot(state[m]))
    /\ state' = [state EXCEPT ![n] = SnapshotOf(m).entries]
    /\ tipHeight' = [tipHeight EXCEPT ![n] = 0]
    /\ tipHash' = [tipHash EXCEPT ![n] = GenesisPrev]
    /\ applied' = [applied EXCEPT ![n] = {}]
    /\ answer' = <<>>
    /\ UNCHANGED published

Next ==
    \/ Misbuild
    \/ \E n \in Nodes :
          Propose(n) \/ ApplyBlock(n) \/ \E m \in Nodes : StartFromSnapshot(n, m)

Spec == Init /\ [][Next]_vars
----------------------------------------------------------------------------
(* Properties.                                                             *)

Verdicts == {"Fork", "Duplicate", "HeightGap", "PrevMismatch", "RootMismatch", "Ok"}
Applied == [height : Nat, hash : BlockHash]

\* Every variable holds a value of its kind.
TypeOK ==
    /\ tipHeight \in [Nodes -> Nat]
    /\ tipHash \in [Nodes -> BlockHash]
    /\ applied \in [Nodes -> SUBSET Applied]
    /\ state \in [Nodes -> Store]
    /\ published \subseteq Block
    /\ answer \in {<<>>} \cup (Nodes \X Block \X Verdicts)

\* "gleiche Blöcke -> identischer Root" (kai-os/README.md, 112), whatever
\* state an engine started from: engines with the same tip hold the same
\* state.
Agreement ==
    \A m, n \in Nodes :
        tipHeight[m] > 0 /\ tipHash[m] = tipHash[n] => state[m] = state[n]

\* "Höhe == lokale Höhe + 1 (keine Lücken, keine Sprünge)" (sync.rs, 3): the
\* blocks an engine has applied are the whole chain below its tip, one for
\* each height, each the parent of the next.
AppliedIsChain ==
    \A n \in Nodes :
        /\ Len(tipHash[n]) = tipHeight[n]
        /\ \A h \in 1..tipHeight[n] : tipHash[n][h].height = h
        /\ applied[n] = {[height |-> h, hash |-> SubSeq(tipHash[n], 1, h)] :
                             h \in 1..tipHeight[n]}

\* Two engines that hold the same block at some height hold the same blocks
\* at every height below it: a fork, once there, is never papered over.
CommonPrefix ==
    \A m, n \in Nodes : \A a \in applied[m] \cap applied[n] :
        {x \in applied[m] : x.height <= a.height}
            = {x \in applied[n] : x.height <= a.height}

\* The error apply_block returns says where the block stands to the chain:
\* a Duplicate is a block of the chain, a Fork is not and competes with one
\* that is, a HeightGap lies ahead of the tip (or has no height a block can
\* have) and never hides an old or competing block.
VerdictsAreRight ==
    answer # <<>> =>
        LET n == answer[1]
            block == answer[2]
            OnChain == \E h \in 1..tipHeight[n] :
                           Hash(block) = SubSeq(tipHash[n], 1, h)
        IN  /\ answer[3] \in {"Ok", "Duplicate"} <=> OnChain
            /\ answer[3] = "Fork" => block.height \in 1..tipHeight[n]
            /\ answer[3] = "HeightGap" => block.height \notin 1..(tipHeight[n] + 1)
=============================================================================
