-------------------------- MODULE SyncEngineProofs --------------------------
(***************************************************************************)
(* Agreement of SyncEngines, for every set of nodes, keys, values and      *)
(* transaction lists and any number of blocks, and the Merkle tree it      *)
(* rests on, for every number of entries.                                  *)
(*                                                                         *)
(* Of the engines: the inductive invariant adds to the type invariant that *)
(* an engine's applied blocks are the chain below its tip, and that the    *)
(* tip's root is the root of the state.                                    *)
(*                                                                         *)
(* Of the tree: a node shows the nodes it is hashed from, so that two      *)
(* trees with one root agree level by level from the top down, and the     *)
(* leaves show the entries.  A proof of inclusion climbs the same levels   *)
(* from a leaf to the root.                                                *)
(***************************************************************************)
EXTENDS SyncEngine, Merkle, StateStoreLemmas

RootInTip ==
    \A n \in Nodes :
        tipHeight[n] > 0 => tipHash[n][tipHeight[n]].root = StateRoot(state[n])

IInv == TypeOK /\ AppliedIsChain /\ RootInTip

\* apply_all turns a state into a state.
LEMMA ApplyAllType ==
    ASSUME NEW s \in Store, NEW txs \in TxLists
    PROVE  ApplyAll(s, txs) \in Store
<1>1. txs \in Seq(Tx)
  BY SyncAssumption
<1>2. \A op \in Tx : op.type \in {"Set", "Remove"} => op \in Tx
  OBVIOUS
<1> QED BY <1>1, <1>2, ApplyFromType DEF ApplyAll

\* A block's hash is its parent's hash and one more link.
LEMMA HashLink ==
    ASSUME NEW b \in Block
    PROVE  /\ Hash(b) \in BlockHash /\ Len(Hash(b)) = Len(b.prev) + 1
           /\ Len(b.prev) \in Nat
           /\ \A i \in 1..Len(b.prev) : Hash(b)[i] = b.prev[i]
           /\ Hash(b)[Len(b.prev) + 1].height = b.height
           /\ Hash(b)[Len(b.prev) + 1].root = b.root
           /\ \A i \in 1..Len(b.prev) :
                 SubSeq(Hash(b), 1, i) = SubSeq(b.prev, 1, i)
           /\ SubSeq(Hash(b), 1, Len(b.prev) + 1) = Hash(b)
<1> DEFINE l == [height |-> b.height, txs |-> b.txs, root |-> b.root]
<1>1. b.prev \in Seq(Link) /\ l \in Link
  BY DEF Block, BlockHash, Link
<1>2. l.height = b.height /\ l.root = b.root
  OBVIOUS
<1>3. Hash(b) = Append(b.prev, l)
  BY DEF Hash
<1> HIDE DEF l
<1>4. /\ Hash(b) \in Seq(Link) /\ Len(Hash(b)) = Len(b.prev) + 1
      /\ Len(b.prev) \in Nat
      /\ \A i \in 1..Len(b.prev) : Hash(b)[i] = b.prev[i]
      /\ Hash(b)[Len(b.prev) + 1] = l
  BY <1>1, <1>3
<1>5. ASSUME NEW i \in 1..Len(b.prev)
      PROVE  SubSeq(Hash(b), 1, i) = SubSeq(b.prev, 1, i)
  BY <1>1, <1>4
<1>6. SubSeq(Hash(b), 1, Len(b.prev) + 1) = Hash(b)
  BY <1>4
<1> QED BY <1>2, <1>4, <1>5, <1>6 DEF BlockHash

\* The invariant holds throughout.
LEMMA Invariance == Spec => []IInv
<1>1. Init => IInv
  <2> SUFFICES ASSUME Init PROVE IInv
    OBVIOUS
  <2>1. TypeOK
    BY DEF Init, TypeOK, GenesisPrev, BlockHash, EmptyStore, Store
  <2>2. AppliedIsChain
    BY DEF Init, AppliedIsChain, GenesisPrev
  <2>3. RootInTip
    BY DEF Init, RootInTip
  <2> QED BY <2>1, <2>2, <2>3 DEF IInv
<1>2. IInv /\ [Next]_vars => IInv'
  <2> SUFFICES ASSUME IInv, [Next]_vars PROVE IInv'
    OBVIOUS
  <2> USE DEF engines
  <2>u. ASSUME UNCHANGED engines, TypeOK' PROVE IInv'
    BY <2>u DEF IInv, AppliedIsChain, RootInTip
  <2>1. CASE Misbuild
    <3>1. PICK h \in 0..MaxHeight, txs \in TxLists, root \in Roots,
               prev \in {GenesisPrev} \cup {Hash(b) : b \in published} :
            /\ published' = published \cup
                 {[height |-> h, prev |-> prev, txs |-> txs, root |-> root]}
            /\ UNCHANGED <<engines, answer>>
      BY <2>1 DEF Misbuild
    <3>2. prev \in BlockHash
      <4>1. \A b \in published : Hash(b) \in BlockHash
        BY HashLink DEF IInv, TypeOK
      <4>2. GenesisPrev \in BlockHash
        BY DEF GenesisPrev, BlockHash
      <4> QED BY <4>1, <4>2
    <3>3. h \in Nat
      BY SyncAssumption
    <3>4. TypeOK'
      BY <3>1, <3>2, <3>3 DEF IInv, TypeOK, Block
    <3> QED BY <2>u, <3>1, <3>4
  <2>2. ASSUME NEW n \in Nodes, Propose(n) PROVE IInv'
    <3>1. PICK txs \in TxLists :
            /\ published' = published \cup
                 {[height |-> tipHeight[n] + 1, prev |-> tipHash[n], txs |-> txs,
                   root |-> StateRoot(ApplyAll(state[n], txs))]}
            /\ UNCHANGED <<engines, answer>>
      BY <2>2 DEF Propose
    <3>2. StateRoot(ApplyAll(state[n], txs)) \in Roots
      BY ApplyAllType DEF IInv, TypeOK, Roots
    <3>3. TypeOK'
      BY <3>1, <3>2 DEF IInv, TypeOK, Block
    <3> QED BY <2>u, <3>1, <3>3
  <2>3. ASSUME NEW n \in Nodes, ApplyBlock(n) PROVE IInv'
    <3>1. PICK b \in published :
            /\ \/ Accept(n, b)
               \/ Verdict(n, b) # "Ok" /\ UNCHANGED engines
            /\ answer' = <<n, b, Verdict(n, b)>>
            /\ UNCHANGED published
      BY <2>3 DEF ApplyBlock
    <3>2. Verdict(n, b) \in Verdicts
      BY DEF Verdict, Verdicts
    <3>3. b \in Block
      BY DEF IInv, TypeOK
    <3>4. answer' \in {<<>>} \cup (Nodes \X Block \X Verdicts)
      BY <3>1, <3>2, <3>3
    <3>5. CASE UNCHANGED engines
      BY <2>u, <3>1, <3>4, <3>5 DEF IInv, TypeOK
    <3>6. CASE Accept(n, b)
      <4> DEFINE h == tipHeight[n] + 1
      <4>1. /\ b.height = h /\ b.prev = tipHash[n]
            /\ StateRoot(ApplyAll(state[n], b.txs)) = b.root
        BY <3>6 DEF Accept, Verdict
      <4>2. b.txs \in TxLists /\ ApplyAll(state[n], b.txs) \in Store
        BY <3>3, ApplyAllType DEF Block, IInv, TypeOK
      <4>3. /\ tipHeight[n] \in Nat /\ Len(tipHash[n]) = tipHeight[n]
            /\ \A i \in 1..tipHeight[n] : tipHash[n][i].height = i
        BY DEF IInv, TypeOK, AppliedIsChain
      <4>4. TypeOK'
        <5>1. Hash(b) \in BlockHash
          BY <3>3, HashLink
        <5>2. [height |-> b.height, hash |-> Hash(b)] \in Applied
          BY <3>3, <5>1 DEF Applied, Block
        <5> QED BY <3>1, <3>3, <3>4, <3>6, <4>2, <5>1, <5>2 DEF Accept, IInv, TypeOK, Block
      <4>5. /\ tipHeight'[n] = h /\ tipHash'[n] = Hash(b)
            /\ state'[n] = ApplyAll(state[n], b.txs)
            /\ applied'[n] = applied[n] \cup {[height |-> h, hash |-> Hash(b)]}
        BY <3>6, <4>1 DEF Accept, IInv, TypeOK
      <4>6. ASSUME NEW m \in Nodes, m # n
            PROVE  /\ tipHeight'[m] = tipHeight[m] /\ tipHash'[m] = tipHash[m]
                   /\ state'[m] = state[m] /\ applied'[m] = applied[m]
        BY <3>6, <4>6 DEF Accept, IInv, TypeOK
      <4>7. /\ Len(Hash(b)) = h /\ Hash(b)[h].height = h /\ Hash(b)[h].root = b.root
            /\ \A i \in 1..tipHeight[n] : Hash(b)[i] = tipHash[n][i]
        BY <3>3, <4>1, <4>3, HashLink
      <4>7s. /\ \A i \in 1..tipHeight[n] : SubSeq(Hash(b), 1, i) = SubSeq(tipHash[n], 1, i)
             /\ SubSeq(Hash(b), 1, h) = Hash(b)
        BY <3>3, <4>1, <4>3, HashLink
      <4>8. applied'[n] = {[height |-> i, hash |-> SubSeq(Hash(b), 1, i)] : i \in 1..h}
        <5>1. applied[n] = {[height |-> i, hash |-> SubSeq(tipHash[n], 1, i)] :
                               i \in 1..tipHeight[n]}
          BY DEF IInv, AppliedIsChain
        <5>2. applied[n] = {[height |-> i, hash |-> SubSeq(Hash(b), 1, i)] :
                               i \in 1..tipHeight[n]}
          BY <4>7s, <5>1
        <5>3. 1..h = (1..tipHeight[n]) \cup {h}
          BY <4>3
        <5> DEFINE Entry(i) == [height |-> i, hash |-> SubSeq(Hash(b), 1, i)]
        <5>4. applied'[n] = {Entry(i) : i \in 1..tipHeight[n]} \cup {Entry(h)}
          BY <4>5, <4>7s, <5>2
        <5> HIDE DEF h, Entry
        <5>5. applied'[n] = {Entry(i) : i \in 1..h}
          BY <5>3, <5>4
        <5> QED BY <5>5 DEF Entry
      <4>9. ASSUME NEW i \in 1..h PROVE Hash(b)[i].height = i
        <5>1. CASE i \in 1..tipHeight[n]
          BY <4>3, <4>7, <5>1
        <5>2. CASE i = h
          BY <4>7, <5>2
        <5> QED BY <4>3, <5>1, <5>2
      <4>10. AppliedIsChain'
        <5> SUFFICES ASSUME NEW m \in Nodes
                     PROVE  /\ Len(tipHash'[m]) = tipHeight'[m]
                            /\ \A i \in 1..tipHeight'[m] : tipHash'[m][i].height = i
                            /\ applied'[m] = {[height |-> i, hash |-> SubSeq(tipHash'[m], 1, i)] :
                                                 i \in 1..tipHeight'[m]}
          BY DEF AppliedIsChain
        <5>1. CASE m = n
          BY <4>5, <4>7, <4>8, <4>9, <5>1
        <5>2. CASE m # n
          BY <4>6, <5>2 DEF IInv, AppliedIsChain
        <5> QED BY <5>1, <5>2
      <4>11. RootInTip'
        BY <4>1, <4>5, <4>6, <4>7 DEF IInv, RootInTip
      <4> QED BY <4>4, <4>10, <4>11 DEF IInv
    <3> QED BY <3>1, <3>5, <3>6
  <2>4. ASSUME NEW n \in Nodes, NEW m \in Nodes, StartFromSnapshot(n, m) PROVE IInv'
    <3>1. TypeOK'
      BY <2>4 DEF StartFromSnapshot, SnapshotOf, IInv, TypeOK, GenesisPrev, BlockHash
    <3>2. AppliedIsChain'
      BY <2>4 DEF StartFromSnapshot, IInv, TypeOK, AppliedIsChain, GenesisPrev
    <3>3. RootInTip'
      BY <2>4 DEF StartFromSnapshot, IInv, TypeOK, RootInTip
    <3> QED BY <3>1, <3>2, <3>3 DEF IInv
  <2>5. CASE UNCHANGED vars
    BY <2>5, <2>u DEF vars, IInv, TypeOK
  <2> QED BY <2>1, <2>2, <2>3, <2>4, <2>5 DEF Next
<1> QED BY <1>1, <1>2, PTL DEF Spec

\* Every field of every engine keeps its kind.
THEOREM TypeCorrect == Spec => []TypeOK
<1>1. IInv => TypeOK
  BY DEF IInv
<1> QED BY <1>1, Invariance, PTL

\* Engines with the same tip hold the same state, whatever state each was
\* started from and whatever blocks were offered to it (sync.rs, 133-177).
THEOREM EnginesAgree == Spec => []Agreement
<1>1. IInv => Agreement
  <2> SUFFICES ASSUME IInv, NEW m \in Nodes, NEW n \in Nodes,
                      tipHeight[m] > 0, tipHash[m] = tipHash[n]
               PROVE  state[m] = state[n]
    BY DEF Agreement
  <2>1. tipHeight[m] = tipHeight[n]
    BY DEF IInv, AppliedIsChain
  <2>2. StateRoot(state[m]) = StateRoot(state[n])
    BY <2>1 DEF IInv, RootInTip
  <2> QED BY <2>2, RootInjective DEF IInv, TypeOK
<1> QED BY <1>1, Invariance, PTL

\* What an engine has applied is the whole chain below its tip (sync.rs,
\* 147-160).
THEOREM EnginesHoldChains == Spec => []AppliedIsChain
<1>1. IInv => AppliedIsChain
  BY DEF IInv
<1> QED BY <1>1, Invariance, PTL

\* Engines that share a block share everything below it (sync.rs, 134-160).
THEOREM EnginesShareHistory == Spec => []CommonPrefix
<1>1. IInv => CommonPrefix
  <2>1. ASSUME IInv, NEW m \in Nodes, NEW n \in Nodes,
               NEW a \in applied[m] \cap applied[n],
               NEW x \in applied[m], x.height <= a.height
        PROVE  x \in applied[n]
    <3> DEFINE p == tipHash[m]
               q == tipHash[n]
    <3>0. p \in Seq(Link) /\ q \in Seq(Link)
      BY <2>1 DEF IInv, TypeOK, BlockHash
    <3>1. PICK h \in 1..Len(p) : a = [height |-> h, hash |-> SubSeq(p, 1, h)]
      BY <2>1 DEF IInv, AppliedIsChain
    <3>2. PICK g \in 1..Len(q) : a = [height |-> g, hash |-> SubSeq(q, 1, g)]
      BY <2>1 DEF IInv, AppliedIsChain
    <3>3. PICK i \in 1..Len(p) : x = [height |-> i, hash |-> SubSeq(p, 1, i)]
      BY <2>1 DEF IInv, AppliedIsChain
    <3>4. g = h /\ SubSeq(p, 1, h) = SubSeq(q, 1, h)
      BY <3>1, <3>2
    <3>5. i <= h
      BY <2>1, <3>1, <3>3
    <3> HIDE DEF p, q
    <3>6. ASSUME NEW j \in 1..h PROVE p[j] = q[j]
      <4>1. SubSeq(p, 1, h)[j] = p[j] /\ SubSeq(q, 1, h)[j] = q[j]
        BY <3>0, <3>1, <3>2, <3>4
      <4> QED BY <3>4, <4>1
    <3>7. SubSeq(p, 1, i) = SubSeq(q, 1, i)
      BY <3>0, <3>2, <3>4, <3>5, <3>6
    <3>8. i \in 1..Len(q) /\ x = [height |-> i, hash |-> SubSeq(q, 1, i)]
      BY <3>0, <3>2, <3>3, <3>4, <3>5, <3>7
    <3> QED BY <2>1, <3>8 DEF q, IInv, AppliedIsChain
  <2> QED BY <2>1 DEF CommonPrefix
<1> QED BY <1>1, Invariance, PTL

\* An engine knows a block at each height up to its tip and at no other, and
\* a block it knows at its height is one of the chain (sync.rs, 134-146).
LEMMA KnownIsChain ==
    ASSUME IInv, NEW n \in Nodes, NEW b \in Block
    PROVE  /\ KnownAt(n, b.height) # {} <=> b.height \in 1..tipHeight[n]
           /\ Hash(b) \in KnownAt(n, b.height) <=>
                 \E h \in 1..tipHeight[n] : Hash(b) = SubSeq(tipHash[n], 1, h)
<1> DEFINE tip == tipHash[n]
<1>1. /\ tip \in Seq(Link) /\ Len(tip) = tipHeight[n] /\ tipHeight[n] \in Nat
      /\ \A h \in 1..tipHeight[n] : tip[h].height = h
      /\ applied[n] = {[height |-> h, hash |-> SubSeq(tip, 1, h)] : h \in 1..tipHeight[n]}
  BY DEF IInv, TypeOK, AppliedIsChain, BlockHash
<1> HIDE DEF tip
<1>i. ASSUME NEW g \in 1..tipHeight[n] PROVE SubSeq(tip, 1, g) \in KnownAt(n, g)
  <2>1. [height |-> g, hash |-> SubSeq(tip, 1, g)] \in applied[n]
    BY <1>1
  <2> QED BY <2>1 DEF KnownAt
<1>o. ASSUME NEW g, NEW y \in KnownAt(n, g)
      PROVE  g \in 1..tipHeight[n] /\ y = SubSeq(tip, 1, g)
  <2>1. PICK a \in applied[n] : a.height = g /\ a.hash = y
    BY DEF KnownAt
  <2>2. PICK h \in 1..tipHeight[n] : a = [height |-> h, hash |-> SubSeq(tip, 1, h)]
    BY <1>1
  <2> QED BY <2>1, <2>2
<1>2. KnownAt(n, b.height) # {} <=> b.height \in 1..tipHeight[n]
  BY <1>i, <1>o
<1>3. ASSUME Hash(b) \in KnownAt(n, b.height)
      PROVE  \E h \in 1..tipHeight[n] : Hash(b) = SubSeq(tip, 1, h)
  BY <1>o, <1>3
<1>4. ASSUME NEW h \in 1..tipHeight[n], Hash(b) = SubSeq(tip, 1, h)
      PROVE  Hash(b) \in KnownAt(n, b.height)
  <2>1. Len(SubSeq(tip, 1, h)) = h /\ SubSeq(tip, 1, h)[h] = tip[h]
    BY <1>1
  <2>2. h = Len(b.prev) + 1 /\ Hash(b)[h].height = b.height
    BY <1>4, <2>1, HashLink
  <2>3. b.height = h
    BY <1>1, <1>4, <2>1, <2>2
  <2> QED BY <1>i, <1>4, <2>3
<1> QED BY <1>2, <1>3, <1>4 DEF tip

\* What apply_block answers is right about the chain as the call leaves it:
\* Duplicate and Ok name blocks of the chain and no other answer does, a
\* Fork competes with a block of the chain, a HeightGap with none (sync.rs,
\* 133-177).
THEOREM AnswersAreRight == Spec => []VerdictsAreRight
<1> DEFINE OnChain(n, b) == \E h \in 1..tipHeight[n] : Hash(b) = SubSeq(tipHash[n], 1, h)
           Right(n, b, v) ==
               /\ v \in {"Ok", "Duplicate"} <=> OnChain(n, b)
               /\ v = "Fork" => b.height \in 1..tipHeight[n]
               /\ v = "HeightGap" => b.height \notin 1..(tipHeight[n] + 1)
<1>1. Init => VerdictsAreRight
  BY DEF Init, VerdictsAreRight
<1>2. IInv /\ IInv' /\ VerdictsAreRight /\ [Next]_vars => VerdictsAreRight'
  <2> SUFFICES ASSUME IInv, IInv', VerdictsAreRight, [Next]_vars PROVE VerdictsAreRight'
    OBVIOUS
  <2>1. CASE UNCHANGED <<engines, answer>>
    BY <2>1 DEF VerdictsAreRight, engines
  <2>2. ASSUME NEW n \in Nodes, NEW m \in Nodes, StartFromSnapshot(n, m)
        PROVE  VerdictsAreRight'
    BY <2>2 DEF StartFromSnapshot, VerdictsAreRight
  <2>3. ASSUME NEW n \in Nodes, ApplyBlock(n) PROVE VerdictsAreRight'
    <3>0. PICK b \in published :
            /\ Accept(n, b) \/ (Verdict(n, b) # "Ok" /\ UNCHANGED engines)
            /\ answer' = <<n, b, Verdict(n, b)>>
      BY <2>3 DEF ApplyBlock
    <3>1. PICK v : /\ v = Verdict(n, b) /\ answer' = <<n, b, v>>
                   /\ Accept(n, b) \/ (Verdict(n, b) # "Ok" /\ UNCHANGED engines)
      BY <3>0
    <3>2. b \in Block /\ tipHeight[n] \in Nat /\ b.height \in Nat
      BY DEF IInv, TypeOK, Block
    <3>3. Right(n, b, v)'
      <4>1. CASE Accept(n, b)
        <5>1. /\ Verdict(n, b) = "Ok" /\ b.height = tipHeight[n] + 1 /\ b.prev = tipHash[n]
          BY <4>1 DEF Accept, Verdict
        <5>2. tipHeight'[n] = tipHeight[n] + 1 /\ tipHash'[n] = Hash(b)
          BY <4>1, <5>1 DEF Accept, IInv, TypeOK
        <5>3. Len(b.prev) = tipHeight[n]
          BY <5>1 DEF IInv, AppliedIsChain
        <5>4. SubSeq(Hash(b), 1, tipHeight[n] + 1) = Hash(b)
          BY <3>2, <5>3, HashLink
        <5>5. tipHeight[n] + 1 \in 1..(tipHeight[n] + 1)
          BY <3>2
        <5>6. OnChain(n, b)'
          BY <5>2, <5>4, <5>5
        <5> QED BY <3>1, <5>1, <5>6
      <4>2. CASE Verdict(n, b) # "Ok" /\ UNCHANGED engines
        <5>1. /\ KnownAt(n, b.height) # {} <=> b.height \in 1..tipHeight[n]
              /\ Hash(b) \in KnownAt(n, b.height) <=> OnChain(n, b)
          BY <3>2, KnownIsChain
        <5>2. /\ Verdict(n, b) = "Duplicate" <=> Hash(b) \in KnownAt(n, b.height)
              /\ Verdict(n, b) = "Fork" => KnownAt(n, b.height) # {}
              /\ Verdict(n, b) = "HeightGap" =>
                    KnownAt(n, b.height) = {} /\ b.height # tipHeight[n] + 1
          BY <4>2 DEF Verdict
        <5> HIDE DEF OnChain
        <5>3. Right(n, b, v)
          BY <3>1, <3>2, <4>2, <5>1, <5>2
        <5> QED BY <4>2, <5>3 DEF OnChain, engines
      <4> QED BY <3>1, <4>1, <4>2
    <3> QED BY <3>1, <3>3 DEF VerdictsAreRight
  <2> QED BY <2>1, <2>2, <2>3 DEF Next, Misbuild, Propose, vars
<1> QED BY <1>1, <1>2, Invariance, PTL DEF Spec
----------------------------------------------------------------------------
(* The tree: strings, nodes and leaves.                                    *)

\* A node of the tree: one hash.
IsNode(x) == \E t : x = <<t>> /\ t.kind = "hash"

\* The string below a node.
Below(x) == x[1].of

\* A hash is a node, and holds the string it is of.
LEMMA HashedIsNode == ASSUME NEW s PROVE IsNode(Hashed(s)) /\ Below(Hashed(s)) = s
BY DEF IsNode, Hashed, Below

\* The string of an inner node: its children around a Bar.
LEMMA InnerString ==
    ASSUME NEW x, NEW y PROVE <<x>> \o <<Bar>> \o <<y>> = <<x, Bar, y>>
<1> DEFINE T == {x, Bar, y}
<1>1. <<x>> \in Seq(T) /\ <<y>> \in Seq(T) /\ <<Bar>> \in Seq(T) /\ <<x, Bar, y>> \in Seq(T)
  OBVIOUS
<1>2. Len(<<x>>) = 1 /\ Len(<<y>>) = 1 /\ Len(<<Bar>>) = 1 /\ Len(<<x, Bar, y>>) = 3
  OBVIOUS
<1>3. <<x>>[1] = x /\ <<y>>[1] = y /\ <<Bar>>[1] = Bar
      /\ <<x, Bar, y>>[1] = x /\ <<x, Bar, y>>[2] = Bar /\ <<x, Bar, y>>[3] = y
  OBVIOUS
<1> DEFINE p == <<x>>
           q == <<Bar>>
           r == <<y>>
           w == <<x, Bar, y>>
<1> HIDE DEF T, p, q, r, w
<1>4. p \o q \in Seq(T) /\ Len(p \o q) = 2 /\ (p \o q)[1] = x /\ (p \o q)[2] = Bar
  BY <1>1, <1>2, <1>3 DEF p, q
<1> DEFINE u == p \o q
<1> HIDE DEF u
<1>5. u \in Seq(T) /\ Len(u) = 2 /\ u[1] = x /\ u[2] = Bar
  BY <1>4 DEF u
<1>6. r \in Seq(T) /\ Len(r) = 1 /\ r[1] = y
  BY <1>1, <1>2, <1>3 DEF r
<1>7. u \o r \in Seq(T) /\ Len(u \o r) = 3
      /\ (u \o r)[1] = x /\ (u \o r)[2] = Bar /\ (u \o r)[3] = y
  <2>0. u \in Seq(T) /\ r \in Seq(T)
    BY <1>5, <1>6
  <2>1. PICK n \in Nat : n = Len(u)
    BY <2>0
  <2>2. /\ u \o r \in Seq(T) /\ Len(u \o r) = n + Len(r)
        /\ \A j \in 1..n : (u \o r)[j] = u[j]
        /\ \A j \in 1..Len(r) : (u \o r)[n + j] = r[j]
    BY <2>0, <2>1, Concatenation
  <2> DEFINE c == u \o r
  <2>3. /\ c \in Seq(T) /\ Len(c) = n + 1
        /\ \A j \in 1..n : c[j] = u[j]
        /\ \A j \in 1..1 : c[n + j] = r[j]
    BY <2>2, <1>6
  <2> HIDE DEF c
  <2>4. c[1] = u[1] /\ c[2] = u[2] /\ c[n + 1] = r[1] /\ n + 1 = 3
    BY <2>1, <2>3, <1>5
  <2>5. c \in Seq(T) /\ Len(c) = 3 /\ c[1] = x /\ c[2] = Bar /\ c[3] = y
    BY <2>3, <2>4, <1>5, <1>6
  <2> QED BY <2>5 DEF c
<1>8. w \in Seq(T) /\ Len(w) = 3 /\ w[1] = x /\ w[2] = Bar /\ w[3] = y
  BY <1>1, <1>2, <1>3 DEF w
<1> DEFINE z == u \o r
<1> HIDE DEF z
<1>9. z = w
  <2>1. \A j \in 1..Len(z) : z[j] = w[j]
    <3>1. Len(z) = 3 /\ z[1] = x /\ z[2] = Bar /\ z[3] = y
      BY <1>7 DEF z
    <3>2. \A j \in 1..3 : j = 1 \/ j = 2 \/ j = 3
      OBVIOUS
    <3> QED BY <3>1, <3>2, <1>8
  <2> QED BY <2>1, <1>7, <1>8, SameElements DEF z
<1> QED BY <1>9 DEF z, u, p, q, r, w

\* sha_hex on two nodes is a node, and shows both.
LEMMA ShaOfNodes ==
    ASSUME NEW l, NEW r, IsNode(l), IsNode(r)
    PROVE  /\ IsNode(Sha(l, r)) /\ Below(Sha(l, r)) = <<l[1], Bar, r[1]>>
           /\ l = <<l[1]>> /\ r = <<r[1]>> /\ l[1].kind = "hash" /\ r[1].kind = "hash"
<1>1. PICK x, y : l = <<x>> /\ r = <<y>> /\ x.kind = "hash" /\ y.kind = "hash"
  BY DEF IsNode
<1>2. l[1] = x /\ r[1] = y
  BY <1>1
<1>3. l \o <<Bar>> \o r = <<x, Bar, y>>
  BY <1>1, InnerString, Zenon
<1> QED BY <1>1, <1>2, <1>3, HashedIsNode DEF Sha, Joined

\* Hashes of two nodes each that are the same are of the same nodes.
LEMMA ShaInjective ==
    ASSUME NEW l, NEW r, NEW l2, NEW r2, IsNode(l), IsNode(r), IsNode(l2), IsNode(r2),
           Sha(l, r) = Sha(l2, r2)
    PROVE  l = l2 /\ r = r2
<1>1. <<l[1], Bar, r[1]>> = <<l2[1], Bar, r2[1]>>
  <2>1. Below(Sha(l, r)) = <<l[1], Bar, r[1]>>
    BY ShaOfNodes
  <2>2. Below(Sha(l2, r2)) = <<l2[1], Bar, r2[1]>>
    BY ShaOfNodes
  <2> QED BY <2>1, <2>2, Zenon
<1>2. l[1] = l2[1] /\ r[1] = r2[1]
  BY <1>1
<1>3. l = <<l[1]>> /\ r = <<r[1]>> /\ l2 = <<l2[1]>> /\ r2 = <<r2[1]>>
  BY ShaOfNodes
<1> QED BY <1>2, <1>3, Zenon

\* The string of a leaf: a key's tokens, a Bar, a value's tokens.
IsLeafString(s, k, v, n) ==
    /\ Len(s) = n + 1 + Len(v) /\ s[n + 1] = Bar
    /\ \A i \in 1..n : s[i] = k[i]
    /\ \A i \in 1..Len(v) : s[n + 1 + i] = v[i]

\* What is written for a leaf is a leaf string.
LEMMA LeafString ==
    ASSUME NEW k \in Seq(Tokens), NEW v \in Seq(Tokens), NEW n \in Nat, n = Len(k)
    PROVE  IsLeafString(k \o <<Bar>> \o v, k, v, n)
<1> DEFINE T == Tokens \cup {Bar}
           f == k \o <<Bar>>
<1>1. k \in Seq(T) /\ v \in Seq(T) /\ <<Bar>> \in Seq(T) /\ Len(<<Bar>>) = 1
  OBVIOUS
<1>m. n + 1 \in Nat
  OBVIOUS
<1> HIDE DEF T
<1>2. /\ f \in Seq(T) /\ Len(f) = n + 1 /\ f[n + 1] = Bar
      /\ \A i \in 1..n : f[i] = k[i]
  BY <1>1
<1> HIDE DEF f
<1>3. /\ Len(f \o v) = (n + 1) + Len(v)
      /\ \A i \in 1..n + 1 : (f \o v)[i] = f[i]
      /\ \A i \in 1..Len(v) : (f \o v)[(n + 1) + i] = v[i]
  <2>1. PICK l \in Nat : l = n + 1
    BY <1>m
  <2>2. f \in Seq(T) /\ v \in Seq(T) /\ l = Len(f)
    BY <1>1, <1>2, <2>1
  <2>3. /\ Len(f \o v) = l + Len(v)
        /\ \A i \in 1..l : (f \o v)[i] = f[i]
        /\ \A i \in 1..Len(v) : (f \o v)[l + i] = v[i]
    BY <2>2, Concatenation
  <2> QED BY <2>1, <2>3
<1> DEFINE s == f \o v
<1> HIDE DEF s
<1>4. s[n + 1] = Bar /\ \A i \in 1..n : s[i] = k[i]
  BY <1>2, <1>3 DEF s
<1> QED BY <1>3, <1>4 DEF s, f, IsLeafString

\* What a leaf hashes is one text, and hashes of leaves tell texts apart.
LEMMA LeafText ==
    ASSUME NEW k, NEW v, NEW k2, NEW v2
    PROVE  LeafHash(k, v) = LeafHash(k2, v2) <=> Joined(k, v) = Joined(k2, v2)
<1> DEFINE s == Joined(k, v)
           s2 == Joined(k2, v2)
<1>1. LeafHash(k, v) = Hashed(s) /\ LeafHash(k2, v2) = Hashed(s2)
  BY DEF LeafHash, Sha
<1> HIDE DEF s, s2
<1>2. Below(Hashed(s)) = s /\ Below(Hashed(s2)) = s2
  BY HashedIsNode
<1>3. Hashed(s) = Hashed(s2) <=> s = s2
  BY <1>2, Zenon
<1> QED BY <1>1, <1>3 DEF s, s2

\* The text of a leaf shows key and value, if no key holds a Bar.
LEMMA LeafInjective ==
    ASSUME NEW k \in Seq(Tokens), NEW v \in Seq(Tokens),
           NEW k2 \in Seq(Tokens), NEW v2 \in Seq(Tokens),
           ~HasBar(k), ~HasBar(k2), LeafHash(k, v) = LeafHash(k2, v2)
    PROVE  k = k2 /\ v = v2
<1>n. PICK n \in Nat, n2 \in Nat : n = Len(k) /\ n2 = Len(k2)
  OBVIOUS
<1>m. PICK m \in Nat, m2 \in Nat : m = Len(v) /\ m2 = Len(v2)
  OBVIOUS
<1> DEFINE s == k \o <<Bar>> \o v
           s2 == k2 \o <<Bar>> \o v2
<1>1. s = s2
  <2>1. LeafHash(k, v) = LeafHash(k2, v2) <=> Joined(k, v) = Joined(k2, v2)
    BY LeafText
  <2>2. Joined(k, v) = Joined(k2, v2)
    BY <2>1
  <2> QED BY <2>2 DEF Joined
<1>2. /\ Len(s) = n + 1 + m /\ s[n + 1] = Bar /\ \A i \in 1..n : s[i] = k[i]
      /\ \A i \in 1..m : s[n + 1 + i] = v[i]
  <2>1. IsLeafString(s, k, v, n)
    BY <1>n, LeafString
  <2> HIDE DEF s
  <2> QED BY <2>1, <1>m DEF IsLeafString
<1>3. /\ Len(s2) = n2 + 1 + m2 /\ s2[n2 + 1] = Bar /\ \A i \in 1..n2 : s2[i] = k2[i]
      /\ \A i \in 1..m2 : s2[n2 + 1 + i] = v2[i]
  <2>1. IsLeafString(s2, k2, v2, n2)
    BY <1>n, LeafString
  <2> HIDE DEF s2
  <2> QED BY <2>1, <1>m DEF IsLeafString
<1> HIDE DEF s, s2
<1>4. \A i \in 1..n : k[i] # Bar
  BY <1>n DEF HasBar
<1>5. \A i \in 1..n2 : k2[i] # Bar
  BY <1>n DEF HasBar
<1>6. n = n2
  <2>1. ASSUME n < n2 PROVE FALSE
    <3>1. n + 1 \in 1..n2
      BY <2>1
    <3> QED BY <3>1, <1>1, <1>2, <1>3, <1>5
  <2>2. ASSUME n2 < n PROVE FALSE
    <3>1. n2 + 1 \in 1..n
      BY <2>2
    <3> QED BY <3>1, <1>1, <1>2, <1>3, <1>4
  <2> QED BY <2>1, <2>2
<1>7. m = m2
  BY <1>1, <1>2, <1>3, <1>6
<1>8. k = k2
  <2>1. \A i \in 1..n : k[i] = k2[i]
    BY <1>1, <1>2, <1>3, <1>6
  <2> QED BY <2>1, <1>6, <1>n, SameElements
<1>9. v = v2
  <2>1. \A i \in 1..m : v[i] = v2[i]
    BY <1>1, <1>2, <1>3, <1>6, <1>7
  <2> QED BY <2>1, <1>7, <1>m, SameElements
<1> QED BY <1>8, <1>9

\* A leaf is a node, and not the hash of nothing; it is no inner node if its
\* key holds no Bar and key and value are not both hashes.
LEMMA LeafKind ==
    ASSUME NEW k \in Seq(Tokens), NEW v \in Seq(Tokens)
    PROVE  /\ IsNode(LeafHash(k, v)) /\ LeafHash(k, v) # EmptyRoot
           /\ ~HasBar(k) /\ ~(IsHash(k) /\ IsHash(v)) =>
                 \A l, r : IsNode(l) /\ IsNode(r) => LeafHash(k, v) # Sha(l, r)
<1>n. PICK n \in Nat, m \in Nat : n = Len(k) /\ m = Len(v)
  OBVIOUS
<1> DEFINE s == k \o <<Bar>> \o v
<1>1. /\ Len(s) = n + 1 + m /\ s[n + 1] = Bar /\ \A i \in 1..n : s[i] = k[i]
      /\ \A i \in 1..m : s[n + 1 + i] = v[i]
  <2>1. IsLeafString(s, k, v, n)
    BY <1>n, LeafString
  <2> HIDE DEF s
  <2> QED BY <2>1, <1>n DEF IsLeafString
<1> HIDE DEF s
<1>2. LeafHash(k, v) = Hashed(s) /\ Below(LeafHash(k, v)) = s /\ IsNode(LeafHash(k, v))
  BY HashedIsNode DEF s, LeafHash, Sha, Joined
<1>4. LeafHash(k, v) # EmptyRoot
  <2>1. Below(EmptyRoot) = <<>>
    BY HashedIsNode DEF EmptyRoot
  <2>2. Len(s) # Len(<<>>)
    BY <1>1
  <2> QED BY <2>1, <2>2, <1>2
<1>5. ASSUME NEW l, NEW r, IsNode(l), IsNode(r), LeafHash(k, v) = Sha(l, r), ~HasBar(k)
      PROVE  IsHash(k) /\ IsHash(v)
  <2>1. Below(Sha(l, r)) = <<l[1], Bar, r[1]>> /\ l[1].kind = "hash" /\ r[1].kind = "hash"
    BY <1>5, ShaOfNodes
  <2>2. s = <<l[1], Bar, r[1]>>
    BY <2>1, <1>2, <1>5
  <2>3. s[1] = l[1] /\ s[2] = Bar /\ s[3] = r[1] /\ Len(s) = 3
    BY <2>2
  <2>4. n # 0
    <3>1. Bar.kind = "bar"
      BY DEF Bar
    <3> QED BY <1>1, <2>1, <2>3, <3>1
  <2>5. n # 2
    <3> SUFFICES ASSUME n = 2 PROVE FALSE
      OBVIOUS
    <3>1. 2 \in DOMAIN k /\ k[2] = Bar
      BY <1>1, <1>n, <2>3
    <3> QED BY <1>5, <3>1 DEF HasBar
  <2>6. n = 1 /\ m = 1
    <3>1. n + 1 + m = 3
      BY <1>1, <2>3
    <3> QED BY <3>1, <2>4, <2>5
  <2>7. k[1] = l[1] /\ v[1] = r[1]
    BY <1>1, <2>3, <2>6
  <2>8. IsHash(k)
    BY <1>n, <2>1, <2>6, <2>7 DEF IsHash
  <2>9. IsHash(v)
    BY <1>n, <2>1, <2>6, <2>7 DEF IsHash
  <2> QED BY <2>8, <2>9
<1> QED BY <1>2, <1>4, <1>5

\* An inner node is not the hash of nothing.
LEMMA InnerIsNotEmpty ==
    ASSUME NEW l, NEW r, IsNode(l), IsNode(r) PROVE Sha(l, r) # EmptyRoot
<1>1. Below(Sha(l, r)) = <<l[1], Bar, r[1]>>
  BY ShaOfNodes
<1>2. Below(EmptyRoot) = <<>>
  BY HashedIsNode DEF EmptyRoot
<1>3. <<l[1], Bar, r[1]>> # <<>>
  OBVIOUS
<1> QED BY <1>1, <1>2, <1>3
----------------------------------------------------------------------------
(* The recursive definitions are what their recursion says.                *)

\* Keys and values are text.
LEMMA TextFacts == Keys \subseteq Seq(Tokens) /\ Values \subseteq Seq(Tokens)
BY TextAssumption

\* The keys in order hold the keys that are present.
AreKeysOf(keys, store) ==
    /\ keys \in Seq(Keys)
    /\ \A p \in 1..Len(keys) : store[keys[p]] # Absent
    /\ \A k \in Keys : store[k] # Absent => \E p \in 1..Len(keys) : keys[p] = k

\* SortedKeys lists the keys that are present.
LEMMA SortedKeysFacts ==
    ASSUME NEW store \in Store PROVE AreKeysOf(SortedKeys(store), store)
<1> DEFINE G(i, y) == IF store[KeyOrder[i]] = Absent THEN y ELSE Append(y, KeyOrder[i])
           D(h, k) == [i \in 0..k |-> IF i = 0 THEN <<>> ELSE G(i, h[i - 1])]
           P == {k \in Nat : \E f : f = D(f, k)}
<1>m. PICK m \in Nat : m = Len(KeyOrder)
  BY KeyOrderAssumption
<1>1. \A k \in Nat : k \in P
  <2> HIDE DEF G
  <2>1. 0 \in P
    <3> DEFINE e == [i \in 0..0 |-> <<>>]
    <3>1. e = D(e, 0)
      OBVIOUS
    <3> QED BY <3>1
  <2>2. ASSUME NEW k \in Nat, k \in P PROVE k + 1 \in P
    <3>1. PICK f : f = D(f, k)
      BY <2>2
    <3> DEFINE e == [i \in 0..k + 1 |-> IF i = k + 1 THEN G(k + 1, f[k]) ELSE f[i]]
    <3>2. ASSUME NEW i \in 0..k + 1 PROVE e[i] = IF i = 0 THEN <<>> ELSE G(i, e[i - 1])
      <4>1. CASE i = k + 1
        <5>1. e[i] = G(k + 1, f[k]) /\ e[i - 1] = f[k] /\ i # 0
          BY <4>1
        <5> QED BY <5>1, <4>1
      <4>2. CASE i # k + 1
        <5>1. i \in 0..k /\ e[i] = f[i] /\ f[i] = IF i = 0 THEN <<>> ELSE G(i, f[i - 1])
          BY <4>2, <3>1
        <5>2. i # 0 => e[i - 1] = f[i - 1]
          BY <4>2
        <5> HIDE DEF e
        <5> QED BY <5>1, <5>2
      <4> QED BY <4>1, <4>2
    <3>3. e = [i \in 0..k + 1 |-> e[i]]
      OBVIOUS
    <3> HIDE DEF e
    <3>4. e = D(e, k + 1)
      BY <3>2, <3>3
    <3> QED BY <3>4
  <2> HIDE DEF P
  <2> QED BY <2>1, <2>2, NatSetInduction
<1> DEFINE v == CHOOSE h : h = D(h, Len(KeyOrder))
<1>2. v = D(v, Len(KeyOrder))
  <2>1. \E h : h = D(h, Len(KeyOrder))
    BY <1>1, <1>m
  <2> HIDE DEF D
  <2> QED BY <2>1, Zenon
<1>3. SortedKeys(store) = v[Len(KeyOrder)]
  BY DEF SortedKeys
<1> HIDE DEF v
<1>4. v[0] = <<>> /\ \A i \in 1..m : v[i] = G(i, v[i - 1])
  <2> HIDE DEF G
  <2> QED BY <1>2, <1>m
<1> DEFINE Good(q, i) ==
             /\ q \in Seq(Keys) /\ \A p \in 1..Len(q) : store[q[p]] # Absent
             /\ \A j \in 1..i : store[KeyOrder[j]] # Absent => \E p \in 1..Len(q) : q[p] = KeyOrder[j]
           U == {i \in Nat : i <= m => Good(v[i], i)}
<1>5. \A i \in Nat : i \in U
  <2>1. 0 \in U
    <3>1. Good(<<>>, 0)
      OBVIOUS
    <3> HIDE DEF Good
    <3> QED BY <3>1, <1>4
  <2>2. ASSUME NEW i \in Nat, i \in U PROVE i + 1 \in U
    <3> SUFFICES ASSUME i + 1 <= m PROVE Good(v[i + 1], i + 1)
      OBVIOUS
    <3>1. Good(v[i], i) /\ v[i + 1] = G(i + 1, v[i]) /\ KeyOrder[i + 1] \in Keys
      <4>1. i + 1 \in 1..m /\ (i + 1) - 1 = i /\ i <= m
        OBVIOUS
      <4>2. Good(v[i], i)
        BY <2>2, <4>1
      <4> QED BY <4>1, <4>2, <1>4, <1>m, KeyOrderAssumption
    <3>2. PICK q \in Seq(Keys) : q = v[i] /\ Good(q, i)
      BY <3>1
    <3>3. CASE store[KeyOrder[i + 1]] = Absent
      <4>1. v[i + 1] = q
        BY <3>1, <3>2, <3>3
      <4>2. \A j \in 1..i + 1 : store[KeyOrder[j]] # Absent => j \in 1..i
        BY <3>3
      <4> QED BY <4>1, <4>2, <3>2
    <3>4. CASE store[KeyOrder[i + 1]] # Absent
      <4> DEFINE x == KeyOrder[i + 1]
                 r == Append(q, x)
      <4>l. PICK l \in Nat : l = Len(q)
        OBVIOUS
      <4>1. v[i + 1] = r
        BY <3>1, <3>2, <3>4
      <4>2. /\ r \in Seq(Keys) /\ Len(r) = l + 1 /\ r[l + 1] = x
            /\ \A p \in 1..l : r[p] = q[p]
        BY <3>1, <4>l
      <4> HIDE DEF r
      <4>3. \A p \in 1..l + 1 : store[r[p]] # Absent
        <5>1. \A p \in 1..l + 1 : p \in 1..l \/ p = l + 1
          OBVIOUS
        <5> QED BY <5>1, <4>2, <4>l, <3>2, <3>4
      <4>4. ASSUME NEW j \in 1..i + 1, store[KeyOrder[j]] # Absent
            PROVE  \E p \in 1..l + 1 : r[p] = KeyOrder[j]
        <5>1. CASE j = i + 1
          BY <5>1, <4>2
        <5>2. CASE j # i + 1
          <6>1. PICK p \in 1..l : q[p] = KeyOrder[j]
            BY <5>2, <4>4, <3>2, <4>l
          <6> QED BY <6>1, <4>2
        <5> QED BY <5>1, <5>2
      <4> QED BY <4>1, <4>2, <4>3, <4>4
    <3> QED BY <3>3, <3>4
  <2> HIDE DEF U
  <2> QED BY <2>1, <2>2, NatSetInduction
<1>6. Good(v[m], m)
  BY <1>5
<1> QED BY <1>3, <1>6, <1>m, KeyOrderAssumption DEF AreKeysOf

\* One level is made of nodes.
AreNodes(level, n) ==
    level = [p \in 1..n |-> level[p]] /\ \A p \in 1..n : IsNode(level[p])

\* The length of a level.
LEMMA LevelLength ==
    ASSUME NEW n \in Nat, NEW level, level = [p \in 1..n |-> level[p]]
    PROVE  Len(level) = n
OBVIOUS

\* A round halves a level, and rounds up.
LEMMA Halves ==
    ASSUME NEW n \in Nat
    PROVE  /\ (n + 1) \div 2 \in Nat
           /\ n > 1 => (n + 1) \div 2 < n
           /\ n > 0 => (n + 1) \div 2 > 0
           /\ n <= 1 => (n + 1) \div 2 = n
           /\ \A p \in 1..((n + 1) \div 2) : 2 * p - 1 \in 1..n /\ (2 * p <= n => 2 * p \in 1..n)
OBVIOUS

\* The nodes of a round: each shows the two it was hashed from.
IsRound(level, n, above) ==
    \A p \in 1..((n + 1) \div 2) :
        /\ 2 * p - 1 \in 1..n
        /\ 2 * p <= n => 2 * p \in 1..n /\ above[p] = Sha(level[2 * p - 1], level[2 * p])
        /\ ~(2 * p <= n) => above[p] = Sha(level[2 * p - 1], level[2 * p - 1])

\* A round makes nodes of nodes, each from the two below it.
LEMMA RoundFacts ==
    ASSUME NEW n \in Nat, NEW level, AreNodes(level, n)
    PROVE  /\ AreNodes(Parents(level), (n + 1) \div 2)
           /\ Len(Parents(level)) = (n + 1) \div 2
           /\ IsRound(level, n, Parents(level))
<1>l. Len(level) = n
  BY LevelLength DEF AreNodes
<1>m. PICK m \in Nat : m = (n + 1) \div 2
  BY Halves
<1> DEFINE above == Parents(level)
           N(p) == Sha(level[2 * p - 1], IF 2 * p <= n THEN level[2 * p] ELSE level[2 * p - 1])
<1>1. above = [p \in 1..m |-> N(p)]
  BY <1>l, <1>m DEF Parents
<1> HIDE DEF above, N
<1>2. above = [p \in 1..m |-> above[p]] /\ \A p \in 1..m : above[p] = N(p)
  BY <1>1
<1>3. ASSUME NEW p \in 1..m
      PROVE  /\ IsNode(N(p)) /\ 2 * p - 1 \in 1..n
             /\ 2 * p <= n => 2 * p \in 1..n /\ N(p) = Sha(level[2 * p - 1], level[2 * p])
             /\ ~(2 * p <= n) => N(p) = Sha(level[2 * p - 1], level[2 * p - 1])
  <2>1. 2 * p - 1 \in 1..n /\ (2 * p <= n => 2 * p \in 1..n)
    BY <1>m, Halves
  <2>2. IsNode(level[2 * p - 1]) /\ (2 * p <= n => IsNode(level[2 * p]))
    BY <2>1 DEF AreNodes
  <2>3. CASE 2 * p <= n
    <3>1. N(p) = Sha(level[2 * p - 1], level[2 * p])
      BY <2>3 DEF N
    <3>2. IsNode(Sha(level[2 * p - 1], level[2 * p]))
      BY <2>2, <2>3, ShaOfNodes
    <3> QED BY <2>1, <2>3, <3>1, <3>2
  <2>4. CASE ~(2 * p <= n)
    <3>1. N(p) = Sha(level[2 * p - 1], level[2 * p - 1])
      BY <2>4 DEF N
    <3>2. IsNode(Sha(level[2 * p - 1], level[2 * p - 1]))
      BY <2>2, ShaOfNodes
    <3> QED BY <2>1, <2>4, <3>1, <3>2
  <2> QED BY <2>3, <2>4
<1>4. AreNodes(above, m) /\ Len(above) = m
  BY <1>2, <1>3, LevelLength DEF AreNodes
<1>5. IsRound(level, n, above)
  BY <1>2, <1>3, <1>m DEF IsRound
<1> QED BY <1>4, <1>5, <1>m DEF above

\* A tree of height H: every level a round above the one below, one node at
\* the top.
IsTree(level, H) ==
    /\ H \in Nat
    /\ \A h \in 0..H : Len(level[h]) \in Nat /\ AreNodes(level[h], Len(level[h]))
    /\ \A h \in 0..H : Len(level[0]) > 0 => Len(level[h]) > 0
    /\ \A h \in 0..H - 1 : /\ IsRound(level[h], Len(level[h]), level[h + 1])
                           /\ Len(level[h + 1]) = (Len(level[h]) + 1) \div 2
    /\ Len(level[H]) <= 1

\* levels builds a tree, and its loop ends.
LEMMA TreeFacts ==
    ASSUME NEW n \in Nat, NEW leaves, AreNodes(leaves, n)
    PROVE  /\ IsTree(Rounds(leaves), Height(leaves)) /\ Height(leaves) \in 0..n
           /\ Rounds(leaves)[0] = leaves /\ Len(leaves) = n
<1> DEFINE D(h, k) == [i \in 0..k |-> IF i = 0 THEN leaves ELSE Parents(h[i - 1])]
           P == {k \in Nat : \E f : f = D(f, k)}
<1>l. Len(leaves) = n
  BY LevelLength DEF AreNodes
<1>1. \A k \in Nat : k \in P
  <2>1. 0 \in P
    <3> DEFINE e == [i \in 0..0 |-> leaves]
    <3>1. e = D(e, 0)
      OBVIOUS
    <3> QED BY <3>1
  <2>2. ASSUME NEW k \in Nat, k \in P PROVE k + 1 \in P
    <3>1. PICK f : f = D(f, k)
      BY <2>2
    <3> DEFINE e == [i \in 0..k + 1 |-> IF i = k + 1 THEN Parents(f[k]) ELSE f[i]]
    <3>2. ASSUME NEW i \in 0..k + 1 PROVE e[i] = IF i = 0 THEN leaves ELSE Parents(e[i - 1])
      <4>1. CASE i = k + 1
        <5>1. e[i] = Parents(f[k]) /\ e[i - 1] = f[k] /\ i # 0
          BY <4>1
        <5> QED BY <5>1, <4>1
      <4>2. CASE i # k + 1
        <5>1. i \in 0..k /\ e[i] = f[i] /\ f[i] = IF i = 0 THEN leaves ELSE Parents(f[i - 1])
          BY <4>2, <3>1
        <5>2. i # 0 => e[i - 1] = f[i - 1]
          BY <4>2
        <5> HIDE DEF e
        <5> QED BY <5>1, <5>2
      <4> QED BY <4>1, <4>2
    <3>3. e = [i \in 0..k + 1 |-> e[i]]
      OBVIOUS
    <3> HIDE DEF e
    <3>4. e = D(e, k + 1)
      BY <3>2, <3>3
    <3> QED BY <3>4
  <2> HIDE DEF P
  <2> QED BY <2>1, <2>2, NatSetInduction
<1> DEFINE v == Rounds(leaves)
<1>2. v = D(v, n)
  <2>1. \E h : h = D(h, Len(leaves))
    BY <1>1, <1>l
  <2>2. v = CHOOSE h : h = D(h, Len(leaves))
    BY DEF Rounds
  <2> HIDE DEF v, D
  <2>3. v = D(v, Len(leaves))
    BY <2>1, <2>2, Zenon
  <2> QED BY <2>3, <1>l
<1> HIDE DEF v
<1>3. v[0] = leaves /\ \A h \in 0..n - 1 : v[h + 1] = Parents(v[h])
  BY <1>2
\* Every level has nodes, and fewer the higher it is.
<1> DEFINE Good(x, h) == /\ Len(x) \in Nat /\ AreNodes(x, Len(x)) /\ (n > 0 => Len(x) > 0)
                         /\ Len(x) <= 1 \/ Len(x) <= n - h
           U == {h \in Nat : h <= n => Good(v[h], h)}
<1>4. \A h \in Nat : h \in U
  <2>1. 0 \in U
    <3>1. Good(leaves, 0)
      BY <1>l
    <3> HIDE DEF Good
    <3> QED BY <3>1, <1>3
  <2>2. ASSUME NEW h \in Nat, h \in U PROVE h + 1 \in U
    <3> SUFFICES ASSUME h + 1 <= n PROVE Good(v[h + 1], h + 1)
      OBVIOUS
    <3>1. Good(v[h], h) /\ v[h + 1] = Parents(v[h])
      <4>1. h <= n /\ h \in 0..n - 1
        OBVIOUS
      <4> HIDE DEF Good
      <4> QED BY <4>1, <2>2, <1>3
    <3>2. PICK m \in Nat : m = Len(v[h])
      BY <3>1
    <3>3. Len(v[h + 1]) = (m + 1) \div 2 /\ AreNodes(v[h + 1], (m + 1) \div 2)
      BY <3>1, <3>2, RoundFacts
    <3>4. PICK k \in Nat : k = (m + 1) \div 2
      BY Halves
    <3>5. (n > 0 => k > 0) /\ (k <= 1 \/ k <= n - (h + 1))
      <4>1. (n > 0 => m > 0) /\ (m <= 1 \/ m <= n - h)
        BY <3>1, <3>2
      <4>2. (m > 1 => k < m) /\ (m > 0 => k > 0) /\ (m <= 1 => k = m)
        BY <3>4, Halves
      <4> QED BY <4>1, <4>2
    <3> QED BY <3>3, <3>4, <3>5
  <2> HIDE DEF U
  <2> QED BY <2>1, <2>2, NatSetInduction
<1>5. ASSUME NEW h \in 0..n
      PROVE  Len(v[h]) \in Nat /\ AreNodes(v[h], Len(v[h])) /\ (n > 0 => Len(v[h]) > 0)
  BY <1>4
<1>6. Len(v[n]) <= 1
  <2>1. Good(v[n], n)
    BY <1>4
  <2> QED BY <2>1
<1> DEFINE Top(h) == Len(v[h]) <= 1 /\ \A g \in 0..h - 1 : Len(v[g]) > 1
<1>7. \E h \in 0..n : Top(h)
  <2> DEFINE S == {h \in 0..n : Len(v[h]) <= 1}
  <2>1. S \subseteq Nat /\ n \in S
    BY <1>6
  <2>2. PICK h \in S : \A k \in S : h <= k
    <3> HIDE DEF S
    <3> QED BY <2>1, LeastNumber
  <2>3. ASSUME NEW g \in 0..h - 1 PROVE Len(v[g]) > 1
    <3>1. g \in 0..n /\ g \notin S
      BY <2>2
    <3> QED BY <3>1, <1>5
  <2> QED BY <2>2, <2>3
<1> DEFINE H == Height(leaves)
<1>8. H \in 0..n /\ Top(H)
  <2>1. H = CHOOSE h \in 0..n : Top(h)
    BY <1>l DEF Height, v
  <2> HIDE DEF H, Top
  <2> QED BY <2>1, <1>7, Zenon
<1> HIDE DEF H
<1>9. ASSUME NEW h \in 0..H - 1
      PROVE  /\ IsRound(v[h], Len(v[h]), v[h + 1])
             /\ Len(v[h + 1]) = (Len(v[h]) + 1) \div 2
  <2>1. h \in 0..n /\ h \in 0..n - 1
    BY <1>8
  <2>2. v[h + 1] = Parents(v[h]) /\ Len(v[h]) \in Nat /\ AreNodes(v[h], Len(v[h]))
    BY <2>1, <1>3, <1>5
  <2> QED BY <2>2, RoundFacts
<1>10. IsTree(v, H)
  <2>1. H \in Nat /\ Len(v[H]) <= 1 /\ Len(v[0]) = n /\ \A h \in 0..H : h \in 0..n
    BY <1>3, <1>8, <1>l
  <2> QED BY <2>1, <1>5, <1>9 DEF IsTree
<1> QED BY <1>3, <1>8, <1>10, <1>l DEF v, H
----------------------------------------------------------------------------
(* The root determines the entries.                                        *)

\* A node of a round is hashed from two nodes of the level below, and they
\* are all those it stands above.
IsParent(level, n, above, a) ==
    \E x, y \in 1..n :
        /\ above[a] = Sha(level[x], level[y]) /\ IsNode(level[x]) /\ IsNode(level[y])
        /\ \A p \in 1..n : (p + 1) \div 2 = a => p = x \/ p = y

\* Every node of a round has its two below it.
LEMMA RoundShows ==
    ASSUME NEW n \in Nat, NEW level, NEW above, AreNodes(level, n), IsRound(level, n, above),
           NEW a \in 1..((n + 1) \div 2)
    PROVE  IsParent(level, n, above, a)
<1>1. /\ 2 * a - 1 \in 1..n
      /\ 2 * a <= n => 2 * a \in 1..n /\ above[a] = Sha(level[2 * a - 1], level[2 * a])
      /\ ~(2 * a <= n) => above[a] = Sha(level[2 * a - 1], level[2 * a - 1])
  BY DEF IsRound
<1>a. a \in Nat
  BY Halves
<1>2. \A p \in 1..n : (p + 1) \div 2 = a => p = 2 * a - 1 \/ p = 2 * a
  BY <1>a
<1>3. PICK x \in 1..n : x = 2 * a - 1
  BY <1>1
<1>4. CASE 2 * a <= n
  <2>1. PICK y \in 1..n : y = 2 * a
    BY <1>1, <1>4
  <2> QED BY <1>1, <1>2, <1>3, <1>4, <2>1 DEF IsParent, AreNodes
<1>5. CASE ~(2 * a <= n)
  <2>1. \A p \in 1..n : (p + 1) \div 2 = a => p = x
    BY <1>2, <1>3, <1>5
  <2> QED BY <1>1, <1>3, <1>5, <2>1 DEF IsParent, AreNodes
<1> QED BY <1>4, <1>5

\* Every node of the one level occurs in the other.
AllOccur(level, other) ==
    \A p \in 1..Len(level) : \E q \in 1..Len(other) : other[q] = level[p]

\* Trees with one root agree from the top down: every node of the one
\* occurs as far below the top of the other.
LEMMA LevelsLineUp ==
    ASSUME NEW s, NEW G, NEW t, NEW H, IsTree(s, G), IsTree(t, H),
           Len(s[0]) > 0, Len(t[0]) > 0, s[G][1] = t[H][1],
           NEW d \in Nat, d <= G, d <= H
    PROVE  AllOccur(s[G - d], t[H - d])
<1>0. G \in Nat /\ H \in Nat
  BY DEF IsTree
<1> DEFINE U == {k \in Nat : k <= G /\ k <= H => AllOccur(s[G - k], t[H - k])}
<1>1. 0 \in U
  <2>1. Len(s[G]) = 1 /\ Len(t[H]) = 1
    <3>1. G \in 0..G /\ H \in 0..H
      BY <1>0
    <3>2. PICK n \in Nat : n = Len(s[G]) /\ n > 0 /\ n <= 1
      BY <3>1 DEF IsTree
    <3>3. PICK m \in Nat : m = Len(t[H]) /\ m > 0 /\ m <= 1
      BY <3>1 DEF IsTree
    <3>4. \A i \in Nat : i > 0 /\ i <= 1 => i = 1
      OBVIOUS
    <3> QED BY <3>2, <3>3, <3>4, Zenon
  <2>2. AllOccur(s[G], t[H])
    BY <2>1 DEF AllOccur
  <2>3. G - 0 = G /\ H - 0 = H
    BY <1>0
  <2> QED BY <2>2, <2>3
<1>2. ASSUME NEW k \in Nat, k \in U PROVE k + 1 \in U
  <2> SUFFICES ASSUME k + 1 <= G, k + 1 <= H PROVE AllOccur(s[G - (k + 1)], t[H - (k + 1)])
    OBVIOUS
  <2>1. PICK g \in 0..G - 1, h \in 0..H - 1 :
            g = G - (k + 1) /\ h = H - (k + 1) /\ g + 1 = G - k /\ h + 1 = H - k
    <3>1. G - (k + 1) \in 0..G - 1 /\ H - (k + 1) \in 0..H - 1
      BY <1>0
    <3>2. (G - (k + 1)) + 1 = G - k /\ (H - (k + 1)) + 1 = H - k
      BY <1>0
    <3> QED BY <3>1, <3>2
  <2>2. AllOccur(s[g + 1], t[h + 1])
    <3>1. k <= G /\ k <= H
      BY <1>0
    <3> QED BY <3>1, <1>2, <2>1
  <2>3. PICK n \in Nat : /\ n = Len(s[g]) /\ AreNodes(s[g], n) /\ IsRound(s[g], n, s[g + 1])
                         /\ Len(s[g + 1]) = (n + 1) \div 2
    <3>1. g \in 0..G
      BY <1>0
    <3> QED BY <3>1 DEF IsTree
  <2>4. PICK m \in Nat : /\ m = Len(t[h]) /\ AreNodes(t[h], m) /\ IsRound(t[h], m, t[h + 1])
                         /\ Len(t[h + 1]) = (m + 1) \div 2
    <3>1. h \in 0..H
      BY <1>0
    <3> QED BY <3>1 DEF IsTree
  <2>5. ASSUME NEW p \in 1..n PROVE \E q \in 1..m : t[h][q] = s[g][p]
    <3>1. PICK a \in 1..((n + 1) \div 2) : a = (p + 1) \div 2
      <4>1. (p + 1) \div 2 \in 1..((n + 1) \div 2)
        OBVIOUS
      <4> QED BY <4>1
    <3>2. PICK b \in 1..((m + 1) \div 2) : t[h + 1][b] = s[g + 1][a]
      BY <2>2, <2>3, <2>4 DEF AllOccur
    <3>3. PICK x \in 1..n, y \in 1..n :
              /\ s[g + 1][a] = Sha(s[g][x], s[g][y]) /\ IsNode(s[g][x]) /\ IsNode(s[g][y])
              /\ p = x \/ p = y
      <4>1. IsParent(s[g], n, s[g + 1], a)
        BY <2>3, RoundShows
      <4> QED BY <4>1, <3>1 DEF IsParent
    <3>4. PICK z \in 1..m, w \in 1..m :
              t[h + 1][b] = Sha(t[h][z], t[h][w]) /\ IsNode(t[h][z]) /\ IsNode(t[h][w])
      <4>1. IsParent(t[h], m, t[h + 1], b)
        BY <2>4, RoundShows
      <4> QED BY <4>1 DEF IsParent
    <3>5. s[g][x] = t[h][z] /\ s[g][y] = t[h][w]
      BY <3>2, <3>3, <3>4, ShaInjective
    <3> QED BY <3>3, <3>5
  <2>6. AllOccur(s[g], t[h])
    BY <2>3, <2>4, <2>5 DEF AllOccur
  <2> QED BY <2>1, <2>6
<1> HIDE DEF U
<1>3. \A k \in Nat : k \in U
  BY <1>1, <1>2, NatSetInduction
<1> QED BY <1>3 DEF U

\* Above the leaves there are inner nodes only.
LEMMA InnerNodes ==
    ASSUME NEW s, NEW G, IsTree(s, G), NEW g \in 1..G, NEW p \in 1..Len(s[g])
    PROVE  \E l, r : s[g][p] = Sha(l, r) /\ IsNode(l) /\ IsNode(r)
<1>1. PICK f \in 0..G - 1 : g = f + 1
  <2>1. g - 1 \in 0..G - 1 /\ g = (g - 1) + 1
    BY DEF IsTree
  <2> QED BY <2>1
<1>2. PICK n \in Nat : /\ n = Len(s[f]) /\ AreNodes(s[f], n) /\ IsRound(s[f], n, s[f + 1])
                       /\ Len(s[f + 1]) = (n + 1) \div 2
  <2>1. f \in 0..G
    BY <1>1 DEF IsTree
  <2> QED BY <2>1 DEF IsTree
<1>3. IsParent(s[f], n, s[f + 1], p)
  BY <1>1, <1>2, RoundShows
<1> QED BY <1>1, <1>3 DEF IsParent

\* The leaves of a store: one for each entry.
AreLeavesOf(leaves, n, keys, store) ==
    /\ AreNodes(leaves, n) /\ AreKeysOf(keys, store) /\ Len(keys) = n
    /\ \A p \in 1..n : /\ keys[p] \in Keys /\ store[keys[p]] \in Values
                       /\ leaves[p] = LeafHash(keys[p], store[keys[p]])

\* Leaves makes a leaf for every entry.
LEMMA LeavesFacts ==
    ASSUME NEW store \in Store
    PROVE  \E n \in Nat : AreLeavesOf(Leaves(store), n, SortedKeys(store), store)
<1> DEFINE keys == SortedKeys(store)
           leaves == Leaves(store)
<1>1. AreKeysOf(keys, store)
  BY SortedKeysFacts
<1>2. PICK n \in Nat : n = Len(keys) /\ keys \in Seq(Keys)
  BY <1>1 DEF AreKeysOf
<1>3. leaves = [p \in 1..n |-> LeafHash(keys[p], store[keys[p]])]
  BY <1>2 DEF Leaves
<1> HIDE DEF keys, leaves
<1>4. leaves = [p \in 1..n |-> leaves[p]]
  BY <1>3
<1>5. ASSUME NEW p \in 1..n
      PROVE  /\ keys[p] \in Keys /\ store[keys[p]] \in Values
             /\ leaves[p] = LeafHash(keys[p], store[keys[p]]) /\ IsNode(leaves[p])
  <2>1. keys[p] \in Keys /\ leaves[p] = LeafHash(keys[p], store[keys[p]])
    BY <1>2, <1>3
  <2>2. store[keys[p]] \in Values
    BY <2>1, <1>1, <1>2 DEF AreKeysOf, Store
  <2>3. keys[p] \in Seq(Tokens) /\ store[keys[p]] \in Seq(Tokens)
    BY <2>1, <2>2, TextFacts
  <2>4. IsNode(LeafHash(keys[p], store[keys[p]]))
    BY <2>3, LeafKind
  <2> QED BY <2>1, <2>2, <2>4
<1>6. AreLeavesOf(leaves, n, keys, store)
  BY <1>1, <1>2, <1>4, <1>5 DEF AreLeavesOf, AreNodes
<1> QED BY <1>6 DEF keys, leaves

\* A store's leaves, tree and root.
LEMMA StoreFacts ==
    ASSUME NEW store \in Store, NEW n \in Nat,
           AreLeavesOf(Leaves(store), n, SortedKeys(store), store)
    PROVE  /\ IsTree(Rounds(Leaves(store)), Height(Leaves(store)))
           /\ Rounds(Leaves(store))[0] = Leaves(store) /\ Len(Leaves(store)) = n
           /\ n = 0 => MerkleRoot(store) = EmptyRoot
           /\ n > 0 => MerkleRoot(store) = Rounds(Leaves(store))[Height(Leaves(store))][1]
<1> DEFINE leaves == Leaves(store)
<1>1. AreNodes(leaves, n)
  BY DEF AreLeavesOf
<1>2. n = 0 => leaves = <<>>
  <2> SUFFICES ASSUME n = 0 PROVE leaves = <<>>
    OBVIOUS
  <2>1. leaves = [p \in 1..0 |-> leaves[p]]
    BY <1>1 DEF AreNodes
  <2> HIDE DEF leaves
  <2> QED BY <2>1
<1> HIDE DEF leaves
<1>3. /\ IsTree(Rounds(leaves), Height(leaves)) /\ Rounds(leaves)[0] = leaves
      /\ Len(leaves) = n
  BY <1>1, TreeFacts
<1>4. n > 0 => leaves # <<>>
  BY <1>3
<1> QED BY <1>2, <1>3, <1>4 DEF leaves, MerkleRoot

\* A root is no leaf of nothing, and every entry under the root of one plain
\* store is in every plain store with that root.
LEMMA RootShowsEntries ==
    ASSUME NEW s \in Store, NEW t \in Store, Plain(s), Plain(t), MerkleRoot(s) = MerkleRoot(t),
           NEW k \in Keys, s[k] # Absent
    PROVE  t[k] = s[k]
<1> DEFINE ls == Leaves(s)
           lt == Leaves(t)
           ks == SortedKeys(s)
           kt == SortedKeys(t)
<1>1. PICK n \in Nat : AreLeavesOf(ls, n, ks, s)
  BY LeavesFacts
<1>2. PICK m \in Nat : AreLeavesOf(lt, m, kt, t)
  BY LeavesFacts
<1> DEFINE u == Rounds(ls)
           w == Rounds(lt)
           G == Height(ls)
           H == Height(lt)
<1>3. /\ IsTree(u, G) /\ u[0] = ls /\ Len(ls) = n
      /\ n > 0 => MerkleRoot(s) = u[G][1]
  BY <1>1, StoreFacts
<1>4. /\ IsTree(w, H) /\ w[0] = lt /\ Len(lt) = m
      /\ m = 0 => MerkleRoot(t) = EmptyRoot
      /\ m > 0 => MerkleRoot(t) = w[H][1]
  BY <1>2, StoreFacts
<1> HIDE DEF u, w, G, H, ls, lt, ks, kt
<1>5. PICK p \in 1..n : ks[p] = k
  BY <1>1 DEF AreLeavesOf, AreKeysOf
<1>6. n > 0 /\ ls[p] = LeafHash(k, s[k]) /\ s[k] \in Values
  BY <1>1, <1>5 DEF AreLeavesOf
<1>7. G \in Nat /\ H \in Nat
  BY <1>3, <1>4 DEF IsTree
\* What a node of each tree is.
<1>8. ASSUME NEW q \in 1..n, NEW l, NEW r, IsNode(l), IsNode(r) PROVE ls[q] # Sha(l, r)
  <2>1. ls[q] = LeafHash(ks[q], s[ks[q]]) /\ ks[q] \in Seq(Tokens) /\ s[ks[q]] \in Seq(Tokens)
    BY <1>1, TextFacts DEF AreLeavesOf
  <2>2. ~HasBar(ks[q]) /\ ~(IsHash(ks[q]) /\ IsHash(s[ks[q]]))
    BY <1>1 DEF AreLeavesOf, AreKeysOf, Plain
  <2> QED BY <2>1, <2>2, <1>8, LeafKind
<1>9. ASSUME NEW q \in 1..m, NEW l, NEW r, IsNode(l), IsNode(r) PROVE lt[q] # Sha(l, r)
  <2>1. lt[q] = LeafHash(kt[q], t[kt[q]]) /\ kt[q] \in Seq(Tokens) /\ t[kt[q]] \in Seq(Tokens)
    BY <1>2, TextFacts DEF AreLeavesOf
  <2>2. ~HasBar(kt[q]) /\ ~(IsHash(kt[q]) /\ IsHash(t[kt[q]]))
    BY <1>2 DEF AreLeavesOf, AreKeysOf, Plain
  <2> QED BY <2>1, <2>2, <1>9, LeafKind
<1>10. u[G][1] # EmptyRoot
  <2>1. CASE G = 0
    <3>1. 1 \in 1..n
      BY <1>6
    <3>2. ls[1] = LeafHash(ks[1], s[ks[1]]) /\ ks[1] \in Seq(Tokens) /\ s[ks[1]] \in Seq(Tokens)
      BY <3>1, <1>1, TextFacts DEF AreLeavesOf
    <3>3. ls[1] # EmptyRoot
      BY <3>2, LeafKind
    <3> QED BY <2>1, <3>3, <1>3
  <2>2. CASE G # 0
    <3>1. G \in 1..G /\ G \in 0..G
      BY <2>2, <1>7
    <3>2. Len(u[G]) \in Nat /\ Len(u[G]) > 0
      BY <3>1, <1>3, <1>6 DEF IsTree
    <3>3. 1 \in 1..Len(u[G])
      BY <3>2
    <3>4. PICK l, r : u[G][1] = Sha(l, r) /\ IsNode(l) /\ IsNode(r)
      BY <3>1, <3>3, <1>3, InnerNodes
    <3> QED BY <3>4, InnerIsNotEmpty
  <2> QED BY <2>1, <2>2
<1>11. m > 0 /\ u[G][1] = w[H][1]
  BY <1>3, <1>4, <1>6, <1>10
<1>12. \A d \in Nat : d <= G /\ d <= H => AllOccur(u[G - d], w[H - d])
  <2>1. Len(u[0]) > 0 /\ Len(w[0]) > 0
    BY <1>3, <1>4, <1>6, <1>11
  <2> QED BY <2>1, <1>3, <1>4, <1>11, LevelsLineUp
\* No leaf of s stands above the leaves of t, and none of t above those of s.
<1>13. ~(G < H)
  <2> SUFFICES ASSUME G < H PROVE FALSE
    OBVIOUS
  <2>1. AllOccur(ls, w[H - G])
    <3>1. G <= G /\ G <= H /\ G - G = 0
      BY <1>7
    <3> QED BY <3>1, <1>3, <1>7, <1>12
  <2>2. H - G \in 1..H
    BY <1>7
  <2>3. PICK q \in 1..Len(w[H - G]) : w[H - G][q] = ls[p]
    BY <2>1, <1>3 DEF AllOccur
  <2>4. PICK l, r : w[H - G][q] = Sha(l, r) /\ IsNode(l) /\ IsNode(r)
    BY <2>2, <1>4, InnerNodes
  <2> QED BY <2>3, <2>4, <1>8
<1>14. ~(H < G)
  <2> SUFFICES ASSUME H < G PROVE FALSE
    OBVIOUS
  <2>1. AllOccur(u[G - H], lt)
    <3>1. H <= G /\ H <= H /\ H - H = 0
      BY <1>7
    <3> QED BY <3>1, <1>4, <1>7, <1>12
  <2>2. G - H \in 1..G /\ G - H \in 0..G
    BY <1>7
  <2>3. Len(u[G - H]) \in Nat /\ Len(u[G - H]) > 0
    BY <2>2, <1>3, <1>6 DEF IsTree
  <2>4. 1 \in 1..Len(u[G - H])
    BY <2>3
  <2>5. PICK q \in 1..m : lt[q] = u[G - H][1]
    BY <2>1, <2>4, <1>4 DEF AllOccur
  <2>6. PICK l, r : u[G - H][1] = Sha(l, r) /\ IsNode(l) /\ IsNode(r)
    BY <2>2, <2>4, <1>3, InnerNodes
  <2> QED BY <2>5, <2>6, <1>9
<1>15. AllOccur(ls, lt)
  <2>1. G = H /\ G <= G /\ G <= H /\ G - G = 0 /\ H - G = 0
    BY <1>7, <1>13, <1>14
  <2> QED BY <2>1, <1>3, <1>4, <1>7, <1>12
<1>16. PICK q \in 1..m : lt[q] = LeafHash(k, s[k])
  BY <1>15, <1>3, <1>4, <1>6 DEF AllOccur
<1>17. lt[q] = LeafHash(kt[q], t[kt[q]]) /\ kt[q] \in Seq(Tokens) /\ t[kt[q]] \in Seq(Tokens)
  BY <1>2, TextFacts DEF AreLeavesOf
<1>18. k \in Seq(Tokens) /\ s[k] \in Seq(Tokens) /\ ~HasBar(k) /\ ~HasBar(kt[q])
  BY <1>2, <1>6, TextFacts DEF AreLeavesOf, AreKeysOf, Plain
<1>19. k = kt[q] /\ s[k] = t[kt[q]]
  <2> DEFINE x == kt[q]
             y == t[kt[q]]
             z == s[k]
  <2>1. LeafHash(k, z) = LeafHash(x, y)
    BY <1>16, <1>17, Zenon
  <2>2. /\ k \in Seq(Tokens) /\ z \in Seq(Tokens)
        /\ x \in Seq(Tokens) /\ y \in Seq(Tokens) /\ ~HasBar(k) /\ ~HasBar(x)
    BY <1>17, <1>18
  <2> HIDE DEF x, y, z
  <2>3. k = x /\ z = y
    BY <2>1, <2>2, LeafInjective
  <2> QED BY <2>3 DEF x, y, z
<1> QED BY <1>19

\* Two plain stores with one root have the same entries: for them comparing
\* roots is comparing stores, and StateRoot stands for merkle_root.  Keys and
\* values are any strings, with separators and with the text of hashes; a
\* store is plain when no key holds a separator and no entry reads as an
\* inner node (merkle.rs, 11 and 33).
THEOREM RootsAreInjective ==
    ASSUME NEW s \in Store, NEW t \in Store, Plain(s), Plain(t)
    PROVE  MerkleRoot(s) = MerkleRoot(t) <=> StateRoot(s) = StateRoot(t)
<1>1. ASSUME MerkleRoot(s) = MerkleRoot(t) PROVE s = t
  <2>1. ASSUME NEW k \in Keys PROVE s[k] = t[k]
    <3>1. s[k] # Absent => t[k] = s[k]
      BY <1>1, RootShowsEntries
    <3>2. t[k] # Absent => s[k] = t[k]
      BY <1>1, RootShowsEntries
    <3> QED BY <3>1, <3>2
  <2> QED BY <2>1 DEF Store
<1>2. ASSUME StateRoot(s) = StateRoot(t) PROVE s = t
  BY <1>2, RootInjective
<1> QED BY <1>1, <1>2

\* Transactions make stores of stores.
LEMMA EntriesAreAStore == MerkleSpec => [](entries \in Store)
<1>1. MerkleInit => entries \in Store
  BY DEF MerkleInit, EmptyStore, Store
<1>2. entries \in Store /\ [ApplyTx]_entries => (entries \in Store)'
  BY ApplyType DEF ApplyTx
<1> QED BY <1>1, <1>2, PTL DEF MerkleSpec

\* merkle_root is different for any two plain stores a node can reach,
\* whatever the number of entries (merkle.rs, 46-56).
THEOREM RootsTellStoresApart == MerkleSpec => []RootDeterminesEntries
<1>1. entries \in Store => RootDeterminesEntries
  <2> SUFFICES ASSUME entries \in Store, NEW s \in Store, Plain(s), Plain(entries),
                      MerkleRoot(s) = MerkleRoot(entries)
               PROVE  s = entries
    BY DEF RootDeterminesEntries, RootOf, PlainStores
  <2>1. StateRoot(s) = StateRoot(entries)
    BY RootsAreInjective
  <2> QED BY <2>1, RootInjective
<1> QED BY <1>1, EntriesAreAStore, PTL

----------------------------------------------------------------------------
(* Proofs of inclusion.                                                    *)

\* What verify_proof goes through.
IsRun(cur, leaf, siblings, n) ==
    /\ cur[0] = leaf
    /\ \A h \in 0..n - 1 :
          /\ siblings[h + 1].right => cur[h + 1] = Sha(cur[h], siblings[h + 1].hash)
          /\ ~siblings[h + 1].right => cur[h + 1] = Sha(siblings[h + 1].hash, cur[h])

\* verify_proof compares the end of such a run with the root.
LEMMA VerifyRuns ==
    ASSUME NEW n \in Nat, NEW siblings, Len(siblings) = n, NEW leaf, NEW root
    PROVE  \E cur : /\ IsRun(cur, leaf, siblings, n)
                    /\ VerifyProof(leaf, siblings, root) <=> cur[n] = root
<1> DEFINE Step(i, y) == IF siblings[i].right THEN Sha(y, siblings[i].hash)
                         ELSE Sha(siblings[i].hash, y)
           D(h, k) == [i \in 0..k |-> IF i = 0 THEN leaf ELSE Step(i, h[i - 1])]
           P == {k \in Nat : \E f : f = D(f, k)}
<1>1. \A k \in Nat : k \in P
  <2> HIDE DEF Step
  <2>1. 0 \in P
    <3> DEFINE e == [i \in 0..0 |-> leaf]
    <3>1. e = D(e, 0)
      OBVIOUS
    <3> QED BY <3>1
  <2>2. ASSUME NEW k \in Nat, k \in P PROVE k + 1 \in P
    <3>1. PICK f : f = D(f, k)
      BY <2>2
    <3> DEFINE e == [i \in 0..k + 1 |-> IF i = k + 1 THEN Step(k + 1, f[k]) ELSE f[i]]
    <3>2. ASSUME NEW i \in 0..k + 1 PROVE e[i] = IF i = 0 THEN leaf ELSE Step(i, e[i - 1])
      <4>1. CASE i = k + 1
        <5>1. e[i] = Step(k + 1, f[k]) /\ e[i - 1] = f[k] /\ i # 0
          BY <4>1
        <5> QED BY <5>1, <4>1
      <4>2. CASE i # k + 1
        <5>1. i \in 0..k /\ e[i] = f[i] /\ f[i] = IF i = 0 THEN leaf ELSE Step(i, f[i - 1])
          BY <4>2, <3>1
        <5>2. i # 0 => e[i - 1] = f[i - 1]
          BY <4>2
        <5> HIDE DEF e
        <5> QED BY <5>1, <5>2
      <4> QED BY <4>1, <4>2
    <3>3. e = [i \in 0..k + 1 |-> e[i]]
      OBVIOUS
    <3> HIDE DEF e
    <3>4. e = D(e, k + 1)
      BY <3>2, <3>3
    <3> QED BY <3>4
  <2> HIDE DEF P
  <2> QED BY <2>1, <2>2, NatSetInduction
<1> DEFINE v == CHOOSE h : h = D(h, Len(siblings))
<1>2. v = D(v, Len(siblings))
  <2>1. \E h : h = D(h, Len(siblings))
    BY <1>1
  <2> HIDE DEF D
  <2> QED BY <2>1, Zenon
<1>3. VerifyProof(leaf, siblings, root) <=> v[Len(siblings)] = root
  BY DEF VerifyProof
<1> HIDE DEF v
<1>4. v[0] = leaf /\ \A i \in 1..n : v[i] = Step(i, v[i - 1])
  <2> HIDE DEF Step
  <2> QED BY <1>2
<1>5. ASSUME NEW h \in 0..n - 1
      PROVE  /\ siblings[h + 1].right => v[h + 1] = Sha(v[h], siblings[h + 1].hash)
             /\ ~siblings[h + 1].right => v[h + 1] = Sha(siblings[h + 1].hash, v[h])
  <2>1. h + 1 \in 1..n /\ (h + 1) - 1 = h
    OBVIOUS
  <2>2. v[h + 1] = Step(h + 1, v[h])
    <3> HIDE DEF Step
    <3> QED BY <1>4, <2>1
  <2> QED BY <2>2
<1>6. IsRun(v, leaf, siblings, n)
  BY <1>4, <1>5 DEF IsRun
<1> QED BY <1>3, <1>6

\* Two runs that end alike began alike.
LEMMA RunsAreInjective ==
    ASSUME NEW n \in Nat, NEW siblings, NEW a, NEW b, NEW x, NEW y,
           IsRun(a, x, siblings, n), IsRun(b, y, siblings, n), IsNode(x), IsNode(y),
           \A h \in 1..n : IsNode(siblings[h].hash), a[n] = b[n]
    PROVE  x = y
<1> DEFINE U == {h \in Nat : h <= n => IsNode(a[h]) /\ IsNode(b[h]) /\ (a[h] = b[h] => x = y)}
<1>1. 0 \in U
  BY DEF IsRun
<1>2. ASSUME NEW h \in Nat, h \in U PROVE h + 1 \in U
  <2> SUFFICES ASSUME h + 1 <= n
               PROVE  /\ IsNode(a[h + 1]) /\ IsNode(b[h + 1])
                      /\ a[h + 1] = b[h + 1] => x = y
    OBVIOUS
  <2>1. h \in 0..n - 1 /\ h + 1 \in 1..n /\ h <= n
    OBVIOUS
  <2>2. IsNode(a[h]) /\ IsNode(b[h]) /\ (a[h] = b[h] => x = y) /\ IsNode(siblings[h + 1].hash)
    BY <1>2, <2>1
  <2> DEFINE s == siblings[h + 1].hash
  <2>3. CASE siblings[h + 1].right
    <3>1. a[h + 1] = Sha(a[h], s) /\ b[h + 1] = Sha(b[h], s)
      BY <2>1, <2>3 DEF IsRun
    <3> HIDE DEF s
    <3>2. IsNode(s)
      BY <2>2 DEF s
    <3>3. Sha(a[h], s) = Sha(b[h], s) => a[h] = b[h]
      BY <2>2, <3>2, ShaInjective
    <3> QED BY <3>1, <3>2, <3>3, <2>2, ShaOfNodes
  <2>4. CASE ~siblings[h + 1].right
    <3>1. a[h + 1] = Sha(s, a[h]) /\ b[h + 1] = Sha(s, b[h])
      BY <2>1, <2>4 DEF IsRun
    <3> HIDE DEF s
    <3>2. IsNode(s)
      BY <2>2 DEF s
    <3>3. Sha(s, a[h]) = Sha(s, b[h]) => a[h] = b[h]
      BY <2>2, <3>2, ShaInjective
    <3> QED BY <3>1, <3>2, <3>3, <2>2, ShaOfNodes
  <2> QED BY <2>3, <2>4
<1> HIDE DEF U
<1>3. n \in U
  BY <1>1, <1>2, NatSetInduction
<1> QED BY <1>3 DEF U

\* The place of a key's node at every level: its place among the keys, halved
\* at each.
IsPath(i, n, keys, k) ==
    /\ i[0] \in 0..n - 1 /\ keys[i[0] + 1] = k
    /\ \A h \in 0..n - 1 : i[h + 1] = i[h] \div 2

\* Path is such a path, for a key that is present.
LEMMA PathFacts ==
    ASSUME NEW store \in Store, NEW k \in Keys, store[k] # Absent,
           NEW n \in Nat, AreKeysOf(SortedKeys(store), store), n = Len(SortedKeys(store))
    PROVE  IsPath(Path(store, k), n, SortedKeys(store), k)
<1> DEFINE keys == SortedKeys(store)
           idx == CHOOSE p \in DOMAIN keys : keys[p] = k
<1>0. keys \in Seq(Keys) /\ DOMAIN keys = 1..n
  BY DEF AreKeysOf
<1>i. idx \in 1..n /\ keys[idx] = k
  <2>1. \E p \in DOMAIN keys : keys[p] = k
    BY <1>0 DEF AreKeysOf
  <2> HIDE DEF keys
  <2> QED BY <2>1, <1>0, Zenon
<1> HIDE DEF idx
<1> DEFINE D(h, m) == [i \in 0..m |-> IF i = 0 THEN idx - 1 ELSE h[i - 1] \div 2]
           P == {m \in Nat : \E f : f = D(f, m)}
<1>1. \A m \in Nat : m \in P
  <2>1. 0 \in P
    <3> DEFINE e == [i \in 0..0 |-> idx - 1]
    <3>1. e = D(e, 0)
      OBVIOUS
    <3> QED BY <3>1
  <2>2. ASSUME NEW m \in Nat, m \in P PROVE m + 1 \in P
    <3>1. PICK f : f = D(f, m)
      BY <2>2
    <3> DEFINE e == [i \in 0..m + 1 |-> IF i = m + 1 THEN f[m] \div 2 ELSE f[i]]
    <3>2. ASSUME NEW i \in 0..m + 1 PROVE e[i] = IF i = 0 THEN idx - 1 ELSE e[i - 1] \div 2
      <4>1. CASE i = m + 1
        <5>1. e[i] = f[m] \div 2 /\ e[i - 1] = f[m] /\ i # 0
          BY <4>1
        <5> QED BY <5>1, <4>1
      <4>2. CASE i # m + 1
        <5>1. i \in 0..m /\ e[i] = f[i] /\ f[i] = IF i = 0 THEN idx - 1 ELSE f[i - 1] \div 2
          BY <4>2, <3>1
        <5>2. i # 0 => e[i - 1] = f[i - 1]
          BY <4>2
        <5> HIDE DEF e
        <5> QED BY <5>1, <5>2
      <4> QED BY <4>1, <4>2
    <3>3. e = [i \in 0..m + 1 |-> e[i]]
      OBVIOUS
    <3> HIDE DEF e
    <3>4. e = D(e, m + 1)
      BY <3>2, <3>3
    <3> QED BY <3>4
  <2> HIDE DEF P
  <2> QED BY <2>1, <2>2, NatSetInduction
<1> DEFINE v == Path(store, k)
<1>2. v = D(v, n)
  <2>1. \E h : h = D(h, Len(keys))
    BY <1>1
  <2>2. v = CHOOSE h : h = D(h, Len(keys))
    BY DEF Path, idx
  <2> HIDE DEF v, D, keys
  <2>3. v = D(v, Len(keys))
    BY <2>1, <2>2, Zenon
  <2> QED BY <2>3 DEF keys
<1> HIDE DEF v, keys
<1>3. v[0] = idx - 1
  BY <1>2
<1>4. ASSUME NEW h \in 0..n - 1 PROVE v[h + 1] = v[h] \div 2
  <2>1. h + 1 \in 0..n /\ h + 1 # 0 /\ (h + 1) - 1 = h
    OBVIOUS
  <2> QED BY <2>1, <1>2
<1>5. v[0] \in 0..n - 1 /\ v[0] + 1 = idx
  BY <1>i, <1>3
<1>6. IsPath(v, n, keys, k)
  BY <1>i, <1>4, <1>5 DEF IsPath
<1> QED BY <1>6 DEF v, keys

\* A node and its sibling are hashed to the node above them, in the order
\* the sibling says.
LEMMA SiblingFacts ==
    ASSUME NEW n \in Nat, NEW level, NEW above, AreNodes(level, n), IsRound(level, n, above),
           NEW i \in 0..n - 1
    PROVE  /\ IsNode(Sibling(level, i).hash)
           /\ i \div 2 \in 0..((n + 1) \div 2) - 1
           /\ Sibling(level, i).right
                 => above[i \div 2 + 1] = Sha(level[i + 1], Sibling(level, i).hash)
           /\ ~Sibling(level, i).right
                 => above[i \div 2 + 1] = Sha(Sibling(level, i).hash, level[i + 1])
<1>l. Len(level) = n
  BY LevelLength DEF AreNodes
<1>1. PICK p \in 1..((n + 1) \div 2) :
          p = i \div 2 + 1 /\ (i % 2 = 0 => i + 1 = 2 * p - 1) /\ (i % 2 # 0 => i + 1 = 2 * p)
  <2>1. i \div 2 + 1 \in 1..((n + 1) \div 2)
    OBVIOUS
  <2>2. (i % 2 = 0 => i + 1 = 2 * (i \div 2 + 1) - 1) /\ (i % 2 # 0 => i + 1 = 2 * (i \div 2 + 1))
    OBVIOUS
  <2> QED BY <2>1, <2>2
<1>2. i \div 2 \in 0..((n + 1) \div 2) - 1
  OBVIOUS
<1>p. p \in Nat
  BY Halves
<1>3. /\ 2 * p - 1 \in 1..n
      /\ 2 * p <= n => 2 * p \in 1..n /\ above[p] = Sha(level[2 * p - 1], level[2 * p])
      /\ ~(2 * p <= n) => above[p] = Sha(level[2 * p - 1], level[2 * p - 1])
  BY DEF IsRound
<1> DEFINE s == Sibling(level, i)
<1>4. CASE i % 2 # 0
  <2>1. s.hash = level[i] /\ s.right = FALSE
    BY <1>4 DEF Sibling
  <2>2. i + 1 = 2 * p /\ i = 2 * p - 1 /\ 2 * p <= n
    BY <1>1, <1>4, <1>p
  <2>3. IsNode(level[i])
    BY <2>2, <1>3 DEF AreNodes
  <2>4. above[p] = Sha(s.hash, level[i + 1])
    BY <2>1, <2>2, <1>3
  <2> HIDE DEF s
  <2>5. IsNode(s.hash) /\ above[i \div 2 + 1] = Sha(s.hash, level[i + 1])
    BY <2>1, <2>3, <2>4, <1>1
  <2> QED BY <2>1, <2>5, <1>2 DEF s
<1>5. CASE i % 2 = 0
  <2>0. i + 1 = 2 * p - 1 /\ i + 2 = 2 * p
    BY <1>1, <1>5, <1>p
  <2>1. s.right = TRUE /\ s.hash = IF i + 1 < n THEN level[i + 2] ELSE level[i + 1]
    BY <1>5, <1>l DEF Sibling
  <2> HIDE DEF s
  <2>2. CASE i + 1 < n
    <3>1. 2 * p <= n /\ s.hash = level[2 * p] /\ level[i + 1] = level[2 * p - 1]
      BY <2>0, <2>1, <2>2, <1>p
    <3>2. IsNode(s.hash)
      BY <3>1, <1>3 DEF AreNodes
    <3>3. above[i \div 2 + 1] = Sha(level[i + 1], s.hash)
      BY <3>1, <1>1, <1>3
    <3> QED BY <3>2, <3>3, <2>1, <1>2 DEF s
  <2>3. CASE ~(i + 1 < n)
    <3>1. ~(2 * p <= n) /\ s.hash = level[2 * p - 1] /\ level[i + 1] = level[2 * p - 1]
      BY <2>0, <2>1, <2>3, <1>p
    <3>2. IsNode(s.hash)
      BY <3>1, <1>3 DEF AreNodes
    <3>3. above[i \div 2 + 1] = Sha(level[i + 1], s.hash)
      BY <3>1, <1>1, <1>3
    <3> QED BY <3>2, <3>3, <2>1, <1>2 DEF s
  <2> QED BY <2>2, <2>3
<1> QED BY <1>4, <1>5

\* The siblings lead from the key's leaf to the root, through its node at
\* every level.
LEMMA ProveFacts ==
    ASSUME NEW store \in Store, NEW k \in Keys, store[k] # Absent
    PROVE  \E H \in Nat :
              /\ Len(Prove(store, k)) = H
              /\ \A h \in 1..H : IsNode(Prove(store, k)[h].hash)
              /\ \A cur : IsRun(cur, LeafHash(k, store[k]), Prove(store, k), H)
                             => cur[H] = MerkleRoot(store)
<1> DEFINE leaves == Leaves(store)
           keys == SortedKeys(store)
           v == Rounds(leaves)
           H == Height(leaves)
           i == Path(store, k)
           siblings == Prove(store, k)
<1>1. PICK n \in Nat : AreLeavesOf(leaves, n, keys, store)
  BY LeavesFacts
<1>2. /\ IsTree(v, H) /\ v[0] = leaves /\ Len(leaves) = n
      /\ n > 0 => MerkleRoot(store) = v[H][1]
  BY <1>1, StoreFacts
<1>3. H \in 0..n
  <2>1. AreNodes(leaves, n)
    BY <1>1 DEF AreLeavesOf
  <2> QED BY <2>1, TreeFacts
<1>4. IsPath(i, n, keys, k)
  <2>1. AreKeysOf(keys, store) /\ n = Len(keys)
    BY <1>1 DEF AreLeavesOf
  <2> QED BY <2>1, PathFacts
<1>5. siblings = [h \in 1..H |-> Sibling(v[h - 1], i[h - 1])]
  BY DEF Prove
<1> HIDE DEF leaves, v, H, i, siblings, keys
<1>6. Len(siblings) = H /\ \A h \in 0..H - 1 : siblings[h + 1] = Sibling(v[h], i[h])
  <2>1. H \in Nat
    BY <1>3
  <2>2. Len(siblings) = H
    BY <2>1, <1>5
  <2>3. ASSUME NEW h \in 0..H - 1 PROVE siblings[h + 1] = Sibling(v[h], i[h])
    <3>1. h + 1 \in 1..H /\ (h + 1) - 1 = h
      BY <2>1
    <3> QED BY <3>1, <1>5
  <2> QED BY <2>2, <2>3
<1>7. leaves[i[0] + 1] = LeafHash(k, store[k]) /\ i[0] \in 0..Len(v[0]) - 1
  <2>1. i[0] \in 0..n - 1 /\ keys[i[0] + 1] = k
    BY <1>4 DEF IsPath
  <2>2. i[0] + 1 \in 1..n
    BY <2>1
  <2> QED BY <2>1, <2>2, <1>1, <1>2 DEF AreLeavesOf
\* One level up.
<1>8. ASSUME NEW h \in 0..H - 1, i[h] \in 0..Len(v[h]) - 1
      PROVE  /\ IsNode(siblings[h + 1].hash)
             /\ i[h + 1] \in 0..Len(v[h + 1]) - 1
             /\ siblings[h + 1].right
                   => v[h + 1][i[h + 1] + 1] = Sha(v[h][i[h] + 1], siblings[h + 1].hash)
             /\ ~siblings[h + 1].right
                   => v[h + 1][i[h + 1] + 1] = Sha(siblings[h + 1].hash, v[h][i[h] + 1])
  <2>1. PICK m \in Nat : /\ m = Len(v[h]) /\ AreNodes(v[h], m) /\ IsRound(v[h], m, v[h + 1])
                         /\ Len(v[h + 1]) = (m + 1) \div 2
    <3>1. h \in 0..H
      BY <1>3
    <3> QED BY <3>1, <1>2 DEF IsTree
  <2>2. siblings[h + 1] = Sibling(v[h], i[h])
    BY <1>6
  <2>3. i[h + 1] = i[h] \div 2
    <3>1. h \in 0..n - 1
      BY <1>3
    <3> QED BY <3>1, <1>4 DEF IsPath
  <2>4. i[h] \in 0..m - 1
    BY <1>8, <2>1
  <2>5. /\ IsNode(Sibling(v[h], i[h]).hash)
        /\ i[h] \div 2 \in 0..((m + 1) \div 2) - 1
        /\ Sibling(v[h], i[h]).right
              => v[h + 1][i[h] \div 2 + 1] = Sha(v[h][i[h] + 1], Sibling(v[h], i[h]).hash)
        /\ ~Sibling(v[h], i[h]).right
              => v[h + 1][i[h] \div 2 + 1] = Sha(Sibling(v[h], i[h]).hash, v[h][i[h] + 1])
    <3> DEFINE level == v[h]
               above == v[h + 1]
               p == i[h]
    <3>1. AreNodes(level, m) /\ IsRound(level, m, above) /\ p \in 0..m - 1
      BY <2>1, <2>4
    <3> HIDE DEF level, above, p
    <3>2. /\ IsNode(Sibling(level, p).hash)
          /\ p \div 2 \in 0..((m + 1) \div 2) - 1
          /\ Sibling(level, p).right
                => above[p \div 2 + 1] = Sha(level[p + 1], Sibling(level, p).hash)
          /\ ~Sibling(level, p).right
                => above[p \div 2 + 1] = Sha(Sibling(level, p).hash, level[p + 1])
      BY <3>1, SiblingFacts
    <3> QED BY <3>2 DEF level, above, p
  <2> QED BY <2>1, <2>2, <2>3, <2>5
<1> DEFINE U == {h \in Nat : h <= H => i[h] \in 0..Len(v[h]) - 1}
<1>9. \A h \in Nat : h \in U
  <2>1. 0 \in U
    BY <1>7
  <2>2. ASSUME NEW h \in Nat, h \in U PROVE h + 1 \in U
    <3> SUFFICES ASSUME h + 1 <= H PROVE i[h + 1] \in 0..Len(v[h + 1]) - 1
      OBVIOUS
    <3>1. h \in 0..H - 1 /\ h <= H
      BY <1>3
    <3> QED BY <3>1, <2>2, <1>8
  <2> HIDE DEF U
  <2> QED BY <2>1, <2>2, NatSetInduction
<1>10. \A h \in 0..H - 1 : i[h] \in 0..Len(v[h]) - 1
  BY <1>3, <1>9
<1>11. \A h \in 1..H : IsNode(siblings[h].hash)
  <2> SUFFICES ASSUME NEW h \in 1..H PROVE IsNode(siblings[h].hash)
    OBVIOUS
  <2>1. h - 1 \in 0..H - 1 /\ (h - 1) + 1 = h
    BY <1>3
  <2> QED BY <2>1, <1>8, <1>10
<1>12. ASSUME NEW cur, IsRun(cur, LeafHash(k, store[k]), siblings, H)
       PROVE  cur[H] = MerkleRoot(store)
  <2> DEFINE W == {h \in Nat : h <= H => cur[h] = v[h][i[h] + 1]}
  <2>1. 0 \in W
    BY <1>2, <1>7, <1>12 DEF IsRun
  <2>2. ASSUME NEW h \in Nat, h \in W PROVE h + 1 \in W
    <3> SUFFICES ASSUME h + 1 <= H PROVE cur[h + 1] = v[h + 1][i[h + 1] + 1]
      OBVIOUS
    <3>1. h \in 0..H - 1 /\ h <= H
      BY <1>3
    <3>2. cur[h] = v[h][i[h] + 1]
      BY <2>2, <3>1
    <3>3. /\ siblings[h + 1].right => cur[h + 1] = Sha(cur[h], siblings[h + 1].hash)
          /\ ~siblings[h + 1].right => cur[h + 1] = Sha(siblings[h + 1].hash, cur[h])
      BY <3>1, <1>12 DEF IsRun
    <3>4. /\ siblings[h + 1].right
                => v[h + 1][i[h + 1] + 1] = Sha(v[h][i[h] + 1], siblings[h + 1].hash)
          /\ ~siblings[h + 1].right
                => v[h + 1][i[h + 1] + 1] = Sha(siblings[h + 1].hash, v[h][i[h] + 1])
      BY <3>1, <1>8, <1>10
    <3> QED BY <3>2, <3>3, <3>4
  <2> HIDE DEF W
  <2>3. \A h \in Nat : h \in W
    BY <2>1, <2>2, NatSetInduction
  <2>4. cur[H] = v[H][i[H] + 1]
    <3>1. H \in W /\ H <= H
      BY <2>3, <1>3
    <3> QED BY <3>1 DEF W
  <2>5. i[H] \in 0..Len(v[H]) - 1
    <3>1. H \in U /\ H <= H
      BY <1>3, <1>9
    <3> QED BY <3>1
  <2>6. Len(v[H]) \in Nat /\ Len(v[H]) <= 1
    <3>1. H \in 0..H
      BY <1>3
    <3> QED BY <3>1, <1>2 DEF IsTree
  <2>7. i[H] + 1 = 1
    BY <2>5, <2>6
  <2>8. n > 0
    BY <1>7, <1>2
  <2> QED BY <2>4, <2>7, <2>8, <1>2
<1>13. H \in Nat
  BY <1>3
<1> QED BY <1>6, <1>11, <1>12, <1>13 DEF siblings

\* A proof that prove makes verifies for the entry it was made for, and for
\* no leaf of another text.
LEMMA ProofVerifies ==
    ASSUME NEW store \in Store, NEW k \in Keys, store[k] # Absent,
           NEW j \in Keys, NEW w \in Values
    PROVE  LET accepted == VerifyProof(LeafHash(j, w), Prove(store, k), MerkleRoot(store))
           IN  /\ accepted <=> Joined(j, w) = Joined(k, store[k])
               /\ ~HasBar(j) /\ ~HasBar(k) => (accepted <=> j = k /\ w = store[k])
<1> DEFINE siblings == Prove(store, k)
           root == MerkleRoot(store)
           x == LeafHash(k, store[k])
           y == LeafHash(j, w)
<1>1. PICK H \in Nat :
          /\ Len(siblings) = H
          /\ \A h \in 1..H : IsNode(siblings[h].hash)
          /\ \A cur : IsRun(cur, x, siblings, H) => cur[H] = root
  BY ProveFacts
<1>t. /\ k \in Seq(Tokens) /\ store[k] \in Seq(Tokens)
      /\ j \in Seq(Tokens) /\ w \in Seq(Tokens)
  <2>1. store[k] \in Values
    BY DEF Store
  <2> QED BY <2>1, TextFacts
<1>n. IsNode(x) /\ IsNode(y)
  <2> DEFINE u == store[k]
  <2>1. u \in Seq(Tokens)
    BY <1>t
  <2> HIDE DEF u
  <2>2. IsNode(LeafHash(k, u)) /\ IsNode(LeafHash(j, w))
    BY <2>1, <1>t, LeafKind
  <2> QED BY <2>2 DEF u
<1>i. ~HasBar(j) /\ ~HasBar(k) => (x = y <=> j = k /\ w = store[k])
  <2> DEFINE u == store[k]
  <2>1. u \in Seq(Tokens)
    BY <1>t
  <2> HIDE DEF u
  <2>2. ~HasBar(j) /\ ~HasBar(k) /\ LeafHash(k, u) = LeafHash(j, w) => k = j /\ u = w
    BY <2>1, <1>t, LeafInjective
  <2> QED BY <2>2 DEF u
<1> DEFINE SameText == Joined(j, w) = Joined(k, store[k])
           Same == j = k /\ w = store[k]
           NoBars == ~HasBar(j) /\ ~HasBar(k)
<1>e. SameText <=> x = y
  <2>1. LeafHash(j, w) = LeafHash(k, store[k]) <=> Joined(j, w) = Joined(k, store[k])
    BY LeafText
  <2> QED BY <2>1
<1>f. NoBars => (x = y <=> Same)
  BY <1>i
<1> HIDE DEF x, y, root, siblings, Same, SameText, NoBars
<1>2. PICK a : IsRun(a, x, siblings, H) /\ (VerifyProof(x, siblings, root) <=> a[H] = root)
  BY <1>1, VerifyRuns
<1>3. PICK b : IsRun(b, y, siblings, H) /\ (VerifyProof(y, siblings, root) <=> b[H] = root)
  BY <1>1, VerifyRuns
<1>4. a[H] = root
  BY <1>1, <1>2
<1>5. b[H] = root => x = y
  <2>1. ASSUME a[H] = b[H] PROVE x = y
    BY <2>1, <1>1, <1>2, <1>3, <1>n, RunsAreInjective
  <2> QED BY <2>1, <1>4
<1>6. x = y => VerifyProof(y, siblings, root)
  BY <1>2, <1>4
<1>7. VerifyProof(y, siblings, root) <=> x = y
  BY <1>3, <1>5, <1>6
<1>8. /\ VerifyProof(y, siblings, root) <=> SameText
      /\ NoBars => (VerifyProof(y, siblings, root) <=> Same)
  BY <1>7, <1>e, <1>f
<1> QED BY <1>8 DEF y, siblings, root, Same, SameText, NoBars

\* verify_proof accepts what prove returns, for the text of that entry only,
\* at every tree shape (merkle.rs, 58-97).
THEOREM ProofsVerifyExactly == MerkleSpec => []ProofsAreExact
<1>1. entries \in Store => ProofsAreExact
  BY ProofVerifies DEF ProofsAreExact, Present
<1> QED BY <1>1, EntriesAreAStore, PTL
=============================================================================
