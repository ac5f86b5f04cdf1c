------------------------ MODULE WriteAheadLogLemmas -------------------------
(***************************************************************************)
(* Facts about recovery from a log and a snapshot file, for every log and  *)
(* every file; cited by the proofs about PersistentState and about the     *)
(* sync daemon.                                                            *)
(***************************************************************************)
EXTENDS WriteAheadLog, StateStoreLemmas

\* A store with the root of the last marker, and the ops after the marker,
\* give what all ops give from genesis.
MarkerSound(ops) ==
    MarkersIn(ops) # {} =>
        /\ LastMarker(ops) \in MarkersIn(ops)
        /\ \A i \in MarkersIn(ops) : i <= LastMarker(ops)
        /\ \A s \in Store :
              StateRoot(s) = ops[LastMarker(ops)].root =>
                  ApplyFrom(s, ops, LastMarker(ops)) = ApplyFrom(EmptyStore, ops, 0)

\* A WalOp is a transaction or a marker, and its type tells which.
LEMMA WalOpKinds ==
    ASSUME NEW op \in WalOp
    PROVE  /\ op.type = "Checkpoint" => op \in Markers /\ op.type \notin {"Set", "Remove"}
           /\ op.type # "Checkpoint" => op \in Tx /\ op.type \in {"Set", "Remove"}
BY DEF WalOp, Tx, Markers, Marker

\* Soundness of the last marker under one more op: a transaction acts alike
\* on both recovery paths, and a marker starts the snapshot path anew
\* (wal.rs, 253-280).
LEMMA MarkerSoundAppend ==
    ASSUME NEW ops \in Seq(WalOp), NEW op \in WalOp, MarkerSound(ops),
           op.type = "Checkpoint" =>
               op.root = StateRoot(ApplyFrom(EmptyStore, ops, 0))
    PROVE  MarkerSound(Append(ops, op))
<1> DEFINE longer == Append(ops, op)
           n == Len(ops)
           whole == ApplyFrom(EmptyStore, ops, 0)
<1>0. /\ longer \in Seq(WalOp) /\ Len(longer) = n + 1 /\ longer[n + 1] = op
      /\ \A i \in 1..n : longer[i] = ops[i]
      /\ DOMAIN longer = 1..(n + 1) /\ DOMAIN ops = 1..n /\ n \in Nat
  OBVIOUS
<1>1. EmptyStore \in Store
  BY DEF EmptyStore, Store
<1>2. \A o \in WalOp : o.type \in {"Set", "Remove"} => o \in Tx
  BY WalOpKinds
<1>3. whole \in Store
  BY <1>1, <1>2, ApplyFromType
<1>4. CASE op.type = "Checkpoint"
  <2>0. op.type \notin {"Set", "Remove"}
    BY <1>4
  <2>1. n + 1 \in MarkersIn(longer) /\ \A i \in MarkersIn(longer) : i <= n + 1
    BY <1>0, <1>4 DEF MarkersIn
  <2>2. LastMarker(longer) = n + 1
    <3>1. ASSUME NEW m \in MarkersIn(longer), \A i \in MarkersIn(longer) : i <= m
          PROVE  m = n + 1
      BY <1>0, <2>1, <3>1 DEF MarkersIn
    <3> QED BY <2>1, <3>1 DEF LastMarker
  <2>3. ApplyFrom(EmptyStore, longer, 0) = whole
    BY <1>1, <1>0, <2>0, ApplyFromSkip
  <2>4. ASSUME NEW s \in Store, StateRoot(s) = op.root
        PROVE  ApplyFrom(s, longer, n + 1) = whole
    <3>1. s = whole
      BY <1>3, <1>4, <2>4, RootInjective
    <3>2. ApplyFrom(s, longer, Len(longer)) = s
      BY <1>0, ApplyFromNothing
    <3> QED BY <1>0, <3>1, <3>2
  <2> HIDE DEF longer, whole, n
  <2>5. MarkerSound(longer)
    BY <1>0, <2>1, <2>2, <2>3, <2>4 DEF MarkerSound
  <2> QED BY <2>5 DEF longer
<1>5. CASE op.type # "Checkpoint"
  <2>0. op \in Tx
    BY <1>5, WalOpKinds
  <2>1. MarkersIn(longer) = MarkersIn(ops)
    BY <1>0, <1>5 DEF MarkersIn
  <2>2. LastMarker(longer) = LastMarker(ops)
    BY <2>1 DEF LastMarker
  <2>3. ApplyFrom(EmptyStore, longer, 0) = Apply(whole, op)
    BY <1>0, <1>1, <2>0, ApplyFromAppend
  <2>4. ASSUME MarkersIn(longer) # {}
        PROVE  /\ LastMarker(ops) \in 1..n
               /\ longer[LastMarker(longer)] = ops[LastMarker(ops)]
    <3>1. LastMarker(ops) \in MarkersIn(ops)
      BY <2>1, <2>4 DEF MarkerSound
    <3>2. LastMarker(ops) \in 1..n
      BY <1>0, <3>1 DEF MarkersIn
    <3> QED BY <1>0, <2>2, <3>2
  <2>5. ASSUME MarkersIn(longer) # {}, NEW s \in Store,
               StateRoot(s) = longer[LastMarker(longer)].root
        PROVE  ApplyFrom(s, longer, LastMarker(longer))
                 = ApplyFrom(EmptyStore, longer, 0)
    <3>1. ApplyFrom(s, ops, LastMarker(ops)) = whole
      BY <2>1, <2>4, <2>5 DEF MarkerSound
    <3>2. ApplyFrom(s, longer, LastMarker(ops))
            = Apply(ApplyFrom(s, ops, LastMarker(ops)), op)
      <4>1. LastMarker(ops) \in 0..Len(ops)
        BY <1>0, <2>4, <2>5
      <4> QED BY <4>1, <2>0, ApplyFromAppend
    <3> QED BY <2>2, <2>3, <3>1, <3>2
  <2> HIDE DEF longer, whole, n
  <2>6. MarkerSound(longer)
    BY <2>1, <2>2, <2>5 DEF MarkerSound
  <2> QED BY <2>6 DEF longer
<1> QED BY <1>4, <1>5

\* With a sound last marker the snapshot path recovers what the genesis
\* path recovers, whatever snapshot file is found (wal.rs, 261-280).
LEMMA RecoverSound ==
    ASSUME NEW ops, NEW f \in SnapshotFile \cup {NoFile, Truncated},
           MarkerSound(ops)
    PROVE  RecoverFrom(ops, f) = ApplyFrom(EmptyStore, ops, 0)
<1>1. CASE SnapshotUsable(ops, f)
  <2>1. f.entries \in Store
    BY <1>1 DEF SnapshotUsable, Loads, SnapshotFile
  <2> QED BY <1>1, <2>1 DEF RecoverFrom, SnapshotUsable, MarkerSound
<1>2. CASE ~SnapshotUsable(ops, f)
  BY <1>2 DEF RecoverFrom
<1> QED BY <1>1, <1>2
=============================================================================
