-------------------------- MODULE SyncDaemonProofs --------------------------
(***************************************************************************)
(* The sync daemon for every set of keys and values, every list of         *)
(* deterministic transactions and any number of starts, kills, failing     *)
(* writes, timeouts and strangers: what an ack promises, and what either   *)
(* process recovers.                                                       *)
(***************************************************************************)
EXTENDS MCSync, WriteAheadLogLemmas, FiniteSetTheorems

-----------------------------------------------------------------------------
(* What the source writes.                                                 *)

Txs(n) == SubSeq(DeterministicTxs, 1, n)

\* The store after the first n transactions.
Prefix(n) == ApplyAll(EmptyStore, Txs(n))

LEMMA TxsFacts ==
    ASSUME NEW n \in 0..Len(DeterministicTxs)
    PROVE  /\ Txs(n) \in Seq(Tx) /\ Len(Txs(n)) = n /\ DOMAIN Txs(n) = 1..n
           /\ \A i \in 1..n : /\ Txs(n)[i] = DeterministicTxs[i]
                              /\ DeterministicTxs[i] \in Tx
                              /\ DeterministicTxs[i].type = "Set"
<1>1. DeterministicTxs \in Seq(Tx)
  BY SyncdAssumption
<1>2. Txs(n) \in Seq(Tx) /\ Len(Txs(n)) = n /\ \A i \in 1..n : Txs(n)[i] = DeterministicTxs[i]
  BY <1>1 DEF Txs
<1>3. \A i \in 1..n : DeterministicTxs[i] \in Tx /\ DeterministicTxs[i].type = "Set"
  BY <1>1, SyncdAssumption
<1> QED BY <1>2, <1>3

LEMMA EmptyIsStore == EmptyStore \in Store
BY DEF EmptyStore, Store

LEMMA PrefixType ==
    ASSUME NEW n \in 0..Len(DeterministicTxs)
    PROVE  Prefix(n) \in Store
<1>1. \A op \in Tx : op.type \in {"Set", "Remove"} => op \in Tx
  OBVIOUS
<1> QED BY <1>1, TxsFacts, EmptyIsStore, ApplyFromType DEF Prefix, ApplyAll

\* A transaction once applied is in the store, one not yet applied has left
\* its key absent.
LEMMA PrefixHolds ==
    ASSUME NEW n \in 0..Len(DeterministicTxs), NEW i \in 1..Len(DeterministicTxs)
    PROVE  LET tx == DeterministicTxs[i] IN
           /\ i <= n => Prefix(n)[tx.key] = tx.value
           /\ i > n => Prefix(n)[tx.key] = Absent
<1> DEFINE k == DeterministicTxs[i].key
           P == Txs(n)
<1>0. n \in Nat /\ i \in Nat /\ Len(DeterministicTxs) \in Nat
  BY SyncdAssumption
<1>1. /\ P \in Seq(Tx) /\ DOMAIN P = 1..n
      /\ \A j \in 1..n : P[j] = DeterministicTxs[j] /\ P[j].type = "Set"
  BY TxsFacts
<1>2. DeterministicTxs[i] \in Tx /\ k \in Keys
  BY SyncdAssumption DEF Tx
<1>3. \A j \in 1..n : Writes(P[j], k) <=> j = i
  BY <1>0, <1>1, SyncdAssumption DEF Writes
<1> HIDE DEF P
<1>4. Prefix(n)[k] = IF \E j \in DOMAIN P : LastWrite(P, 0, k, j)
                     THEN P[LastWriter(P, 0, k)].value ELSE EmptyStore[k]
  BY <1>2 DEF Prefix, ApplyAll, ApplyFrom, P
<1>5. CASE i <= n
  <2>1. LastWrite(P, 0, k, i) /\ \A j \in DOMAIN P : LastWrite(P, 0, k, j) => j = i
    BY <1>0, <1>1, <1>3, <1>5 DEF LastWrite
  <2>2. LastWriter(P, 0, k) = i /\ i \in DOMAIN P
    BY <1>0, <1>1, <1>5, <2>1 DEF LastWriter
  <2> QED BY <1>0, <1>1, <1>4, <1>5, <2>1, <2>2
<1>6. CASE i > n
  <2>1. \A j \in DOMAIN P : ~LastWrite(P, 0, k, j)
    BY <1>0, <1>1, <1>3, <1>6 DEF LastWrite
  <2> QED BY <1>0, <1>2, <1>4, <1>6, <2>1 DEF EmptyStore
<1> QED BY <1>0, <1>5, <1>6

\* A transaction the store holds changes nothing when it is applied again,
\* as a source does that was started again.
LEMMA AppliedAgain ==
    ASSUME NEW n \in 0..Len(DeterministicTxs), NEW i \in 1..n
    PROVE  Apply(Prefix(n), DeterministicTxs[i]) = Prefix(n)
<1>1. i \in 1..Len(DeterministicTxs) /\ i <= n
  BY SyncdAssumption
<1>2. Prefix(n)[DeterministicTxs[i].key] = DeterministicTxs[i].value
  BY <1>1, PrefixHolds
<1> QED BY <1>2, PrefixType DEF Apply, Store

\* The next one adds an entry to those there are.
LEMMA PrefixStep ==
    ASSUME NEW n \in 0..Len(DeterministicTxs), n < Len(DeterministicTxs)
    PROVE  /\ n + 1 \in 0..Len(DeterministicTxs)
           /\ Prefix(n + 1) = Apply(Prefix(n), DeterministicTxs[n + 1])
           /\ Prefix(n + 1) # Prefix(n)
           /\ StateRoot(Prefix(n)) \subseteq StateRoot(Prefix(n + 1))
<1> DEFINE tx == DeterministicTxs[n + 1]
<1>0. /\ n \in Nat /\ Len(DeterministicTxs) \in Nat /\ DeterministicTxs \in Seq(Tx)
      /\ n + 1 \in 0..Len(DeterministicTxs) /\ n + 1 \in 1..Len(DeterministicTxs)
  BY SyncdAssumption
<1>1. tx \in Tx /\ tx.key \in Keys /\ tx.value \in Values
  BY <1>0, SyncdAssumption DEF Tx
<1>2. Txs(n + 1) = Append(Txs(n), tx)
  BY <1>0 DEF Txs
<1>3. Prefix(n + 1) = Apply(Prefix(n), tx)
  <2>1. Txs(n) \in Seq(Tx) /\ 0 \in 0..Len(Txs(n))
    BY <1>0, TxsFacts
  <2> HIDE DEF tx
  <2>2. ApplyFrom(EmptyStore, Append(Txs(n), tx), 0)
          = Apply(ApplyFrom(EmptyStore, Txs(n), 0), tx)
    BY <1>1, <2>1, EmptyIsStore, ApplyFromAppend
  <2> QED BY <1>2, <2>2 DEF Prefix, ApplyAll
<1>4. Prefix(n) \in Store
  BY PrefixType
<1>5. Prefix(n)[tx.key] = Absent
  <2>1. n + 1 > n
    BY <1>0
  <2> QED BY <1>0, <2>1, PrefixHolds
<1> HIDE DEF tx
<1>6. Prefix(n + 1)[tx.key] = tx.value /\ tx.value # Absent
  BY <1>1, <1>3, <1>4, AbsentAssumption DEF Apply, Store
<1>7. \A k \in Keys : Prefix(n)[k] # Absent => Prefix(n + 1)[k] = Prefix(n)[k]
  BY <1>1, <1>3, <1>4, <1>5 DEF Apply, Store
<1>8. StateRoot(Prefix(n)) \subseteq StateRoot(Prefix(n + 1))
  BY <1>7 DEF StateRoot, Entries
<1> QED BY <1>0, <1>3, <1>5, <1>6, <1>8 DEF tx
-----------------------------------------------------------------------------
(* What the sink recovers: its log holds markers only.                     *)

LEMMA MarkersWriteNothing ==
    ASSUME NEW s \in Store, NEW ops \in Seq(Markers), NEW from
    PROVE  ApplyFrom(s, ops, from) = s
<1>1. ASSUME NEW k, NEW j \in DOMAIN ops PROVE ~LastWrite(ops, from, k, j)
  <2>1. ops[j] \in Markers
    OBVIOUS
  <2> QED BY <2>1 DEF LastWrite, Writes, Markers, Marker
<1> QED BY <1>1 DEF ApplyFrom, Store

LEMMA SinkRecovers ==
    ASSUME NEW ops \in Seq(Markers), NEW f \in SnapshotFile \cup {NoFile, Truncated}
    PROVE  /\ RecoverFrom(ops, f) = EmptyStore \/ (Loads(f) /\ RecoverFrom(ops, f) = f.entries)
           /\ RecoverFrom(ops, f) \in Store
<1>1. CASE SnapshotUsable(ops, f)
  <2>1. Loads(f) /\ f.entries \in Store
    BY <1>1 DEF SnapshotUsable, Loads, SnapshotFile
  <2>2. RecoverFrom(ops, f) = f.entries
    BY <1>1, <2>1, MarkersWriteNothing DEF RecoverFrom
  <2> QED BY <2>1, <2>2
<1>2. CASE ~SnapshotUsable(ops, f)
  BY <1>2, EmptyIsStore, MarkersWriteNothing DEF RecoverFrom
<1> QED BY <1>1, <1>2

\* A snapshot that goes with the last marker is what is recovered.
LEMMA SavedIsRecovered ==
    ASSUME NEW ops \in Seq(Markers), ops # <<>>, NEW s \in Store,
           ops[Len(ops)].root = StateRoot(s)
    PROVE  RecoverFrom(ops, FromStore(s, SyncHeight)) = s
<1> DEFINE f == FromStore(s, SyncHeight)
           n == Len(ops)
<1>1. n \in Nat /\ n > 0 /\ DOMAIN ops = 1..n
  OBVIOUS
<1>2. MarkersIn(ops) = 1..n
  <2>1. \A j \in 1..n : ops[j].type = "Checkpoint"
    BY DEF Markers, Marker
  <2> QED BY <1>1, <2>1 DEF MarkersIn
<1> HIDE DEF n
<1>3. LastMarker(ops) = n
  BY <1>1, <1>2 DEF LastMarker
<1>4. f \in SnapshotFile /\ f.entries = s /\ f.root = StateRoot(s)
  BY SyncdAssumption DEF FromStore, SnapshotFile, SyncHeight
<1>5. SnapshotUsable(ops, f)
  BY <1>1, <1>2, <1>3, <1>4, FileAssumption DEF SnapshotUsable, Loads, n
<1> QED BY <1>4, <1>5, MarkersWriteNothing DEF RecoverFrom
-----------------------------------------------------------------------------
(* What appends, and kills inside them, make of a log file with the lines  *)
(* of some kinds of op.                                                    *)

LogOf(Ops) == [lines : Seq(Ops \cup {Glued}), tail : Ops \cup {Clean, Torn, Glued},
               garbled : {FALSE}]

\* Replay gets to the end of the file.
Opens(l) == \A i \in DOMAIN Kept(l) : Readable(Kept(l)[i])

\* A log that replays gives ops.
LEMMA KeptOps ==
    ASSUME NEW Ops, Ops \subseteq WalOp, NEW l \in LogOf(Ops)
    PROVE  /\ Opens(l) => Kept(l) \in Seq(Ops)
           /\ ~HasGlued(l) => /\ Opens(l) /\ l.lines \in Seq(Ops)
                              /\ l.tail \in Ops \cup {Clean, Torn}
                              /\ Kept(l) = IF l.tail \in Ops THEN Append(l.lines, l.tail)
                                          ELSE l.lines
<1>0. /\ Clean \notin Ops /\ Torn \notin Ops /\ Glued \notin Ops
      /\ Clean # Torn /\ Clean # Glued /\ Torn # Glued
  BY SyncdAssumption, LineAssumption
<1>1. /\ l.lines \in Seq(Ops \cup {Glued}) /\ l.tail \in Ops \cup {Clean, Torn, Glued}
  BY DEF LogOf
<1>2. PICK f : f = FileLines(l)
  OBVIOUS
<1>3. f \in Seq(Ops \cup {Torn, Glued})
  BY <1>1, <1>2 DEF FileLines
<1>4. Kept(l) \in Seq(Ops \cup {Torn, Glued})
  <2>1. Len(f) > 0 => SubSeq(f, 1, Len(f) - 1) \in Seq(Ops \cup {Torn, Glued})
    BY <1>3
  <2> QED BY <1>2, <1>3, <2>1 DEF Kept
<1>5. Opens(l) => Kept(l) \in Seq(Ops)
  <2> SUFFICES ASSUME Opens(l) PROVE Kept(l) \in Seq(Ops)
    OBVIOUS
  <2>1. \A i \in 1..Len(Kept(l)) : Kept(l)[i] \in Ops
    BY <1>4 DEF Opens, Readable
  <2> QED BY <1>4, <2>1
<1>6. ASSUME ~HasGlued(l)
      PROVE  /\ Opens(l) /\ l.lines \in Seq(Ops) /\ l.tail \in Ops \cup {Clean, Torn}
             /\ Kept(l) = IF l.tail \in Ops THEN Append(l.lines, l.tail) ELSE l.lines
  <2>1. l.tail \in Ops \cup {Clean, Torn} /\ \A i \in 1..Len(l.lines) : l.lines[i] \in Ops
    BY <1>1, <1>6 DEF HasGlued
  <2>2. l.lines \in Seq(Ops)
    BY <1>1, <2>1
  <2>3. CASE l.tail \in Ops
    <3>1. f = Append(l.lines, l.tail) /\ f \in Seq(Ops)
      BY <1>0, <1>2, <2>2, <2>3 DEF FileLines
    <3>2. Len(f) > 0 => f[Len(f)] \in Ops
      BY <3>1
    <3>3. Kept(l) = f
      BY <1>0, <1>2, <3>2 DEF Kept, Readable
    <3> QED BY <1>0, <2>2, <2>3, <3>1, <3>3 DEF Opens, Readable
  <2>4. CASE l.tail = Clean
    <3>1. f = l.lines /\ (Len(f) > 0 => f[Len(f)] \in Ops)
      BY <1>2, <2>2, <2>4 DEF FileLines
    <3>2. Kept(l) = f
      BY <1>0, <1>2, <3>1 DEF Kept, Readable
    <3> QED BY <1>0, <2>2, <2>4, <3>1, <3>2 DEF Opens, Readable
  <2>5. CASE l.tail = Torn
    <3>1. /\ f = Append(l.lines, Torn) /\ Len(f) = Len(l.lines) + 1
          /\ f[Len(f)] = Torn /\ SubSeq(f, 1, Len(f) - 1) = l.lines
      BY <1>0, <1>2, <2>2, <2>5 DEF FileLines
    <3>2. Len(f) > 0
      BY <2>2, <3>1
    <3>3. Kept(l) = l.lines
      BY <1>2, <3>1, <3>2 DEF Kept, Readable
    <3> QED BY <1>0, <2>2, <2>5, <3>3 DEF Opens, Readable
  <2> QED BY <2>1, <2>3, <2>4, <2>5
<1> QED BY <1>5, <1>6

\* A file that ends in bytes that do not parse gives its lines.
LEMMA KeptBefore ==
    ASSUME NEW lines, lines \in Seq(WalOp \cup {Glued}), NEW bad \in {Torn, Glued}
    PROVE  LET f == Append(lines, bad) IN
           /\ Len(f) > 0 /\ ~Readable(f[Len(f)]) /\ SubSeq(f, 1, Len(f) - 1) = lines
<1>1. PICK n \in Nat : n = Len(lines)
  OBVIOUS
<1>2. /\ Len(Append(lines, bad)) = n + 1 /\ Append(lines, bad)[n + 1] = bad
      /\ SubSeq(Append(lines, bad), 1, n) = lines
  BY <1>1
<1> QED BY <1>2 DEF Readable

\* append_op that returns: one more op, or a line that is glued.
LEMMA KeptAppend ==
    ASSUME NEW Ops, Ops \subseteq WalOp, NEW l \in LogOf(Ops), NEW op \in Ops,
           NEW m, m = AppendNewline(AppendBytes(l, op))
    PROVE  /\ m \in LogOf(Ops) /\ m.tail = Clean
           /\ HasGlued(l) => HasGlued(m)
           /\ ~HasGlued(m) => /\ ~HasGlued(l) /\ Kept(l) = l.lines
                              /\ m.lines = Append(l.lines, op) /\ Kept(m) = m.lines
           /\ HasGlued(m) => /\ m.lines \notin Seq(Ops)
                             /\ Opens(m) => Kept(m) = l.lines /\ l.lines \in Seq(Ops)
<1>0. /\ Clean \notin Ops /\ Torn \notin Ops /\ Glued \notin Ops /\ op # Glued
      /\ Clean # Torn /\ Clean # Glued /\ Torn # Glued
  BY SyncdAssumption, LineAssumption
<1>1. /\ l.lines \in Seq(Ops \cup {Glued}) /\ l.tail \in Ops \cup {Clean, Torn, Glued}
      /\ l.garbled = FALSE
  BY DEF LogOf
<1>2. PICK b : b = IF l.tail = Clean THEN op ELSE Glued
  OBVIOUS
<1>3. m = [lines |-> Append(l.lines, b), tail |-> Clean, garbled |-> FALSE]
  BY <1>1, <1>2 DEF AppendNewline, AppendBytes, LogOf
<1>4. PICK n \in Nat : n = Len(l.lines)
  BY <1>1
<1>5. /\ m.lines = Append(l.lines, b) /\ m.tail = Clean /\ b \in Ops \cup {Glued}
      /\ m \in LogOf(Ops)
  BY <1>1, <1>2, <1>3 DEF LogOf
<1>6. /\ Len(m.lines) = n + 1 /\ m.lines[n + 1] = b /\ DOMAIN m.lines = 1..(n + 1)
      /\ \A i \in 1..n : m.lines[i] = l.lines[i] /\ DOMAIN l.lines = 1..n
  BY <1>1, <1>4, <1>5
<1>7. FileLines(m) = m.lines
  BY <1>5 DEF FileLines
<1>8. HasGlued(l) => HasGlued(m)
  <2>1. CASE l.tail = Glued
    BY <1>0, <1>2, <1>6, <2>1 DEF HasGlued
  <2>2. CASE l.tail # Glued
    BY <1>1, <1>4, <1>6, <2>2 DEF HasGlued
  <2> QED BY <2>1, <2>2
<1>9. ASSUME ~HasGlued(m)
      PROVE  /\ ~HasGlued(l) /\ Kept(l) = l.lines
             /\ m.lines = Append(l.lines, op) /\ Kept(m) = m.lines
  <2>1. b # Glued /\ l.tail = Clean /\ b = op
    BY <1>2, <1>6, <1>9 DEF HasGlued
  <2>2. ~HasGlued(l)
    BY <1>8, <1>9
  <2>3. Kept(l) = l.lines
    BY <1>0, <2>1, <2>2, KeptOps
  <2>4. Kept(m) = m.lines
    BY <1>0, <1>5, <1>9, KeptOps
  <2> QED BY <1>5, <2>1, <2>2, <2>3, <2>4
<1>10. ASSUME HasGlued(m)
       PROVE  /\ m.lines \notin Seq(Ops)
              /\ Opens(m) => Kept(m) = l.lines /\ l.lines \in Seq(Ops)
  <2>1. PICK i \in 1..(n + 1) : m.lines[i] = Glued
    BY <1>0, <1>5, <1>6, <1>10 DEF HasGlued
  <2>2. m.lines \notin Seq(Ops)
    BY <1>0, <1>6, <2>1
  <2>3. ASSUME Opens(m) PROVE Kept(m) = l.lines /\ l.lines \in Seq(Ops)
    <3>1. b = Glued
      <4>1. CASE Kept(m) = m.lines
        BY <1>6, <2>1, <2>3, <4>1 DEF Opens, Readable
      <4>2. CASE Kept(m) # m.lines
        BY <1>0, <1>5, <1>6, <1>7, <4>2 DEF Kept, Readable
      <4> QED BY <4>1, <4>2
    <3>2. Kept(m) = l.lines
      <4>1. l.lines \in Seq(WalOp \cup {Glued})
        BY <1>1
      <4> QED BY <1>5, <1>7, <3>1, <4>1, KeptBefore DEF Kept
    <3> QED BY <1>5, <2>3, <3>2, KeptOps
  <2> QED BY <2>2, <2>3
<1> QED BY <1>5, <1>8, <1>9, <1>10

\* append_op that is killed: the op without its newline, or a part of it.
LEMMA KeptCut ==
    ASSUME NEW Ops, Ops \subseteq WalOp, NEW l \in LogOf(Ops), NEW b \in Ops \cup {Torn},
           NEW m, m = AppendBytes(l, b)
    PROVE  /\ m \in LogOf(Ops) /\ m.lines = l.lines
           /\ HasGlued(l) => HasGlued(m)
           /\ ~HasGlued(m) => /\ ~HasGlued(l) /\ Kept(l) = l.lines
                              /\ Kept(m) = IF b = Torn THEN l.lines ELSE Append(l.lines, b)
           /\ HasGlued(m) => (Opens(m) => Kept(m) = l.lines /\ l.lines \in Seq(Ops))
<1>0. /\ Clean \notin Ops /\ Torn \notin Ops /\ Glued \notin Ops /\ b # Glued /\ b # Clean
      /\ Clean # Torn /\ Clean # Glued /\ Torn # Glued
  BY SyncdAssumption, LineAssumption
<1>1. /\ l.lines \in Seq(Ops \cup {Glued}) /\ l.tail \in Ops \cup {Clean, Torn, Glued}
      /\ l.garbled = FALSE
  BY DEF LogOf
<1>2. PICK t : t = IF l.tail = Clean THEN b ELSE Glued
  OBVIOUS
<1>3. m = [lines |-> l.lines, tail |-> t, garbled |-> FALSE]
  BY <1>1, <1>2 DEF AppendBytes, LogOf
<1>4. /\ m.lines = l.lines /\ m.tail = t /\ t \in Ops \cup {Torn, Glued} /\ t # Clean
      /\ m \in LogOf(Ops)
  BY <1>0, <1>1, <1>2, <1>3 DEF LogOf
<1>5. PICK n \in Nat : n = Len(l.lines) /\ DOMAIN l.lines = 1..n
  BY <1>1
<1>6. PICK f : f = Append(l.lines, t)
  OBVIOUS
<1>7. /\ FileLines(m) = f /\ Len(f) = n + 1 /\ f[n + 1] = t
      /\ DOMAIN f = 1..(n + 1) /\ \A i \in 1..n : f[i] = l.lines[i]
  BY <1>1, <1>4, <1>5, <1>6 DEF FileLines
<1>8. HasGlued(l) => HasGlued(m)
  BY <1>0, <1>2, <1>4 DEF HasGlued
<1>9. ASSUME ~HasGlued(m)
      PROVE  /\ ~HasGlued(l) /\ Kept(l) = l.lines
             /\ Kept(m) = IF b = Torn THEN l.lines ELSE Append(l.lines, b)
  <2>1. t = b /\ l.tail = Clean
    BY <1>2, <1>4, <1>9 DEF HasGlued
  <2>2. Kept(l) = l.lines /\ ~HasGlued(l)
    BY <1>0, <1>8, <1>9, <2>1, KeptOps
  <2>3. Kept(m) = IF b = Torn THEN l.lines ELSE Append(l.lines, b)
    BY <1>0, <1>4, <1>9, <2>1, KeptOps
  <2> QED BY <2>2, <2>3
<1>10. ASSUME HasGlued(m), Opens(m)
       PROVE  Kept(m) = l.lines /\ l.lines \in Seq(Ops)
  <2>1. t \in {Torn, Glued}
    <3> SUFFICES ASSUME t \in Ops PROVE FALSE
      BY <1>4
    <3>1. PICK i \in 1..n : l.lines[i] = Glued
      BY <1>0, <1>4, <1>5, <1>10 DEF HasGlued
    <3>2. Kept(m) = f
      BY <1>0, <1>7 DEF Kept, Readable
    <3>3. i \in DOMAIN f /\ f[i] = Glued
      BY <1>7, <3>1
    <3> QED BY <1>10, <3>2, <3>3 DEF Opens, Readable
  <2>2. Kept(m) = l.lines
    <3>1. l.lines \in Seq(WalOp \cup {Glued})
      BY <1>1
    <3> QED BY <1>6, <1>7, <2>1, <3>1, KeptBefore DEF Kept
  <2> QED BY <1>4, <1>10, <2>2, KeptOps
<1> QED BY <1>4, <1>8, <1>9, <1>10
-----------------------------------------------------------------------------
(* The invariant.  While no line is glued, the source holds what its log   *)
(* gives, a prefix of the transactions that only grows.  The lines before  *)
(* a glued one, which are all that is left of such a log, give a prefix,   *)
(* too, one that may be shorter.                                           *)

Grounded(ops, w) ==
    /\ MarkerSound(ops)
    /\ \E n \in 0..w : ApplyFrom(EmptyStore, ops, 0) = Prefix(n)

DiskSound(l, w) ==
    /\ l.lines \in Seq(WalOp) => Grounded(l.lines, w)
    /\ Opens(l) => Grounded(Kept(l), w)
    /\ ~HasGlued(l) => ApplyFrom(EmptyStore, Kept(l), 0) = Prefix(w)

SourceInv ==
    /\ DiskSound(log["source"], written)
    /\ Unglued("source") =>
          /\ confirmed \subseteq StateRoot(Prefix(written))
          /\ srcPc # "off" => srcStore = Prefix(written)
    /\ srcPc # "off" => attempt <= Retries
    /\ srcPc = "apply" =>
          \E a, n \in 0..Len(DeterministicTxs) :
              /\ a <= n /\ todo = SubSeq(DeterministicTxs, a + 1, n)
              /\ Unglued("source") => a <= written

\* Connections made and not yet ended.
Held == {backlog[i] : i \in 1..Len(backlog)} \cup (IF conn = Nothing THEN {} ELSE {conn})

\* What is on a connection the source still holds is its present state; what
\* verifies on any other one is a state it sent and not older than the last
\* one confirmed.  Once the ack is on its way, nothing that verifies is.
Honest(c) ==
    /\ c.live => /\ srcPc \in {"send", "await"} /\ ack = Nothing
                 /\ c.msg # Nothing => srcPc = "await" /\ c.msg = SyncSnapshot(srcStore)
    /\ Verifies(c.msg) => /\ c.msg.entries \in sent /\ ack = Nothing
                          /\ Unglued("source") =>
                                confirmed \subseteq StateRoot(c.msg.entries)

HeldInv == \A c \in Held : Honest(c)

OneLive ==
    /\ \A i, j \in 1..Len(backlog) : backlog[i].live /\ backlog[j].live => i = j
    /\ conn # Nothing /\ conn.live => \A i \in 1..Len(backlog) : ~backlog[i].live
    /\ ack # Nothing => srcPc = "await"

\* How far the sink's checkpoint is, and what its disk holds.
SinkInv ==
    /\ log["sink"] \in LogOf(Markers)
    /\ Loads(file["sink"]) => file["sink"].entries \in sent
    /\ snkPc \in {"marker", "truncate", "save", "ack"} =>
          Verifies(conn.msg) /\ snkStore = conn.msg.entries
    /\ snkPc \in {"truncate", "save", "ack"} =>
          /\ log["sink"].tail = Clean
          /\ Unglued("sink") =>
                /\ log["sink"].lines # <<>>
                /\ log["sink"].lines[Len(log["sink"].lines)].root = StateRoot(snkStore)
    /\ snkPc = "ack" => file["sink"] = FromStore(snkStore, SyncHeight)
    /\ AckMeansSaved /\ ConfirmedIsKept

\* TypeOK, but for the number of live connections, which follows from OneLive.
Types ==
    /\ log \in [Node -> LogFiles]
    /\ file \in [Node -> SnapshotFile \cup {NoFile, Truncated}]
    /\ srcPc \in {"off", "apply", "truncate", "save", "connect", "send", "await"}
    /\ snkPc \in {"off", "listen", "receive", "marker", "truncate", "save", "ack"}
    /\ srcStore \in Store /\ snkStore \in Store
    /\ attempt \in 0..Retries + 1
    /\ backlog \in Seq(Connection)
    /\ conn \in Connection \cup {Nothing}
    /\ conn # Nothing <=> snkPc \notin {"off", "listen"}
    /\ written \in 0..Len(DeterministicTxs)
    /\ cutOff \in BOOLEAN

DaemonInv == Types /\ SourceInv /\ HeldInv /\ OneLive /\ SinkInv

LEMMA LiveCount ==
    ASSUME Types, OneLive
    PROVE  Cardinality(LiveInBacklog) <= 1
<1>1. \A i, j \in LiveInBacklog : i = j
  BY DEF LiveInBacklog, OneLive, Types
<1>2. CASE LiveInBacklog = {}
  BY <1>2, FS_EmptySet
<1>3. CASE LiveInBacklog # {}
  <2>1. PICK i : LiveInBacklog = {i}
    BY <1>1, <1>3
  <2> QED BY <2>1, FS_Singleton
<1> QED BY <1>2, <1>3

LEMMA TypesSuffice == DaemonInv => TypeOK
BY LiveCount DEF DaemonInv, Types, TypeOK

LEMMA RecoverType ==
    ASSUME NEW ops \in Seq(WalOp), NEW f \in SnapshotFile \cup {NoFile, Truncated}
    PROVE  RecoverFrom(ops, f) \in Store
<1>1. \A op \in WalOp : op.type \in {"Set", "Remove"} => op \in Tx
  BY WalOpKinds
<1>2. SnapshotUsable(ops, f) => f.entries \in Store
  BY DEF SnapshotUsable, Loads, SnapshotFile
<1> QED BY <1>1, <1>2, EmptyIsStore, ApplyFromType DEF RecoverFrom

\* What a process that is started recovers is a store.
LEMMA RecoveredType ==
    ASSUME Types, NEW node \in Node, Replays(node)
    PROVE  Kept(log[node]) \in Seq(WalOp) /\ Recovered(node) \in Store
<1>1. log[node] \in LogOf(WalOp) /\ file[node] \in SnapshotFile \cup {NoFile, Truncated}
  BY DEF Types, LogFiles, LogOf
<1>2. Kept(log[node]) \in Seq(WalOp)
  BY <1>1, KeptOps DEF Replays, Opens
<1> QED BY <1>1, <1>2, RecoverType DEF Recovered

\* Stores have roots that fit into a message, a marker and a snapshot file.
LEMMA StoreFacts ==
    ASSUME NEW s \in Store
    PROVE  /\ SyncSnapshot(s) \in Message /\ Verifies(SyncSnapshot(s))
           /\ SyncSnapshot(s).entries = s /\ SyncSnapshot(s).root = StateRoot(s)
           /\ Marker(SyncHeight, StateRoot(s)) \in Markers
           /\ Marker(SyncHeight, StateRoot(s)) \in WalOp
           /\ FromStore(s, SyncHeight) \in SnapshotFile
           /\ FromStore(s, SyncHeight).entries = s
<1>1. StateRoot(s) \in SUBSET (Keys \X Values)
  BY DEF StateRoot, Entries, Store
<1>2. SyncSnapshot(s) \in Message
  BY <1>1 DEF SyncSnapshot, Message
<1>3. Verifies(SyncSnapshot(s))
  BY <1>2, SyncdAssumption DEF Verifies, SyncSnapshot
<1> QED BY <1>2, <1>3, SyncdAssumption
        DEF SyncSnapshot, Markers, Marker, WalOp, FromStore, SnapshotFile, SyncHeight

\* What a stranger sends is a message, and does not verify.
LEMMA StrangersFail == Mismatched \in Message /\ ~Verifies(Mismatched)
<1> DEFINE e == [k \in Keys |-> CHOOSE v \in Values : TRUE]
<1>1. e \in Store /\ \A k \in Keys : e[k] \in Values
  BY SyncdAssumption DEF Store
<1>2. PICK k \in Keys : TRUE
  BY SyncdAssumption
<1>3. <<k, e[k]>> \in StateRoot(e)
  BY <1>1, AbsentAssumption DEF StateRoot, Entries
<1>4. StateRoot(EmptyStore) = {}
  BY DEF StateRoot, Entries, EmptyStore
<1>5. SyncSnapshot(EmptyStore) \in Message
  BY EmptyIsStore, StoreFacts
<1>6. Mismatched = [SyncSnapshot(EmptyStore) EXCEPT !.entries = e]
  BY DEF Mismatched
<1> HIDE DEF e
<1>7. Mismatched \in Message /\ Mismatched.entries = e /\ Mismatched.root = {}
  BY <1>1, <1>4, <1>5, <1>6 DEF Message, SyncSnapshot
<1> QED BY <1>3, <1>7 DEF Verifies

LEMMA DroppedFacts ==
    ASSUME NEW c \in Connection
    PROVE  Dropped(c) \in Connection /\ ~Dropped(c).live /\ Dropped(c).msg = c.msg
BY SyncdAssumption DEF Dropped, Connection

\* After an attempt the source goes on with the next one or ends.
LEMMA NextAttemptType ==
    ASSUME attempt \in 0..Retries, NextAttempt
    PROVE  /\ attempt' \in 0..Retries + 1 /\ srcPc' \in {"connect", "off"}
           /\ srcPc' # "off" => attempt' <= Retries
BY SyncdAssumption DEF NextAttempt

LEMMA AbandonFacts ==
    ASSUME Types, Abandon
    PROVE  /\ backlog' \in Seq(Connection) /\ Len(backlog') = Len(backlog)
           /\ \A i \in 1..Len(backlog) : backlog'[i] = Dropped(backlog[i])
           /\ conn' = Dropped(conn) /\ conn' \in Connection \cup {Nothing}
           /\ conn' = Nothing <=> conn = Nothing
           /\ ack' = Nothing
<1>1. PICK n \in Nat : n = Len(backlog) /\ DOMAIN backlog = 1..n
  BY DEF Types
<1>2. \A i \in 1..n : backlog[i] \in Connection
  BY <1>1 DEF Types
<1>3. \A i \in 1..n : Dropped(backlog[i]) \in Connection
  BY <1>2, DroppedFacts
<1>4. backlog' = [i \in 1..n |-> Dropped(backlog[i])]
  BY <1>1 DEF Abandon
<1>5. backlog' \in Seq(Connection) /\ Len(backlog') = n
  BY <1>3, <1>4
<1>6. conn' = Dropped(conn) /\ ack' = Nothing
  BY DEF Abandon
<1>7. CASE conn = Nothing
  BY <1>1, <1>4, <1>5, <1>6, <1>7 DEF Dropped
<1>8. CASE conn \in Connection
  BY <1>1, <1>4, <1>5, <1>6, <1>8, DroppedFacts, SyncdAssumption
<1> QED BY <1>7, <1>8 DEF Types

\* A connection of the source carries its state once that is sent.
Filled(c) == IF c.live THEN [c EXCEPT !.msg = SyncSnapshot(srcStore)] ELSE c

LEMMA SendFacts ==
    ASSUME Types, Send
    PROVE  /\ \A c \in Connection :
                 /\ Filled(c) \in Connection /\ Filled(c).live = c.live
                 /\ Filled(c).msg = IF c.live THEN SyncSnapshot(srcStore) ELSE c.msg
           /\ backlog' \in Seq(Connection) /\ Len(backlog') = Len(backlog)
           /\ \A i \in 1..Len(backlog) : backlog'[i] = Filled(backlog[i])
           /\ conn' = IF conn = Nothing THEN Nothing ELSE Filled(conn)
           /\ conn' \in Connection \cup {Nothing}
           /\ conn' = Nothing <=> conn = Nothing
<1>0. SyncSnapshot(srcStore) \in Message
  BY StoreFacts DEF Types
<1>1. \A c \in Connection :
         /\ Filled(c) \in Connection /\ Filled(c).live = c.live
         /\ Filled(c).msg = IF c.live THEN SyncSnapshot(srcStore) ELSE c.msg
  BY <1>0 DEF Connection, Filled
<1>2. PICK n \in Nat : n = Len(backlog) /\ DOMAIN backlog = 1..n
  BY DEF Types
<1>3. \A i \in 1..n : Filled(backlog[i]) \in Connection
  BY <1>1, <1>2 DEF Types
<1>4. backlog' = [i \in 1..n |-> Filled(backlog[i])]
  BY <1>2 DEF Send, Filled
<1>5. backlog' \in Seq(Connection) /\ Len(backlog') = n
  BY <1>3, <1>4
<1>6. conn' = IF conn = Nothing THEN Nothing ELSE Filled(conn)
  BY DEF Send, Filled
<1>7. conn' \in Connection \cup {Nothing} /\ (conn' = Nothing <=> conn = Nothing)
  BY <1>1, <1>6, SyncdAssumption DEF Types
<1> QED BY <1>1, <1>2, <1>4, <1>5, <1>6, <1>7

\* The files keep their types when a node writes to its own.
LEMMA AppendType ==
    ASSUME Types, NEW node \in Node, NEW op \in WalOp, AppendOp(node, op)
    PROVE  /\ log' \in [Node -> LogFiles]
           /\ log'[node] = AppendNewline(AppendBytes(log[node], op))
           /\ \A other \in Node \ {node} : log'[other] = log[other]
<1>1. log \in [Node -> LogFiles] /\ log[node] \in LogOf(WalOp)
  BY DEF Types, LogFiles, LogOf
<1>2. AppendNewline(AppendBytes(log[node], op)) \in LogFiles
  <2>1. PICK m : m = AppendNewline(AppendBytes(log[node], op))
    OBVIOUS
  <2>2. m \in LogOf(WalOp)
    BY <1>1, <2>1, KeptAppend
  <2> QED BY <2>1, <2>2 DEF LogFiles, LogOf
<1> QED BY <1>1, <1>2 DEF AppendOp

LEMMA CutType ==
    ASSUME Types, NEW node \in Node, NEW bytes \in WalOp \cup {Torn}, CutShort(node, bytes)
    PROVE  /\ log' \in [Node -> LogFiles]
           /\ log'[node] = AppendBytes(log[node], bytes)
           /\ \A other \in Node \ {node} : log'[other] = log[other]
<1>1. log \in [Node -> LogFiles] /\ log[node] \in LogOf(WalOp)
  BY DEF Types, LogFiles, LogOf
<1>2. AppendBytes(log[node], bytes) \in LogFiles
  BY <1>1, KeptCut DEF LogFiles, LogOf
<1> QED BY <1>1, <1>2 DEF CutShort

\* Only the next transaction raises written, and only by one.
LEMMA WrittenType ==
    ASSUME written \in 0..Len(DeterministicTxs), NEW op
    PROVE  /\ WrittenAfter(op) \in 0..Len(DeterministicTxs) /\ written <= WrittenAfter(op)
           /\ op \notin Tx => WrittenAfter(op) = written
<1>1. Len(DeterministicTxs) \in Nat
  BY SyncdAssumption
<1>2. written < Len(DeterministicTxs) => DeterministicTxs[written + 1] \in Tx
  BY <1>1, SyncdAssumption
<1> QED BY <1>1, <1>2 DEF WrittenAfter

\* What the source appends next.
LEMMA SourceOpFacts ==
    ASSUME Types, SourceInv, srcPc = "apply"
    PROVE  /\ SourceOp \in WalOp
           /\ todo = <<>> => SourceOp = CheckpointOp(srcStore) /\ SourceOp \in Markers
           /\ todo # <<>> => SourceOp = Head(todo) /\ SourceOp \in Tx
<1>1. PICK a \in 0..Len(DeterministicTxs), n \in 0..Len(DeterministicTxs) :
          a <= n /\ todo = SubSeq(DeterministicTxs, a + 1, n)
  BY DEF SourceInv
<1>2. todo # <<>> => Head(todo) \in Tx
  BY <1>1, SyncdAssumption
<1>3. CheckpointOp(srcStore) \in Markers
  BY StoreFacts DEF Types, CheckpointOp
<1> QED BY <1>2, <1>3 DEF SourceOp, WalOp

LEMMA WriteType ==
    ASSUME Types, NEW node \in Node, NEW f \in SnapshotFile \cup {NoFile, Truncated},
           WriteFile(node, f)
    PROVE  file' \in [Node -> SnapshotFile \cup {NoFile, Truncated}]
BY DEF Types, WriteFile

LEMMA SourceTypes ==
    ASSUME DaemonInv, SourceStep \/ StartSource \/ GiveUp \/ KillSource
    PROVE  Types'
<1> USE DEF disks, source, sink, network, counters, history
<1>0. Types /\ SourceInv
  BY DEF DaemonInv
<1>a. "source" \in Node /\ (srcPc # "off" => attempt \in 0..Retries)
  BY <1>0, SyncdAssumption DEF Node, Types, SourceInv
<1>1. CASE SourceApply
  <2>2. Head(todo) \in Tx /\ Head(todo) \in WalOp
    BY <1>0, <1>1, SourceOpFacts DEF SourceApply
  <2>4. written' \in 0..Len(DeterministicTxs)
    BY <1>0, <1>1, WrittenType DEF SourceApply, Types
  <2>5. srcStore' \in Store
    BY <1>0, <1>1, <2>2, ApplyType DEF SourceApply, Types
  <2>6. log' \in [Node -> LogFiles]
    BY <1>0, <1>1, <1>a, <2>2, AppendType DEF SourceApply
  <2> QED BY <1>0, <1>1, <2>4, <2>5, <2>6 DEF Types, SourceApply
<1>2. CASE SourceMarker
  <2>1. log' \in [Node -> LogFiles]
    <3>1. CheckpointOp(srcStore) \in WalOp
      BY <1>0, StoreFacts DEF Types, CheckpointOp
    <3> QED BY <1>0, <1>2, <1>a, <3>1, AppendType DEF SourceMarker
  <2> QED BY <1>0, <1>2, <2>1 DEF Types, SourceMarker
<1>3. CASE SourceTruncate
  BY <1>0, <1>3, <1>a, WriteType DEF Types, SourceTruncate
<1>4. CASE SourceSave
  <2>1. FromStore(srcStore, SyncHeight) \in SnapshotFile
    BY <1>0, StoreFacts DEF Types
  <2> QED BY <1>0, <1>4, <1>a, <2>1, WriteType DEF Types, SourceSave
<1>5. CASE Refused \/ Closed
  <2>1. attempt' \in 0..Retries + 1 /\ srcPc' \in {"connect", "off"}
    BY <1>5, <1>a, NextAttemptType DEF Refused, Closed
  <2> QED BY <1>0, <1>5, <2>1 DEF Types, Refused, Closed
<1>6. CASE Connect
  <2>1. [live |-> TRUE, msg |-> Nothing] \in Connection
    BY DEF Connection
  <2> QED BY <1>0, <1>6, <2>1 DEF Types, Connect
<1>7. CASE Send
  BY <1>0, <1>7, SendFacts DEF Types, Send
<1>8. CASE ReceiveAck
  <2>1. attempt' \in 0..Retries + 1 /\ srcPc' \in {"connect", "off"}
    BY <1>0, <1>8, <1>a, NextAttemptType DEF Types, ReceiveAck
  <2> QED BY <1>0, <1>8, <2>1, AbandonFacts DEF Types, ReceiveAck
<1>9. CASE StartSource
  <2>1. srcStore' \in Store
    BY <1>0, <1>9, <1>a, RecoveredType DEF StartSource
  <2> QED BY <1>0, <1>9, <2>1, SyncdAssumption DEF Types, StartSource
<1>10. CASE GiveUp
  <2>1. attempt' \in 0..Retries + 1 /\ srcPc' \in {"connect", "off"}
    BY <1>10, <1>a, NextAttemptType DEF GiveUp
  <2> QED BY <1>0, <1>10, <2>1, AbandonFacts DEF Types, GiveUp
<1>11. CASE KillSource
  <2>1. log' \in [Node -> LogFiles] /\ written' \in 0..Len(DeterministicTxs)
    <3>1. CASE UNCHANGED <<log, written>>
      BY <1>0, <3>1 DEF Types
    <3>2. CASE ~UNCHANGED <<log, written>>
      <4>1. PICK bytes \in {Torn, SourceOp} :
                srcPc = "apply" /\ CutShort("source", bytes) /\ written' = WrittenAfter(bytes)
        BY <1>11, <3>2 DEF KillSource
      <4>2. bytes \in WalOp \cup {Torn}
        BY <1>0, <4>1, SourceOpFacts
      <4> QED BY <1>0, <1>a, <4>1, <4>2, CutType, WrittenType DEF Types
    <3> QED BY <3>1, <3>2
  <2> QED BY <1>0, <1>11, <2>1, AbandonFacts DEF Types, KillSource
<1> QED BY <1>1, <1>2, <1>3, <1>4, <1>5, <1>6, <1>7, <1>8, <1>9, <1>10, <1>11 DEF SourceStep

LEMMA SinkTypes ==
    ASSUME DaemonInv, SinkStep \/ StartSink \/ Stranger \/ SnapshotFails \/ KillSink
    PROVE  Types'
<1> USE DEF disks, source, sink, network, counters, history
<1>0. Types /\ "sink" \in Node
  BY DEF DaemonInv, Node
<1>1. CASE Accept
  <2>1. Head(backlog) \in Connection /\ Tail(backlog) \in Seq(Connection)
    BY <1>0, <1>1 DEF Types, Accept
  <2> QED BY <1>0, <1>1, <2>1, SyncdAssumption DEF Types, Accept
<1>2. CASE ReceiveAndVerify
  <2>1. conn \in Connection /\ conn.msg \in Message
    BY <1>0, <1>2 DEF Types, ReceiveAndVerify, Connection, Verifies
  <2>2. conn.msg.entries \in Store
    BY <2>1 DEF Message
  <2> QED BY <1>0, <1>2, <2>2 DEF Types, ReceiveAndVerify
<1>3. CASE Reject \/ AckFails \/ SnapshotFails
  BY <1>0, <1>3 DEF Types, Reject, AckFails, SnapshotFails
<1>4. CASE SinkMarker
  <2>1. CheckpointOp(snkStore) \in WalOp
    BY <1>0, StoreFacts DEF Types, CheckpointOp
  <2>2. log' \in [Node -> LogFiles]
    BY <1>0, <1>4, <2>1, AppendType DEF SinkMarker
  <2> QED BY <1>0, <1>4, <2>2 DEF Types, SinkMarker
<1>5. CASE SinkTruncate
  BY <1>0, <1>5, WriteType DEF Types, SinkTruncate
<1>6. CASE SinkSave
  <2>1. FromStore(snkStore, SyncHeight) \in SnapshotFile
    BY <1>0, StoreFacts DEF Types
  <2> QED BY <1>0, <1>6, <2>1, WriteType DEF Types, SinkSave
<1>7. CASE SendAck \/ KillSink
  <2>1. cutOff' \in BOOLEAN
    BY <1>0, <1>7 DEF Types, SendAck, KillSink, InCheckpoint
  <2>2. backlog' = <<>> /\ conn' = Nothing /\ snkPc' = "off"
    BY <1>7 DEF SendAck, KillSink, ResetAll
  <2>3. UNCHANGED <<file, srcPc, srcStore, attempt, snkStore, written>>
    BY <1>7 DEF SendAck, KillSink
  <2>4. log' \in [Node -> LogFiles]
    <3>1. CheckpointOp(snkStore) \in WalOp
      BY <1>0, StoreFacts DEF Types, CheckpointOp
    <3>2. CASE UNCHANGED log
      BY <1>0, <3>2 DEF Types
    <3>3. CASE CutShort("sink", Torn) \/ CutShort("sink", CheckpointOp(snkStore))
      BY <1>0, <3>1, <3>3, CutType
    <3> QED BY <1>7, <3>2, <3>3 DEF SendAck, KillSink
  <2> QED BY <1>0, <2>1, <2>2, <2>3, <2>4 DEF Types
<1>8. CASE StartSink
  <2>1. snkStore' \in Store
    BY <1>0, <1>8, RecoveredType DEF StartSink
  <2> QED BY <1>0, <1>8, <2>1 DEF Types, StartSink
<1>9. CASE Stranger
  <2>1. PICK m \in {Nothing, Mismatched} :
            backlog' = Append(backlog, [live |-> FALSE, msg |-> m])
    BY <1>9 DEF Stranger
  <2>2. [live |-> FALSE, msg |-> m] \in Connection
    BY StrangersFail DEF Connection
  <2> QED BY <1>0, <1>9, <2>1, <2>2 DEF Types, Stranger
<1> QED BY <1>1, <1>2, <1>3, <1>4, <1>5, <1>6, <1>7, <1>8, <1>9 DEF SinkStep
-----------------------------------------------------------------------------
(* The source.                                                             *)

\* An op the log takes: a marker of the state, or a transaction applied to it.
Continues(op, w, v) ==
    /\ op.type = "Checkpoint" => v = w /\ op.root = StateRoot(Prefix(w))
    /\ op.type # "Checkpoint" => Apply(Prefix(w), op) = Prefix(v)

LEMMA GroundedLater ==
    ASSUME NEW w \in Nat, NEW v \in Nat, w <= v, NEW ops, Grounded(ops, w)
    PROVE  Grounded(ops, v)
BY DEF Grounded

LEMMA GroundedAppend ==
    ASSUME NEW w \in 0..Len(DeterministicTxs), NEW v \in 0..Len(DeterministicTxs),
           NEW ops \in Seq(WalOp), NEW op \in WalOp, MarkerSound(ops),
           ApplyFrom(EmptyStore, ops, 0) = Prefix(w), Continues(op, w, v)
    PROVE  /\ Grounded(Append(ops, op), v)
           /\ ApplyFrom(EmptyStore, Append(ops, op), 0) = Prefix(v)
<1>0. EmptyStore \in Store /\ 0 \in 0..Len(ops) /\ v \in 0..v
  BY EmptyIsStore
<1>1. MarkerSound(Append(ops, op))
  BY MarkerSoundAppend DEF Continues
<1>2. ApplyFrom(EmptyStore, Append(ops, op), 0) = Prefix(v)
  <2>1. CASE op.type = "Checkpoint"
    <3>1. op.type \notin {"Set", "Remove"}
      BY <2>1
    <3> QED BY <1>0, <2>1, <3>1, ApplyFromSkip DEF Continues
  <2>2. CASE op.type # "Checkpoint"
    <3>1. op \in Tx
      BY <2>2, WalOpKinds
    <3>2. ApplyFrom(EmptyStore, Append(ops, op), 0) = Apply(ApplyFrom(EmptyStore, ops, 0), op)
      BY <1>0, <3>1, ApplyFromAppend
    <3> QED BY <2>2, <3>2 DEF Continues
  <2> QED BY <2>1, <2>2
<1> QED BY <1>0, <1>1, <1>2 DEF Grounded

\* The log stays sound when an op is appended, with or without its newline.
LEMMA DiskAppend ==
    ASSUME NEW w \in 0..Len(DeterministicTxs), NEW v \in 0..Len(DeterministicTxs), w <= v,
           NEW l \in LogOf(WalOp), NEW op \in WalOp, DiskSound(l, w),
           ~HasGlued(l) => Continues(op, w, v),
           NEW m, m = AppendNewline(AppendBytes(l, op)) \/ m = AppendBytes(l, op)
    PROVE  DiskSound(m, v) /\ (~HasGlued(m) => ~HasGlued(l))
<1>0. w \in Nat /\ v \in Nat /\ Torn \notin WalOp
  BY SyncdAssumption
<1>1. /\ m \in LogOf(WalOp)
      /\ m.lines = l.lines \/ m.lines \notin Seq(WalOp) \/ m.lines = Append(l.lines, op)
      /\ ~HasGlued(m) => /\ ~HasGlued(l) /\ Kept(l) = l.lines
                         /\ Kept(m) = Append(l.lines, op)
      /\ HasGlued(m) /\ Opens(m) => Kept(m) = l.lines /\ l.lines \in Seq(WalOp)
      /\ m.lines = Append(l.lines, op) => ~HasGlued(m) \/ m.lines \notin Seq(WalOp)
  <2>1. CASE m = AppendNewline(AppendBytes(l, op))
    <3>1. /\ m \in LogOf(WalOp)
          /\ ~HasGlued(m) => /\ ~HasGlued(l) /\ Kept(l) = l.lines
                             /\ m.lines = Append(l.lines, op) /\ Kept(m) = m.lines
          /\ HasGlued(m) => /\ m.lines \notin Seq(WalOp)
                            /\ Opens(m) => Kept(m) = l.lines /\ l.lines \in Seq(WalOp)
      BY <2>1, KeptAppend
    <3> QED BY <3>1
  <2>2. CASE m = AppendBytes(l, op)
    <3>1. l.lines # Append(l.lines, op)
      <4>1. Len(Append(l.lines, op)) = Len(l.lines) + 1 /\ Len(l.lines) \in Nat
        BY DEF LogOf
      <4> QED BY <4>1
    <3> QED BY <1>0, <2>2, <3>1, KeptCut
  <2> QED BY <2>1, <2>2
<1>2. l.lines \in Seq(WalOp) => Grounded(l.lines, v)
  BY <1>0, GroundedLater DEF DiskSound
<1>3. ASSUME ~HasGlued(m)
      PROVE  /\ Grounded(Append(l.lines, op), v)
             /\ ApplyFrom(EmptyStore, Kept(m), 0) = Prefix(v)
  <2>0. Continues(op, w, v) /\ Kept(m) = Append(l.lines, op)
    BY <1>1, <1>3
  <2>1. ~HasGlued(l) /\ Kept(l) = l.lines /\ Opens(l) /\ l.lines \in Seq(WalOp)
    BY <1>1, <1>3, KeptOps
  <2>2. MarkerSound(l.lines) /\ ApplyFrom(EmptyStore, l.lines, 0) = Prefix(w)
    BY <2>1 DEF DiskSound, Grounded
  <2> QED BY <2>0, <2>1, <2>2, GroundedAppend
<1>4. Opens(m) => Grounded(Kept(m), v)
  BY <1>1, <1>2, <1>3
<1>5. m.lines \in Seq(WalOp) => Grounded(m.lines, v)
  BY <1>1, <1>2, <1>3
<1> QED BY <1>1, <1>3, <1>4, <1>5 DEF DiskSound

\* A part of an op adds nothing.
LEMMA DiskTorn ==
    ASSUME NEW w \in 0..Len(DeterministicTxs), NEW l \in LogOf(WalOp), DiskSound(l, w),
           NEW m, m = AppendBytes(l, Torn)
    PROVE  DiskSound(m, w) /\ (~HasGlued(m) => ~HasGlued(l))
<1>1. /\ m \in LogOf(WalOp) /\ m.lines = l.lines
      /\ ~HasGlued(m) => ~HasGlued(l) /\ Kept(l) = l.lines /\ Kept(m) = l.lines
      /\ HasGlued(m) /\ Opens(m) => Kept(m) = l.lines /\ l.lines \in Seq(WalOp)
  BY KeptCut
<1>2. ~HasGlued(m) => Opens(l) /\ l.lines \in Seq(WalOp)
  BY <1>1, KeptOps
<1> QED BY <1>1, <1>2 DEF DiskSound

\* Nothing of the invariant of the source changes while it does not run on.
LEMMA SourceRests ==
    ASSUME SourceInv, log'["source"] = log["source"],
           UNCHANGED <<srcPc, srcStore, todo, attempt, written, confirmed>>
    PROVE  SourceInv'
<1>1. DiskSound(log'["source"], written') /\ (Unglued("source")' <=> Unglued("source"))
  BY DEF SourceInv, Unglued
<1> QED BY <1>1 DEF SourceInv

\* The next transaction, as SourceApply applies it and as a kill may leave it.
LEMMA NextTx ==
    ASSUME Types, SourceInv, srcPc = "apply", todo # <<>>, Unglued("source")
    PROVE  LET v == WrittenAfter(Head(todo)) IN
           /\ Apply(Prefix(written), Head(todo)) = Prefix(v)
           /\ StateRoot(Prefix(written)) \subseteq StateRoot(Prefix(v))
           /\ \E a, n \in 0..Len(DeterministicTxs) :
                 a <= n /\ Tail(todo) = SubSeq(DeterministicTxs, a + 1, n) /\ a <= v
<1>0. written \in 0..Len(DeterministicTxs) /\ Len(DeterministicTxs) \in Nat
  BY SyncdAssumption DEF Types
<1>1. PICK a \in 0..Len(DeterministicTxs), n \in 0..Len(DeterministicTxs) :
          a <= n /\ a <= written /\ todo = SubSeq(DeterministicTxs, a + 1, n)
  BY DEF SourceInv
<1>2. /\ a < n /\ Head(todo) = DeterministicTxs[a + 1] /\ a + 1 \in 1..Len(DeterministicTxs)
      /\ Tail(todo) = SubSeq(DeterministicTxs, (a + 1) + 1, n)
      /\ a + 1 \in 0..Len(DeterministicTxs) /\ a + 1 <= n
  BY <1>1, SyncdAssumption
<1>3. CASE a + 1 <= written
  <2>1. a + 1 \in 1..written
    BY <1>0, <1>1, <1>3
  <2>2. Apply(Prefix(written), Head(todo)) = Prefix(written)
    BY <1>0, <1>2, <2>1, AppliedAgain
  <2>3. written < Len(DeterministicTxs) => Head(todo) # DeterministicTxs[written + 1]
    <3> SUFFICES ASSUME written < Len(DeterministicTxs), Head(todo) = DeterministicTxs[written + 1]
                 PROVE  FALSE
      OBVIOUS
    <3>1. written + 1 \in 1..Len(DeterministicTxs)
      BY <1>0
    <3>2. a + 1 = written + 1
      BY <1>2, <3>1, SyncdAssumption
    <3> QED BY <1>0, <1>1, <1>3, <3>2
  <2>4. WrittenAfter(Head(todo)) = written
    BY <2>3 DEF WrittenAfter
  <2> QED BY <1>2, <1>3, <2>2, <2>4
<1>4. CASE ~(a + 1 <= written)
  <2>1. a = written /\ written < Len(DeterministicTxs) /\ Head(todo) = DeterministicTxs[written + 1]
    BY <1>0, <1>1, <1>2, <1>4
  <2>2. WrittenAfter(Head(todo)) = written + 1
    BY <2>1 DEF WrittenAfter
  <2>3. /\ Prefix(written + 1) = Apply(Prefix(written), Head(todo))
        /\ StateRoot(Prefix(written)) \subseteq StateRoot(Prefix(written + 1))
    BY <1>0, <2>1, PrefixStep
  <2>4. a + 1 <= written + 1
    BY <2>1, <1>0
  <2> QED BY <1>2, <2>2, <2>3, <2>4
<1> QED BY <1>3, <1>4

\* The marker of a checkpoint changes neither the state nor written.
LEMMA NextMarker ==
    ASSUME Types, SourceInv, srcPc = "apply", Unglued("source")
    PROVE  /\ CheckpointOp(srcStore).type = "Checkpoint"
           /\ CheckpointOp(srcStore).root = StateRoot(Prefix(written))
BY DEF SourceInv, CheckpointOp, Marker

LEMMA SourceKeepsItsLog ==
    ASSUME DaemonInv, SourceStep \/ StartSource \/ GiveUp \/ KillSource
    PROVE  SourceInv'
<1> USE DEF disks, source, sink, network, counters, history
<1>0. /\ Types /\ SourceInv /\ "source" \in Node /\ log["source"] \in LogOf(WalOp)
      /\ DiskSound(log["source"], written)
      /\ written \in 0..Len(DeterministicTxs) /\ written \in Nat
      /\ srcPc # "off" => attempt \in 0..Retries
  <2>1. Types /\ SourceInv /\ "source" \in Node
    BY DEF DaemonInv, Node
  <2>2. log["source"] \in LogOf(WalOp)
    BY <2>1 DEF Types, LogFiles, LogOf
  <2>3. written \in 0..Len(DeterministicTxs) /\ attempt \in 0..Retries + 1
    BY <2>1 DEF Types
  <2>4. DiskSound(log["source"], written) /\ (srcPc # "off" => attempt <= Retries)
    BY <2>1 DEF SourceInv
  <2> QED BY <2>1, <2>2, <2>3, <2>4, SyncdAssumption
<1>1. CASE SourceApply
  <2>1. /\ srcPc = "apply" /\ srcPc' = "apply" /\ todo # <<>>
        /\ AppendOp("source", Head(todo))
        /\ srcStore' = Apply(srcStore, Head(todo)) /\ todo' = Tail(todo)
        /\ written' = WrittenAfter(Head(todo))
        /\ attempt' = attempt /\ confirmed' = confirmed
    BY <1>1 DEF SourceApply
  <2>2. Head(todo) \in Tx /\ Head(todo) \in WalOp /\ Head(todo).type # "Checkpoint"
    BY <1>0, <2>1, SourceOpFacts DEF Tx
  <2>3. written' \in 0..Len(DeterministicTxs) /\ written <= written'
    BY <1>0, <2>1, WrittenType
  <2>4. log'["source"] = AppendNewline(AppendBytes(log["source"], Head(todo)))
    BY <1>0, <2>1, <2>2, AppendType
  <2>5. ~HasGlued(log["source"]) => Continues(Head(todo), written, written')
    BY <1>0, <2>1, <2>2, NextTx DEF Continues, Unglued
  <2>6. /\ DiskSound(log'["source"], written')
        /\ Unglued("source")' => Unglued("source")
    BY <1>0, <2>2, <2>3, <2>4, <2>5, DiskAppend DEF Unglued
  <2>7. Unglued("source")' =>
           /\ confirmed' \subseteq StateRoot(Prefix(written'))
           /\ srcStore' = Prefix(written')
    BY <1>0, <2>1, <2>6, NextTx DEF SourceInv
  <2>8. \E a, n \in 0..Len(DeterministicTxs) :
           /\ a <= n /\ todo' = SubSeq(DeterministicTxs, a + 1, n)
           /\ Unglued("source")' => a <= written'
    <3>1. CASE Unglued("source")
      BY <1>0, <2>1, <3>1, NextTx
    <3>2. CASE ~Unglued("source")
      <4>1. PICK a \in 0..Len(DeterministicTxs), n \in 0..Len(DeterministicTxs) :
                a <= n /\ todo = SubSeq(DeterministicTxs, a + 1, n)
        BY <1>0, <2>1 DEF SourceInv
      <4>2. /\ todo' = SubSeq(DeterministicTxs, (a + 1) + 1, n)
            /\ a + 1 \in 0..Len(DeterministicTxs) /\ a + 1 <= n
        BY <2>1, <4>1, SyncdAssumption
      <4> QED BY <2>6, <3>2, <4>2
    <3> QED BY <3>1, <3>2
  <2> QED BY <1>0, <2>1, <2>6, <2>7, <2>8 DEF SourceInv
<1>2. CASE SourceMarker
  <2>1. /\ srcPc = "apply" /\ srcPc' = "truncate"
        /\ AppendOp("source", CheckpointOp(srcStore))
        /\ UNCHANGED <<srcStore, attempt, written, confirmed>>
    BY <1>2 DEF SourceMarker
  <2>2. CheckpointOp(srcStore) \in WalOp
    BY <1>0, StoreFacts DEF Types, CheckpointOp
  <2>3. log'["source"] = AppendNewline(AppendBytes(log["source"], CheckpointOp(srcStore)))
    BY <1>0, <2>1, <2>2, AppendType
  <2>4. ~HasGlued(log["source"]) => Continues(CheckpointOp(srcStore), written, written)
    BY <1>0, <2>1, NextMarker DEF Continues, Unglued
  <2>5. /\ DiskSound(log'["source"], written)
        /\ Unglued("source")' => Unglued("source")
    BY <1>0, <2>2, <2>3, <2>4, DiskAppend DEF Unglued
  <2> QED BY <1>0, <2>1, <2>5 DEF SourceInv
<1>3. CASE SourceTruncate \/ SourceSave \/ Connect \/ Send
  <2>1. /\ srcPc # "off" /\ srcPc' \notin {"off", "apply"}
        /\ UNCHANGED <<log, srcStore, attempt, written, confirmed>>
    BY <1>3 DEF SourceTruncate, SourceSave, Connect, Send
  <2> QED BY <1>0, <2>1 DEF SourceInv, Unglued
<1>4. CASE Refused \/ Closed \/ GiveUp
  <2>1. srcPc # "off" /\ NextAttempt /\ UNCHANGED <<log, srcStore, written, confirmed>>
    BY <1>4 DEF Refused, Closed, GiveUp
  <2>2. srcPc' \in {"connect", "off"} /\ (srcPc' # "off" => attempt' <= Retries)
    BY <1>0, <2>1, NextAttemptType
  <2> QED BY <1>0, <2>1, <2>2 DEF SourceInv, Unglued
<1>5. CASE ReceiveAck
  <2>1. srcPc = "await" /\ UNCHANGED <<log, srcStore, written>>
    BY <1>5 DEF ReceiveAck
  <2>2. srcPc' \in {"connect", "off"} /\ (srcPc' # "off" => attempt' <= Retries)
    BY <1>0, <1>5, <2>1, NextAttemptType DEF ReceiveAck
  <2>3. confirmed' \in {confirmed, StateRoot(srcStore)}
    BY <1>5 DEF ReceiveAck
  <2>4. Unglued("source") => confirmed' \subseteq StateRoot(Prefix(written))
    BY <1>0, <2>1, <2>3 DEF SourceInv
  <2> QED BY <1>0, <2>1, <2>2, <2>4 DEF SourceInv, Unglued
<1>6. CASE KillSource
  <2>1. srcPc # "off" /\ srcPc' = "off" /\ UNCHANGED <<srcStore, confirmed>>
    BY <1>6 DEF KillSource
  <2>2. /\ DiskSound(log'["source"], written')
        /\ Unglued("source")' => /\ Unglued("source")
                                 /\ StateRoot(Prefix(written)) \subseteq StateRoot(Prefix(written'))
    <3>1. CASE UNCHANGED <<log, written>>
      BY <1>0, <3>1 DEF Unglued
    <3>2. CASE ~UNCHANGED <<log, written>>
      <4>1. PICK bytes \in {Torn, SourceOp} :
                srcPc = "apply" /\ CutShort("source", bytes) /\ written' = WrittenAfter(bytes)
        BY <1>6, <3>2 DEF KillSource
      <4>2. bytes \in WalOp \cup {Torn} /\ SourceOp \in WalOp /\ Torn \notin WalOp
        BY <1>0, <4>1, SourceOpFacts, SyncdAssumption
      <4>3. log'["source"] = AppendBytes(log["source"], bytes)
        BY <1>0, <4>1, <4>2, CutType
      <4>4. written' \in 0..Len(DeterministicTxs) /\ written <= written'
        BY <1>0, <4>1, WrittenType
      <4>5. CASE bytes = Torn
        <5>1. Torn \notin Tx
          BY <4>2 DEF WalOp
        <5>2. written' = written
          BY <1>0, <4>1, <4>5, <5>1, WrittenType
        <5>3. /\ DiskSound(log'["source"], written)
              /\ ~HasGlued(log'["source"]) => ~HasGlued(log["source"])
          BY <1>0, <4>3, <4>5, DiskTorn
        <5> QED BY <5>2, <5>3 DEF Unglued
      <4>6. CASE bytes = SourceOp
        <5>1. Unglued("source") => /\ Continues(bytes, written, written')
                                   /\ StateRoot(Prefix(written)) \subseteq StateRoot(Prefix(written'))
          <6> SUFFICES ASSUME Unglued("source")
                       PROVE  /\ Continues(bytes, written, written')
                              /\ StateRoot(Prefix(written)) \subseteq StateRoot(Prefix(written'))
            OBVIOUS
          <6>1. CASE todo = <<>>
            <7>1. bytes = CheckpointOp(srcStore) /\ bytes.type = "Checkpoint"
              BY <1>0, <4>1, <4>6, <6>1, NextMarker, SourceOpFacts
            <7>2. bytes \notin Tx
              BY <7>1 DEF Tx
            <7>3. written' = written
              BY <1>0, <4>1, <7>2, WrittenType
            <7> QED BY <1>0, <4>1, <7>1, <7>3, NextMarker DEF Continues
          <6>2. CASE todo # <<>>
            <7>1. bytes = Head(todo) /\ bytes.type # "Checkpoint"
              BY <1>0, <4>1, <4>6, <6>2, SourceOpFacts DEF Tx
            <7> QED BY <1>0, <4>1, <6>2, <7>1, NextTx DEF Continues
          <6> QED BY <6>1, <6>2
        <5>2. /\ DiskSound(log'["source"], written')
              /\ ~HasGlued(log'["source"]) => ~HasGlued(log["source"])
          BY <1>0, <4>2, <4>3, <4>4, <4>6, <5>1, DiskAppend DEF Unglued
        <5> QED BY <5>1, <5>2 DEF Unglued
      <4> QED BY <4>1, <4>5, <4>6
    <3> QED BY <3>1, <3>2
  <2> QED BY <1>0, <2>1, <2>2 DEF SourceInv
<1>7. CASE StartSource
  <2>1. Unglued("source") => srcStore' = Prefix(written)
    <3> SUFFICES ASSUME Unglued("source") PROVE srcStore' = Prefix(written)
      OBVIOUS
    <3>1. MarkerSound(Kept(log["source"])) /\ srcStore' = Recovered("source")
      BY <1>0, <1>7 DEF StartSource, Replays, Opens, DiskSound, Grounded
    <3>2. ApplyFrom(EmptyStore, Kept(log["source"]), 0) = Prefix(written)
      BY <1>0 DEF DiskSound, Unglued
    <3> QED BY <1>0, <3>1, <3>2, RecoverSound DEF Recovered, Types
  <2>2. PICK n \in 0..Len(DeterministicTxs) : todo' = SubSeq(DeterministicTxs, 1, n)
    BY <1>7 DEF StartSource
  <2>3. 0 \in 0..Len(DeterministicTxs) /\ 0 <= n /\ 0 <= written /\ 0 + 1 = 1
    BY <1>0, <2>2
  <2>4. \E b, m \in 0..Len(DeterministicTxs) :
           b <= m /\ b <= written /\ todo' = SubSeq(DeterministicTxs, b + 1, m)
    BY <2>2, <2>3
  <2>5. attempt' <= Retries /\ UNCHANGED <<log, written, confirmed>>
    BY <1>7, SyncdAssumption DEF StartSource
  <2> QED BY <1>0, <2>1, <2>4, <2>5 DEF SourceInv, Unglued
<1> QED BY <1>1, <1>2, <1>3, <1>4, <1>5, <1>6, <1>7 DEF SourceStep

LEMMA SinkLeavesTheSource ==
    ASSUME DaemonInv, SinkStep \/ StartSink \/ Stranger \/ SnapshotFails \/ KillSink
    PROVE  SourceInv' /\ log'["source"] = log["source"]
<1>1. /\ UNCHANGED <<srcPc, srcStore, todo, attempt, written, confirmed>>
      /\ UNCHANGED log \/ SinkMarker \/ KillSink
  BY DEF SinkStep, Accept, ReceiveAndVerify, Reject, SinkMarker, SinkTruncate, SinkSave,
         SendAck, AckFails, StartSink, Stranger, SnapshotFails, KillSink,
         disks, source, history
<1>2. log'["source"] = log["source"]
  BY <1>1 DEF DaemonInv, Types, Node, SinkMarker, KillSink, AppendOp, CutShort
<1> QED BY <1>1, <1>2, SourceRests DEF DaemonInv
-----------------------------------------------------------------------------
(* The connections.                                                        *)

LEMMA HeldFacts ==
    ASSUME Types
    PROVE  /\ Held \subseteq Connection
           /\ \A i \in 1..Len(backlog) : backlog[i] \in Held
           /\ conn # Nothing => conn \in Held
           /\ \A c \in Held : \/ c = conn /\ conn # Nothing
                             \/ \E i \in 1..Len(backlog) : c = backlog[i]
           /\ Connected <=> \E c \in Held : c.live
<1>1. \A i \in 1..Len(backlog) : backlog[i] \in Connection
  BY DEF Types
<1>2. DOMAIN backlog = 1..Len(backlog)
  BY DEF Types
<1>3. Held \subseteq Connection
  BY <1>1 DEF Held, Types
<1>4. Connected <=> \E c \in Held : c.live
  BY <1>2 DEF Held, Connected, LiveInBacklog
<1> QED BY <1>3, <1>4 DEF Held

\* A source that has no connection left holds none.
LEMMA NoneLive ==
    ASSUME Types, HeldInv, srcPc \notin {"send", "await"} \/ ~Connected
    PROVE  \A c \in Held : ~c.live
BY HeldFacts DEF HeldInv, Honest

\* Connections nobody holds any more stay honest whatever the source does.
LEMMA UnheldStayHonest ==
    ASSUME HeldInv, sent \subseteq sent', confirmed' = confirmed, ack' \in {ack, Nothing},
           Unglued("source")' => Unglued("source"),
           \A d \in Held' : ~d.live /\ \E c \in Held : d.msg = c.msg
    PROVE  HeldInv'
<1> SUFFICES ASSUME NEW d \in Held' PROVE Honest(d)'
  BY DEF HeldInv
<1>1. PICK c \in Held : d.msg = c.msg /\ ~d.live
  OBVIOUS
<1>2. Verifies(d.msg) => /\ d.msg.entries \in sent /\ ack = Nothing
                         /\ Unglued("source") => confirmed \subseteq StateRoot(d.msg.entries)
  BY <1>1 DEF HeldInv, Honest
<1> QED BY <1>1, <1>2 DEF Honest

\* So do those that are left when some are ended.
LEMMA FewerStayHonest ==
    ASSUME HeldInv, UNCHANGED <<srcPc, srcStore, ack, sent, confirmed>>, Held' \subseteq Held,
           Unglued("source")' => Unglued("source")
    PROVE  HeldInv'
<1> SUFFICES ASSUME NEW c \in Held PROVE Honest(c)'
  BY DEF HeldInv
<1> QED BY DEF HeldInv, Honest

\* Held after an attempt is given up.
LEMMA AbandonHeld ==
    ASSUME Types, Types', Abandon
    PROVE  \A d \in Held' : ~d.live /\ \E c \in Held : d.msg = c.msg
<1> SUFFICES ASSUME NEW d \in Held'
             PROVE  ~d.live /\ \E c \in Held : d.msg = c.msg
  OBVIOUS
<1>1. (d = conn' /\ conn' # Nothing) \/ \E i \in 1..Len(backlog') : d = backlog'[i]
  BY DEF Held
<1>2. PICK c \in Held : d = Dropped(c)
  BY <1>1, AbandonFacts, HeldFacts
<1> QED BY <1>2, HeldFacts, DroppedFacts

\* A line once glued stays in the log.
LEMMA GluedStays ==
    ASSUME DaemonInv, [Next]_vars, NEW node \in Node, Unglued(node)'
    PROVE  Unglued(node)
<1> USE DEF vars, disks, source, sink, network, counters, history
<1>0. /\ Types /\ SourceInv /\ "source" \in Node /\ "sink" \in Node
      /\ log \in [Node -> LogFiles] /\ log[node] \in LogOf(WalOp)
  BY DEF DaemonInv, Types, Node, LogFiles, LogOf
<1>1. CASE UNCHANGED log
  BY <1>1 DEF Unglued
<1>2. CASE SourceApply
  <2>1. Head(todo) \in WalOp /\ AppendOp("source", Head(todo))
    BY <1>0, <1>2, SourceOpFacts DEF SourceApply
  <2> QED BY <1>0, <2>1, AppendType, KeptAppend DEF Unglued
<1>3. CASE SourceMarker \/ SinkMarker
  <2>1. PICK n \in Node, s \in Store : AppendOp(n, CheckpointOp(s))
    BY <1>0, <1>3 DEF SourceMarker, SinkMarker, Types
  <2>2. CheckpointOp(s) \in WalOp
    BY StoreFacts DEF CheckpointOp
  <2> QED BY <1>0, <2>1, <2>2, AppendType, KeptAppend DEF Unglued
<1>4. CASE (KillSource \/ KillSink) /\ ~UNCHANGED log
  <2>1. PICK n \in Node, bytes \in WalOp \cup {Torn} : CutShort(n, bytes)
    <3>1. CASE KillSource
      BY <1>0, <1>4, <3>1, SourceOpFacts DEF KillSource
    <3>2. CASE KillSink
      BY <1>0, <1>4, <3>2, StoreFacts DEF KillSink, CheckpointOp, Types
    <3> QED BY <1>4, <3>1, <3>2
  <2> QED BY <1>0, <2>1, CutType, KeptCut DEF Unglued
<1>5. UNCHANGED log \/ SourceApply \/ SourceMarker \/ SinkMarker \/ KillSource \/ KillSink
  BY DEF Next, SourceStep, SinkStep, SourceTruncate, SourceSave, Refused, Connect, Send, Closed,
         ReceiveAck, Accept, ReceiveAndVerify, Reject, SinkTruncate, SinkSave, SendAck, AckFails,
         StartSource, StartSink, GiveUp, Stranger, SnapshotFails
<1> QED BY <1>1, <1>2, <1>3, <1>4, <1>5

LEMMA SourceKeepsConnections ==
    ASSUME DaemonInv, Types', SourceStep \/ StartSource \/ GiveUp \/ KillSource
    PROVE  HeldInv' /\ OneLive'
<1> USE DEF disks, source, sink, network, counters, history
<1>0. Types /\ HeldInv /\ OneLive /\ SourceInv
  BY DEF DaemonInv
<1>g. Unglued("source")' => Unglued("source")
  BY GluedStays DEF Next, Node
<1>1. CASE SourceApply \/ SourceMarker \/ SourceTruncate \/ SourceSave \/ StartSource
           \/ Refused \/ Closed
  <2>1. /\ UNCHANGED <<backlog, conn, ack, sent, confirmed>>
        /\ srcPc \notin {"send", "await"} \/ ~Connected
        /\ srcPc = "await" => ack = Nothing
    BY <1>1 DEF SourceApply, SourceMarker, SourceTruncate, SourceSave, StartSource,
                Refused, Closed
  <2>2. Held' = Held /\ \A c \in Held : ~c.live
    BY <1>0, <2>1, NoneLive DEF Held
  <2>3. HeldInv'
    BY <1>0, <1>g, <2>1, <2>2, UnheldStayHonest
  <2>4. OneLive'
    BY <1>0, <2>1 DEF OneLive
  <2> QED BY <2>3, <2>4
<1>2. CASE Connect
  <2>0. PICK new : new = [live |-> TRUE, msg |-> Nothing]
    OBVIOUS
  <2>1. /\ srcPc = "connect" /\ srcPc' = "send" /\ backlog' = Append(backlog, new)
        /\ UNCHANGED <<srcStore, conn, ack, sent, confirmed>> /\ ack = Nothing
        /\ new.live /\ new.msg = Nothing
    BY <1>0, <1>2, <2>0 DEF Connect, OneLive
  <2>2. \A c \in Held : ~c.live
    BY <1>0, <2>1, NoneLive
  <2>3. PICK n \in Nat : n = Len(backlog)
    BY <1>0 DEF Types
  <2>4. /\ Len(backlog') = n + 1 /\ backlog'[n + 1] = new
        /\ \A i \in 1..n : backlog'[i] = backlog[i]
    BY <1>0, <2>1, <2>3 DEF Types
  <2>5. \A i \in 1..n : ~backlog[i].live
    BY <1>0, <2>2, <2>3, HeldFacts
  <2>6. Held' \subseteq Held \cup {new}
    <3> SUFFICES ASSUME NEW d \in Held' PROVE d \in Held \cup {new}
      OBVIOUS
    <3>1. (d = conn' /\ conn' # Nothing) \/ \E i \in 1..(n + 1) : d = backlog'[i]
      BY <2>4 DEF Held
    <3>2. ASSUME NEW i \in 1..(n + 1), d = backlog'[i] PROVE d \in Held \cup {new}
      <4>1. CASE i \in 1..n
        BY <1>0, <2>3, <2>4, <3>2, <4>1, HeldFacts
      <4>2. CASE i = n + 1
        BY <2>4, <3>2, <4>2
      <4> QED BY <4>1, <4>2
    <3> QED BY <1>0, <2>1, <3>1, <3>2, HeldFacts
  <2>7. HeldInv'
    <3> SUFFICES ASSUME NEW c \in Held' PROVE Honest(c)'
      BY DEF HeldInv
    <3>1. CASE c = new
      BY <2>1, <3>1 DEF Honest, Verifies
    <3>2. CASE c \in Held
      <4>1. Honest(c) /\ ~c.live
        BY <1>0, <2>2, <3>2 DEF HeldInv
      <4> QED BY <1>g, <2>1, <4>1 DEF Honest
    <3> QED BY <2>6, <3>1, <3>2
  <2>8. OneLive'
    <3>1. \A i \in 1..(n + 1) : backlog'[i].live => i = n + 1
      BY <2>4, <2>5
    <3>2. conn' # Nothing => ~conn'.live
      BY <1>0, <2>1, <2>2, HeldFacts
    <3> QED BY <2>1, <2>4, <3>1, <3>2 DEF OneLive
  <2> QED BY <2>7, <2>8
<1>3. CASE Send
  <2>1. /\ srcPc = "send" /\ srcPc' = "await" /\ sent' = sent \cup {srcStore} /\ ack = Nothing
        /\ UNCHANGED <<srcStore, ack, confirmed>>
    BY <1>0, <1>3 DEF Send, OneLive
  <2>2. \A d \in Held' : \E c \in Held : d = Filled(c)
    <3> SUFFICES ASSUME NEW d \in Held' PROVE \E c \in Held : d = Filled(c)
      OBVIOUS
    <3>1. (d = conn' /\ conn' # Nothing) \/ \E i \in 1..Len(backlog') : d = backlog'[i]
      BY DEF Held
    <3> QED BY <1>0, <1>3, <3>1, SendFacts, HeldFacts
  <2>3. (Unglued("source") => confirmed \subseteq StateRoot(srcStore)) /\ srcStore \in Store
    BY <1>0, <2>1 DEF SourceInv, Types
  <2>4. HeldInv'
    <3> SUFFICES ASSUME NEW d \in Held' PROVE Honest(d)'
      BY DEF HeldInv
    <3>1. PICK c \in Held : d = Filled(c)
      BY <2>2
    <3>2. /\ Honest(c) /\ c \in Connection /\ d.live = c.live
          /\ d.msg = IF c.live THEN SyncSnapshot(srcStore) ELSE c.msg
      BY <1>0, <1>3, <3>1, HeldFacts, SendFacts DEF HeldInv
    <3>3. CASE c.live
      <4>1. d.live /\ d.msg = SyncSnapshot(srcStore) /\ d.msg.entries = srcStore
        BY <2>3, <3>2, <3>3, StoreFacts
      <4>2. SyncSnapshot(srcStore)' = SyncSnapshot(srcStore)
        BY <2>1 DEF SyncSnapshot
      <4> QED BY <1>g, <2>1, <2>3, <4>1, <4>2 DEF Honest
    <3>4. CASE ~c.live
      <4>1. ~d.live /\ d.msg = c.msg
        BY <3>2, <3>4
      <4> QED BY <1>g, <2>1, <3>2, <4>1 DEF Honest
    <3> QED BY <3>3, <3>4
  <2>5. OneLive'
    <3>1. \A i \in 1..Len(backlog) : backlog'[i].live = backlog[i].live
      BY <1>0, <1>3, SendFacts DEF Types
    <3>2. conn' # Nothing => conn # Nothing /\ conn'.live = conn.live
      BY <1>0, <1>3, SendFacts DEF Types
    <3> QED BY <1>0, <1>3, <2>1, <3>1, <3>2, SendFacts DEF OneLive
  <2> QED BY <2>4, <2>5
<1>4. CASE GiveUp \/ KillSource \/ ReceiveAck
  <2>1. Abandon /\ sent' = sent
    BY <1>4 DEF GiveUp, KillSource, ReceiveAck
  <2>2. \A d \in Held' : ~d.live /\ \E c \in Held : d.msg = c.msg
    BY <1>0, <2>1, AbandonHeld
  <2>3. ack' = Nothing
    BY <1>0, <2>1, AbandonFacts
  <2>4. HeldInv'
    <3>1. CASE confirmed' = confirmed
      BY <1>0, <1>g, <2>1, <2>2, <2>3, <3>1, UnheldStayHonest
    <3>2. CASE confirmed' # confirmed
      <4>1. ack # Nothing
        BY <1>4, <3>2 DEF GiveUp, KillSource, ReceiveAck
      <4>2. \A c \in Held : ~Verifies(c.msg)
        BY <1>0, <4>1 DEF HeldInv, Honest
      <4> QED BY <2>2, <4>2 DEF HeldInv, Honest
    <3> QED BY <3>1, <3>2
  <2>5. OneLive'
    <3>1. \A i \in 1..Len(backlog') : ~backlog'[i].live
      BY <2>2 DEF Held
    <3>2. conn' # Nothing => ~conn'.live
      BY <2>2 DEF Held
    <3> QED BY <2>3, <3>1, <3>2 DEF OneLive
  <2> QED BY <2>4, <2>5
<1> QED BY <1>1, <1>2, <1>3, <1>4 DEF SourceStep

LEMMA SinkKeepsConnections ==
    ASSUME DaemonInv, Types', SinkStep \/ StartSink \/ Stranger \/ SnapshotFails \/ KillSink
    PROVE  HeldInv' /\ OneLive'
<1> USE DEF disks, source, sink, network, counters, history
<1>0. Types /\ HeldInv /\ OneLive /\ SinkInv
  BY DEF DaemonInv
<1>g. Unglued("source")' => Unglued("source")
  BY SinkLeavesTheSource DEF Unglued
<1>1. CASE ReceiveAndVerify \/ SinkMarker \/ SinkTruncate \/ SinkSave \/ StartSink
  <2>1. UNCHANGED <<srcPc, srcStore, backlog, conn, ack, sent, confirmed>>
    BY <1>1 DEF ReceiveAndVerify, SinkMarker, SinkTruncate, SinkSave, StartSink
  <2>2. Held' = Held /\ OneLive'
    BY <1>0, <2>1 DEF Held, OneLive
  <2> QED BY <1>0, <1>g, <2>1, <2>2, FewerStayHonest
<1>2. CASE Reject \/ AckFails \/ SnapshotFails
  <2>1. UNCHANGED <<srcPc, srcStore, backlog, ack, sent, confirmed>> /\ conn' = Nothing
    BY <1>2 DEF Reject, AckFails, SnapshotFails
  <2>2. Held' \subseteq Held /\ OneLive'
    BY <1>0, <2>1 DEF Held, OneLive
  <2> QED BY <1>0, <1>g, <2>1, <2>2, FewerStayHonest
<1>3. CASE Accept
  <2>1. /\ UNCHANGED <<srcPc, srcStore, ack, sent, confirmed>>
        /\ backlog # <<>> /\ conn' = Head(backlog) /\ backlog' = Tail(backlog)
    BY <1>3 DEF Accept
  <2>2. PICK n \in Nat : n = Len(backlog) /\ n > 0
    BY <1>0, <2>1 DEF Types
  <2>3. /\ conn' = backlog[1] /\ Len(backlog') = n - 1 /\ 1 \in 1..n
        /\ \A i \in 1..(n - 1) : i + 1 \in 1..n /\ i + 1 # 1 /\ backlog'[i] = backlog[i + 1]
    BY <1>0, <2>1, <2>2 DEF Types
  <2>4. Held' \subseteq Held
    BY <1>0, <2>2, <2>3 DEF Held
  <2>5. OneLive'
    <3>0. \A i, j \in 1..n : backlog[i].live /\ backlog[j].live => i = j
      BY <1>0, <2>2 DEF OneLive
    <3>1. \A i, j \in 1..(n - 1) : backlog'[i].live /\ backlog'[j].live => i = j
      <4> SUFFICES ASSUME NEW i \in 1..(n - 1), NEW j \in 1..(n - 1),
                          backlog'[i].live /\ backlog'[j].live
                   PROVE  i = j
        OBVIOUS
      <4>1. i + 1 = j + 1
        BY <2>3, <3>0
      <4> QED BY <4>1
    <3>2. conn'.live => \A i \in 1..(n - 1) : ~backlog'[i].live
      BY <2>3, <3>0
    <3> QED BY <1>0, <2>1, <2>3, <3>1, <3>2 DEF OneLive
  <2> QED BY <1>0, <1>g, <2>1, <2>4, <2>5, FewerStayHonest
<1>4. CASE SendAck \/ KillSink
  <2>1. backlog' = <<>> /\ conn' = Nothing /\ srcPc' = srcPc
    BY <1>4 DEF SendAck, KillSink, ResetAll
  <2>2. Held' = {}
    BY <2>1 DEF Held
  <2>3. ack' # Nothing => srcPc = "await"
    <3>1. CASE ack' = ack
      BY <1>0, <3>1 DEF OneLive
    <3>2. CASE ack' # ack
      <4>1. snkPc = "ack" /\ conn.live
        BY <1>4, <3>2 DEF SendAck, KillSink
      <4>2. conn \in Held /\ Verifies(conn.msg)
        BY <1>0, <4>1, HeldFacts DEF Types, SinkInv
      <4> QED BY <1>0, <4>1, <4>2 DEF HeldInv, Honest, Verifies
    <3> QED BY <3>1, <3>2
  <2> QED BY <2>1, <2>2, <2>3 DEF HeldInv, OneLive
<1>5. CASE Stranger
  <2>1. PICK m \in {Nothing, Mismatched} :
            backlog' = Append(backlog, [live |-> FALSE, msg |-> m])
    BY <1>5 DEF Stranger
  <2>0. PICK new : new = [live |-> FALSE, msg |-> m]
    OBVIOUS
  <2>2. ~new.live /\ new.msg = m
    BY <2>0
  <2>3. ~Verifies(m)
    BY StrangersFail DEF Verifies
  <2>4. UNCHANGED <<srcPc, srcStore, conn, ack, sent, confirmed>>
    BY <1>5 DEF Stranger
  <2>5. PICK n \in Nat : n = Len(backlog)
    BY <1>0 DEF Types
  <2>6. /\ Len(backlog') = n + 1 /\ backlog'[n + 1] = new
        /\ \A i \in 1..n : backlog'[i] = backlog[i]
    BY <1>0, <2>1, <2>0, <2>5 DEF Types
  <2>7. \A i \in 1..(n + 1) : i \in 1..n \/ i = n + 1
    OBVIOUS
  <2>8. Held' \subseteq Held \cup {new}
    <3> SUFFICES ASSUME NEW d \in Held' PROVE d \in Held \cup {new}
      OBVIOUS
    <3>1. (d = conn' /\ conn' # Nothing) \/ \E i \in 1..(n + 1) : d = backlog'[i]
      BY <2>6 DEF Held
    <3> QED BY <1>0, <2>4, <2>5, <2>6, <2>7, <3>1, HeldFacts
  <2>9. HeldInv'
    <3> SUFFICES ASSUME NEW c \in Held' PROVE Honest(c)'
      BY DEF HeldInv
    <3>1. CASE c = new
      BY <2>2, <2>3, <3>1 DEF Honest
    <3>2. CASE c \in Held
      <4>1. Honest(c)
        BY <1>0, <3>2 DEF HeldInv
      <4> QED BY <1>g, <2>4, <4>1 DEF Honest
    <3> QED BY <2>8, <3>1, <3>2
  <2>10. OneLive'
    <3>1. \A i \in 1..(n + 1) : backlog'[i].live => i \in 1..n /\ backlog[i].live
      BY <2>2, <2>6, <2>7
    <3> QED BY <1>0, <2>4, <2>5, <2>6, <3>1 DEF OneLive
  <2> QED BY <2>9, <2>10
<1> QED BY <1>1, <1>2, <1>3, <1>4, <1>5 DEF SinkStep
-----------------------------------------------------------------------------
(* The sink.                                                               *)

\* The source writes to its own disk only, and no ack is on its way after
\* one of its steps.
LEMMA SourceLeavesTheSink ==
    ASSUME DaemonInv, SourceStep \/ StartSource \/ GiveUp \/ KillSource
    PROVE  /\ log'["sink"] = log["sink"] /\ file'["sink"] = file["sink"]
           /\ UNCHANGED <<snkPc, snkStore, cutOff>>
           /\ sent \subseteq sent' /\ ack' = Nothing
           /\ confirmed' = confirmed \/ (ack # Nothing /\ confirmed' = ack)
           /\ Verifies(conn.msg) /\ conn # Nothing => conn'.msg = conn.msg
<1> USE DEF disks, source, sink, network, counters, history
<1>0. /\ Types /\ HeldInv /\ (ack # Nothing => srcPc = "await")
      /\ log \in [Node -> LogFiles] /\ "sink" \in Node /\ "source" \in Node
      /\ file \in [Node -> SnapshotFile \cup {NoFile, Truncated}]
  BY DEF DaemonInv, Types, OneLive, Node
<1>1. CASE SourceApply \/ SourceMarker
  BY <1>0, <1>1 DEF SourceApply, SourceMarker, AppendOp
<1>2. CASE SourceTruncate \/ SourceSave
  BY <1>0, <1>2 DEF SourceTruncate, SourceSave, WriteFile
<1>3. CASE Refused \/ Connect \/ Closed \/ StartSource
  BY <1>0, <1>3 DEF Refused, Connect, Closed, StartSource
<1>4. CASE Send
  <2>1. Verifies(conn.msg) /\ conn # Nothing => ~conn.live
    <3> SUFFICES ASSUME Verifies(conn.msg), conn # Nothing, conn.live PROVE FALSE
      OBVIOUS
    <3>1. Honest(conn) /\ conn.msg # Nothing /\ srcPc = "send"
      BY <1>0, <1>4, HeldFacts DEF HeldInv, Verifies, Send
    <3> QED BY <3>1 DEF Honest
  <2> QED BY <1>0, <1>4, <2>1 DEF Send
<1>5. CASE GiveUp \/ KillSource \/ ReceiveAck
  <2>1. Abandon /\ UNCHANGED <<file, snkPc, snkStore, cutOff, sent>>
    BY <1>5 DEF GiveUp, KillSource, ReceiveAck
  <2>4. log'["sink"] = log["sink"]
    BY <1>0, <1>5 DEF GiveUp, KillSource, ReceiveAck, CutShort
  <2>2. confirmed' = confirmed \/ (ack # Nothing /\ confirmed' = ack)
    BY <1>5 DEF GiveUp, KillSource, ReceiveAck
  <2>3. conn # Nothing => conn'.msg = conn.msg
    BY <1>0, <2>1, DroppedFacts DEF Abandon, Types
  <2> QED BY <2>1, <2>2, <2>3, <2>4 DEF Abandon
<1> QED BY <1>1, <1>2, <1>3, <1>4, <1>5 DEF SourceStep

LEMMA SourceKeepsTheSink ==
    ASSUME DaemonInv, SourceStep \/ StartSource \/ GiveUp \/ KillSource
    PROVE  SinkInv'
<1>0. Types /\ SinkInv
  BY DEF DaemonInv
<1>1. /\ log'["sink"] = log["sink"] /\ file'["sink"] = file["sink"]
      /\ UNCHANGED <<snkPc, snkStore, cutOff>>
      /\ sent \subseteq sent' /\ ack' = Nothing
      /\ confirmed' = confirmed \/ (ack # Nothing /\ confirmed' = ack)
      /\ Verifies(conn.msg) /\ conn # Nothing => conn'.msg = conn.msg
  BY SourceLeavesTheSink
<1>2. /\ Recovered("sink")' = Recovered("sink") /\ (Unglued("sink")' <=> Unglued("sink"))
      /\ Unglued("source")' => Unglued("source")
  BY <1>1, GluedStays DEF Recovered, Unglued, Next, Node
<1>3. AckMeansSaved'
  BY <1>1 DEF AckMeansSaved
<1>4. ConfirmedIsKept'
  <2>1. CASE confirmed' = confirmed
    BY <1>0, <1>1, <1>2, <2>1 DEF SinkInv, ConfirmedIsKept, InCheckpoint
  <2>2. CASE ack # Nothing /\ confirmed' = ack
    BY <1>0, <1>2, <2>2 DEF SinkInv, AckMeansSaved, ConfirmedIsKept
  <2> QED BY <1>1, <2>1, <2>2
<1>5. snkPc \in {"marker", "truncate", "save", "ack"} =>
         Verifies(conn.msg) /\ conn'.msg = conn.msg /\ snkStore = conn.msg.entries
  BY <1>0, <1>1 DEF SinkInv, Types
<1>6. log'["sink"] \in LogOf(Markers) /\ (Loads(file'["sink"]) => file'["sink"].entries \in sent')
  BY <1>0, <1>1 DEF SinkInv
<1>7. snkPc' \in {"marker", "truncate", "save", "ack"} =>
         Verifies(conn'.msg) /\ snkStore' = conn'.msg.entries
  BY <1>1, <1>5
<1>8. snkPc' \in {"truncate", "save", "ack"} =>
         /\ log'["sink"].tail = Clean
         /\ Unglued("sink")' =>
               /\ log'["sink"].lines # <<>>
               /\ log'["sink"].lines[Len(log'["sink"].lines)].root = StateRoot(snkStore')
  BY <1>0, <1>1, <1>2 DEF SinkInv
<1>9. snkPc' = "ack" => file'["sink"] = FromStore(snkStore', SyncHeight)
  BY <1>0, <1>1 DEF SinkInv
<1> QED BY <1>3, <1>4, <1>6, <1>7, <1>8, <1>9 DEF SinkInv

\* Without a glued line, a file whose snapshot goes with the last marker is
\* what the sink recovers.
LEMMA SinkSaved ==
    ASSUME log["sink"] \in LogOf(Markers), snkStore \in Store, ~HasGlued(log["sink"]),
           log["sink"].tail = Clean, log["sink"].lines # <<>>,
           log["sink"].lines[Len(log["sink"].lines)].root = StateRoot(snkStore)
    PROVE  /\ Replays("sink")
           /\ RecoverFrom(Kept(log["sink"]), FromStore(snkStore, SyncHeight)) = snkStore
<1>1. Markers \subseteq WalOp /\ Clean \notin Markers
  BY SyncdAssumption DEF WalOp
<1>2. Opens(log["sink"]) /\ Kept(log["sink"]) = log["sink"].lines /\ log["sink"].lines \in Seq(Markers)
  BY <1>1, KeptOps
<1> QED BY <1>2, SavedIsRecovered DEF Opens, Replays

LEMMA SinkKeepsItsDisk ==
    ASSUME DaemonInv, SinkStep \/ StartSink \/ Stranger \/ SnapshotFails \/ KillSink
    PROVE  SinkInv'
<1> USE DEF disks, source, sink, network, counters, history
<1>0. /\ Types /\ HeldInv /\ SinkInv /\ "sink" \in Node
      /\ log["sink"] \in LogOf(Markers) /\ snkStore \in Store
      /\ file \in [Node -> SnapshotFile \cup {NoFile, Truncated}]
      /\ Markers \subseteq WalOp /\ Clean \notin Markers
  BY SyncdAssumption DEF DaemonInv, Types, Node, SinkInv, WalOp
\* A checkpoint that goes on holds a state that was sent, that is no older
\* than what was confirmed, and for which no ack is on its way.
<1>a. snkPc \in {"marker", "truncate", "save", "ack"} =>
         /\ conn \in Held /\ Verifies(conn.msg) /\ snkStore = conn.msg.entries
         /\ snkStore \in sent /\ ack = Nothing
         /\ Unglued("source") => confirmed \subseteq StateRoot(snkStore)
  BY <1>0, HeldFacts DEF SinkInv, Types, HeldInv, Honest
<1>g. Unglued("source")' <=> Unglued("source")
  BY SinkLeavesTheSource DEF Unglued
<1>1. CASE Accept \/ Reject \/ AckFails \/ StartSink \/ SnapshotFails \/ (KillSink /\ UNCHANGED log)
  <2>1. /\ UNCHANGED <<log, file, sent, confirmed, ack, srcStore>>
        /\ snkPc' \in {"off", "listen", "receive"}
        /\ cutOff' \/ (~cutOff /\ ~InCheckpoint)
    BY <1>0, <1>1 DEF Types, Accept, Reject, AckFails, StartSink, SnapshotFails, KillSink, InCheckpoint
  <2>2. /\ Recovered("sink")' = Recovered("sink") /\ Replays("sink")' = Replays("sink")
        /\ Unglued("sink")' = Unglued("sink")
    BY <2>1 DEF Recovered, Replays, Unglued
  <2>3. AckMeansSaved'
    BY <1>0, <2>1, <2>2 DEF SinkInv, AckMeansSaved
  <2>4. ConfirmedIsKept'
    BY <1>0, <1>g, <2>1, <2>2 DEF SinkInv, ConfirmedIsKept
  <2> QED BY <1>0, <2>1, <2>3, <2>4 DEF SinkInv
<1>2. CASE Stranger
  <2>1. UNCHANGED <<log, file, sent, confirmed, ack, srcStore, snkPc, snkStore, conn, cutOff>>
    BY <1>2 DEF Stranger
  <2>2. AckMeansSaved' /\ ConfirmedIsKept'
    BY <1>0, <2>1 DEF SinkInv, AckMeansSaved, ConfirmedIsKept, Recovered, Replays, Unglued, InCheckpoint
  <2> QED BY <1>0, <2>1, <2>2 DEF SinkInv, Unglued
<1>3. CASE ReceiveAndVerify
  <2>1. /\ UNCHANGED <<log, file, sent, confirmed, ack, srcStore, conn, cutOff>>
        /\ snkPc = "receive" /\ snkPc' = "marker"
        /\ Verifies(conn.msg) /\ snkStore' = conn.msg.entries
    BY <1>3 DEF ReceiveAndVerify
  <2>2. AckMeansSaved' /\ ConfirmedIsKept'
    BY <1>0, <2>1 DEF SinkInv, AckMeansSaved, ConfirmedIsKept, Recovered, Replays, Unglued, InCheckpoint
  <2> QED BY <1>0, <2>1, <2>2 DEF SinkInv, Unglued
<1>4. CASE SinkMarker
  <2>1. PICK m \in Markers : m = CheckpointOp(snkStore)
    BY <1>0, StoreFacts DEF CheckpointOp
  <2>2. /\ log'["sink"] = AppendNewline(AppendBytes(log["sink"], m))
        /\ UNCHANGED <<file, sent, confirmed, ack, srcStore, conn, snkStore>>
        /\ snkPc = "marker" /\ snkPc' = "truncate"
    BY <1>0, <1>4, <2>1, AppendType DEF SinkMarker
  <2>3. m.root = StateRoot(snkStore)
    BY <2>1 DEF CheckpointOp, Marker
  <2>4. /\ log'["sink"] \in LogOf(Markers) /\ log'["sink"].tail = Clean
        /\ ~HasGlued(log'["sink"]) => log'["sink"].lines = Append(log["sink"].lines, m)
    BY <1>0, <2>2, KeptAppend
  <2>5. Unglued("sink")' => /\ log'["sink"].lines # <<>>
                            /\ log'["sink"].lines[Len(log'["sink"].lines)].root = StateRoot(snkStore)
    <3>1. PICK lines \in Seq(Markers \cup {Glued}) : lines = log["sink"].lines
      BY <1>0 DEF LogOf
    <3>a. Append(lines, m) # <<>> /\ Append(lines, m)[Len(Append(lines, m))] = m
      <4>1. Len(Append(lines, m)) = Len(lines) + 1 /\ Len(lines) \in Nat
        BY <2>1
      <4> QED BY <4>1
    <3>2. /\ Append(log["sink"].lines, m) # <<>>
          /\ Append(log["sink"].lines, m)[Len(Append(log["sink"].lines, m))] = m
      BY <3>1, <3>a
    <3> QED BY <2>3, <2>4, <3>2 DEF Unglued
  <2>6. AckMeansSaved' /\ ConfirmedIsKept'
    BY <1>a, <2>2 DEF AckMeansSaved, ConfirmedIsKept, InCheckpoint
  <2> QED BY <1>0, <1>a, <2>2, <2>4, <2>5, <2>6 DEF SinkInv
<1>5. CASE SinkTruncate
  <2>1. /\ file'["sink"] = Truncated
        /\ UNCHANGED <<log, sent, confirmed, ack, srcStore, conn, snkStore>>
        /\ snkPc = "truncate" /\ snkPc' = "save"
    BY <1>0, <1>5 DEF SinkTruncate, WriteFile
  <2>2. ~Loads(file'["sink"])
    BY <2>1 DEF Loads
  <2>3. AckMeansSaved' /\ ConfirmedIsKept'
    BY <1>a, <2>1 DEF AckMeansSaved, ConfirmedIsKept, InCheckpoint
  <2> QED BY <1>0, <1>a, <2>1, <2>2, <2>3 DEF SinkInv, Unglued
<1>6. CASE SinkSave
  <2>1. /\ file'["sink"] = FromStore(snkStore, SyncHeight)
        /\ UNCHANGED <<log, sent, confirmed, ack, srcStore, conn, snkStore>>
        /\ snkPc = "save" /\ snkPc' = "ack"
    BY <1>0, <1>6 DEF SinkSave, WriteFile
  <2>2. Unglued("sink") => Recovered("sink")' = snkStore
    BY <1>0, <2>1, SinkSaved DEF SinkInv, Recovered, Unglued
  <2>3. file'["sink"].entries \in sent
    BY <1>0, <1>a, <2>1, StoreFacts
  <2>4. AckMeansSaved' /\ ConfirmedIsKept'
    BY <1>a, <1>g, <2>1, <2>2 DEF AckMeansSaved, ConfirmedIsKept, Unglued
  <2> QED BY <1>0, <1>a, <2>1, <2>3, <2>4 DEF SinkInv, Unglued
<1>7. CASE SendAck
  <2>1. /\ UNCHANGED <<log, file, sent, confirmed, srcStore, snkStore, cutOff>>
        /\ snkPc = "ack" /\ snkPc' = "off"
        /\ ack' = IF conn.live THEN StateRoot(snkStore) ELSE ack
    BY <1>7 DEF SendAck
  <2>2. Unglued("sink") => Replays("sink") /\ Recovered("sink") = snkStore
    BY <1>0, <2>1, SinkSaved DEF SinkInv, Recovered, Unglued
  <2>3. conn.live => snkStore = srcStore
    <3> SUFFICES ASSUME conn.live PROVE snkStore = srcStore
      OBVIOUS
    <3>1. conn.msg = SyncSnapshot(srcStore)
      BY <1>0, <1>a, <2>1 DEF HeldInv, Honest, Verifies
    <3> QED BY <1>0, <1>a, <2>1, <3>1, StoreFacts DEF Types
  <2>4. /\ Recovered("sink")' = Recovered("sink") /\ Replays("sink")' = Replays("sink")
        /\ Unglued("sink")' = Unglued("sink")
    BY <2>1 DEF Recovered, Replays, Unglued
  <2>5. AckMeansSaved'
    BY <1>a, <2>1, <2>2, <2>3, <2>4 DEF AckMeansSaved
  <2>6. ConfirmedIsKept'
    BY <1>a, <1>g, <2>1, <2>2, <2>4 DEF ConfirmedIsKept
  <2> QED BY <1>0, <2>1, <2>5, <2>6 DEF SinkInv
<1>8. CASE KillSink /\ ~UNCHANGED log
  <2>1. /\ snkPc = "marker" /\ snkPc' = "off" /\ UNCHANGED <<file, sent, confirmed, ack, srcStore>>
        /\ \/ CutShort("sink", Torn) /\ UNCHANGED cutOff
           \/ CutShort("sink", CheckpointOp(snkStore)) /\ cutOff'
    BY <1>8 DEF KillSink
  <2>2. CheckpointOp(snkStore) \in Markers /\ ~InCheckpoint
    BY <1>0, <2>1, StoreFacts DEF CheckpointOp, InCheckpoint
  <2>3. PICK b \in Markers \cup {Torn} :
            log'["sink"] = AppendBytes(log["sink"], b) /\ (cutOff' \/ (b = Torn /\ cutOff' = cutOff))
    <3>1. CASE CutShort("sink", Torn) /\ UNCHANGED cutOff
      BY <1>0, <3>1, CutType
    <3>2. CASE CutShort("sink", CheckpointOp(snkStore)) /\ cutOff'
      BY <1>0, <2>2, <3>2, CutType
    <3> QED BY <2>1, <3>1, <3>2
  <2>4. /\ log'["sink"] \in LogOf(Markers)
        /\ ~HasGlued(log'["sink"]) => /\ ~HasGlued(log["sink"])
                                      /\ b = Torn => Kept(log'["sink"]) = Kept(log["sink"])
    BY <1>0, <2>3, KeptCut
  <2>5. ~cutOff' /\ Unglued("sink")' => Unglued("sink") /\ Recovered("sink")' = Recovered("sink")
    BY <2>1, <2>3, <2>4 DEF Unglued, Recovered
  <2>6. AckMeansSaved' /\ ConfirmedIsKept'
    BY <1>0, <1>a, <1>g, <2>1, <2>2, <2>3, <2>5 DEF SinkInv, AckMeansSaved, ConfirmedIsKept
  <2> QED BY <1>0, <2>1, <2>4, <2>6 DEF SinkInv
<1> QED BY <1>1, <1>2, <1>3, <1>4, <1>5, <1>6, <1>7, <1>8 DEF SinkStep
-----------------------------------------------------------------------------
(* The invariant holds, and what follows from it.                          *)

LEMMA DaemonStarts == Init => DaemonInv
<1> SUFFICES ASSUME Init PROVE DaemonInv
  OBVIOUS
<1> USE DEF Init
<1>0. /\ EmptyStore \in Store /\ 0 \in 0..Len(DeterministicTxs) /\ 0 \in 0..Retries + 1
      /\ log["source"] = EmptyLog /\ log["sink"] = EmptyLog /\ file["sink"] = NoFile
  BY EmptyIsStore, SyncdAssumption DEF Node
<1>e. /\ <<>> \in Seq(WalOp) /\ <<>> \in Seq(Connection) /\ <<>> \in Seq(Markers)
      /\ DOMAIN <<>> = {} /\ Len(<<>>) = 0 /\ 1..0 = {}
  OBVIOUS
<1>l. /\ EmptyLog \in LogOf(WalOp) /\ EmptyLog \in LogOf(Markers) /\ EmptyLog \in LogFiles
      /\ EmptyLog.lines = <<>> /\ ~HasGlued(EmptyLog) /\ Kept(EmptyLog) = <<>>
  <2>1. EmptyLog.lines = <<>> /\ EmptyLog.tail = Clean /\ FileLines(EmptyLog) = <<>>
    BY DEF EmptyLog, FileLines
  <2>2. <<>> \in Seq(WalOp \cup {Glued}) /\ <<>> \in Seq(Markers \cup {Glued})
    OBVIOUS
  <2>3. /\ EmptyLog \in LogOf(WalOp) /\ EmptyLog \in LogOf(Markers) /\ EmptyLog \in LogFiles
    BY <2>2 DEF EmptyLog, LogOf, LogFiles
  <2> QED BY <1>e, <2>1, <2>3, LineAssumption DEF HasGlued, Kept
<1>1. Types
  <2>1. log \in [Node -> LogFiles] /\ file \in [Node -> SnapshotFile \cup {NoFile, Truncated}]
    BY <1>l
  <2>2. backlog \in Seq(Connection) /\ conn \in Connection \cup {Nothing}
    BY <1>e
  <2>3. /\ srcPc = "off" /\ snkPc = "off" /\ srcStore \in Store /\ snkStore \in Store
        /\ attempt \in 0..Retries + 1 /\ written \in 0..Len(DeterministicTxs)
        /\ cutOff \in BOOLEAN /\ conn = Nothing
    BY <1>0
  <2> QED BY <2>1, <2>2, <2>3 DEF Types
<1>2. Prefix(0) = EmptyStore
  <2>1. Txs(0) = <<>>
    BY SyncdAssumption DEF Txs
  <2>2. ApplyFrom(EmptyStore, <<>>, 0) = EmptyStore
    BY <1>0, <1>e, MarkersWriteNothing
  <2> QED BY <2>1, <2>2 DEF Prefix, ApplyAll
<1>3. SourceInv
  <2>1. MarkerSound(<<>>)
    BY <1>e DEF MarkerSound, MarkersIn
  <2>2. ApplyFrom(EmptyStore, <<>>, 0) = EmptyStore
    BY <1>0, <1>e, MarkersWriteNothing
  <2>3. 0 \in 0..0
    OBVIOUS
  <2>4. DiskSound(EmptyLog, 0)
    BY <1>2, <1>l, <2>1, <2>2, <2>3 DEF DiskSound, Grounded
  <2>5. StateRoot(EmptyStore) \subseteq StateRoot(Prefix(0))
    BY <1>2
  <2> QED BY <1>0, <2>4, <2>5 DEF SourceInv
<1>4. HeldInv /\ OneLive
  BY <1>e DEF HeldInv, Held, OneLive
<1>5. SinkInv
  <2>1. ~Loads(NoFile)
    BY DEF Loads
  <2>2. StateRoot(EmptyStore) = {}
    BY DEF StateRoot, Entries, EmptyStore
  <2> QED BY <1>0, <1>l, <2>1, <2>2 DEF SinkInv, AckMeansSaved, ConfirmedIsKept
<1> QED BY <1>1, <1>3, <1>4, <1>5 DEF DaemonInv

LEMMA DaemonSteps == DaemonInv /\ [Next]_vars => DaemonInv'
<1> SUFFICES ASSUME DaemonInv, [Next]_vars PROVE DaemonInv'
  OBVIOUS
<1>1. CASE SourceStep \/ StartSource \/ GiveUp \/ KillSource
  <2>1. Types'
    BY <1>1, SourceTypes
  <2> QED BY <1>1, <2>1, SourceKeepsItsLog, SourceKeepsConnections, SourceKeepsTheSink DEF DaemonInv
<1>2. CASE SinkStep \/ StartSink \/ Stranger \/ SnapshotFails \/ KillSink
  <2>1. Types'
    BY <1>2, SinkTypes
  <2> QED BY <1>2, <2>1, SinkLeavesTheSource, SinkKeepsConnections, SinkKeepsItsDisk DEF DaemonInv
<1>3. CASE UNCHANGED vars
  <2> USE <1>3 DEF vars, disks, source, sink, network, counters, history
  <2>1. Types' /\ SourceInv'
    BY SourceRests DEF DaemonInv, Types
  <2>2. HeldInv' /\ OneLive'
    <3>1. Held' = Held /\ OneLive'
      BY DEF DaemonInv, Held, OneLive
    <3> QED BY <3>1, FewerStayHonest DEF DaemonInv, Unglued
  <2>3. SinkInv'
    BY DEF DaemonInv, SinkInv, AckMeansSaved, ConfirmedIsKept, Recovered, Replays, Unglued,
           InCheckpoint
  <2> QED BY <2>1, <2>2, <2>3 DEF DaemonInv
<1> QED BY <1>1, <1>2, <1>3 DEF Next

LEMMA DaemonInvariance == Spec => []DaemonInv
BY DaemonStarts, DaemonSteps, PTL DEF Spec

\* The two processes of kai-sync-node, their files and their connections keep
\* their types, and the source never holds two connections at once.
THEOREM SyncdTypeCorrect == Spec => []TypeOK
BY DaemonInvariance, TypesSuffice, PTL

\* An ack that has reached send_and_await_ack is for the state the source
\* holds, and the sink has that state on disk, whatever earlier attempts the
\* source gave up are still served and wherever either process was killed,
\* unless the sink wrote to a line that a kill inside append_op left open.
THEOREM AcksMeanSaved == Spec => []AckMeansSaved
<1>1. DaemonInv => AckMeansSaved
  BY DEF DaemonInv, SinkInv
<1> QED BY <1>1, DaemonInvariance, PTL

\* receive_and_verify leaves no partial state: the sink recovers nothing or a
\* whole state the source sent, and the source the first of its transactions:
\* all it applied, unless a record was glued to a torn line.
THEOREM NothingPartial == Spec => []NoPartialState
<1>1. DaemonInv => NoPartialState
  <2> SUFFICES ASSUME DaemonInv PROVE NoPartialState
    OBVIOUS
  <2>0. /\ "source" \in Node /\ "sink" \in Node /\ SourceInv /\ SinkInv
        /\ file["sink"] \in SnapshotFile \cup {NoFile, Truncated}
        /\ file["source"] \in SnapshotFile \cup {NoFile, Truncated}
        /\ log["source"] \in LogOf(WalOp) /\ log["sink"] \in LogOf(Markers)
        /\ Markers \subseteq WalOp /\ DiskSound(log["source"], written)
    BY DEF DaemonInv, Types, Node, SinkInv, SourceInv, LogFiles, LogOf, WalOp
  <2>1. Replays("sink") => Recovered("sink") \in sent \cup {EmptyStore}
    <3> SUFFICES ASSUME Replays("sink") PROVE Recovered("sink") \in sent \cup {EmptyStore}
      OBVIOUS
    <3>1. Kept(log["sink"]) \in Seq(Markers)
      BY <2>0, KeptOps DEF Replays, Opens
    <3> QED BY <2>0, <3>1, SinkRecovers DEF Recovered, SinkInv
  <2>2. ASSUME Replays("source")
        PROVE  Recovered("source") = ApplyFrom(EmptyStore, Kept(log["source"]), 0)
    <3>1. MarkerSound(Kept(log["source"]))
      BY <2>0, <2>2 DEF Replays, Opens, DiskSound, Grounded
    <3> QED BY <2>0, <3>1, RecoverSound DEF Recovered
  <2>3. Replays("source") => \E n \in 0..written : Recovered("source") = Prefix(n)
    BY <2>0, <2>2 DEF Replays, Opens, DiskSound, Grounded
  <2>4. Unglued("source") => Replays("source") /\ Recovered("source") = Prefix(written)
    <3>1. Unglued("source") => Opens(log["source"])
      BY <2>0, KeptOps DEF Unglued
    <3> QED BY <2>0, <2>2, <3>1 DEF Unglued, Replays, Opens, DiskSound
  <2> QED BY <2>1, <2>3, <2>4 DEF NoPartialState, FirstTxs, Prefix, Txs
<1> QED BY <1>1, DaemonInvariance, PTL

\* What a SYNC-OK of the source confirmed is on the sink's disk ever after,
\* unless a checkpoint of persist_verified was cut off in between, or a
\* record was glued to a line that a kill inside append_op left open.
THEOREM ConfirmedStays == Spec => []ConfirmedIsKept
<1>1. DaemonInv => ConfirmedIsKept
  BY DEF DaemonInv, SinkInv
<1> QED BY <1>1, DaemonInvariance, PTL
----------------------------------------------------------------------------
(* The frames on a connection.                                             *)

\* Shifted is what its recursion says.
LEMMA ShiftedDef ==
    ASSUME NEW n \in Nat
    PROVE  /\ Shifted(n) \in [0..HeaderLen -> Nat] /\ Shifted(n)[HeaderLen] = n
           /\ \A i \in 0..HeaderLen - 1 : Shifted(n)[i] = Shifted(n)[i + 1] \div Base
<1>0. HeaderLen \in Nat /\ HeaderLen > 0 /\ Base \in Nat /\ Base > 1
  BY FramingAssumption
<1> DEFINE g == [q \in Nat \X Nat |-> q[2] \div Base]
           Def(h) == [i \in 0..HeaderLen |-> IF i = HeaderLen THEN n ELSE h[i + 1] \div Base]
<1>g. g \in [Nat \X Nat -> Nat]
  BY <1>0
<1>1. \A i, m \in Nat : g[<<i, m>>] = m \div Base
  OBVIOUS
<1>2. PICK f \in [Nat -> Nat] : f[0] = n /\ \A i \in Nat : f[i + 1] = g[<<i, f[i]>>]
  <2> HIDE DEF g
  <2>1. Recursion(Nat, n, g)
    BY <1>g, NatRecursion
  <2> QED BY <2>1 DEF Recursion
<1>3. \A i \in Nat : f[i + 1] = f[i] \div Base
  BY <1>1, <1>2
<1> DEFINE s == [i \in 0..HeaderLen |-> f[HeaderLen - i]]
<1>4. s = Def(s)
  <2>1. ASSUME NEW i \in 0..HeaderLen, i # HeaderLen PROVE s[i] = s[i + 1] \div Base
    <3>1. PICK j \in Nat : j = HeaderLen - (i + 1) /\ HeaderLen - i = j + 1
      BY <2>1, <1>0
    <3>2. s[i] = f[j + 1] /\ s[i + 1] = f[j]
      BY <3>1, <1>0, <2>1
    <3> QED BY <3>2, <1>3
  <2>2. s[HeaderLen] = n
    BY <1>0, <1>2
  <2>3. s = [i \in 0..HeaderLen |-> s[i]]
    OBVIOUS
  <2> HIDE DEF s
  <2> DEFINE E(i) == IF i = HeaderLen THEN n ELSE s[i + 1] \div Base
  <2>4. \A i \in 0..HeaderLen : s[i] = E(i)
    BY <2>1, <2>2
  <2>5. Def(s) = [i \in 0..HeaderLen |-> E(i)]
    OBVIOUS
  <2> HIDE DEF E, Def
  <2> QED BY <2>3, <2>4, <2>5
<1>5. Shifted(n) = Def(Shifted(n))
  <2>1. \E h : h = Def(h)
    BY <1>4
  <2> HIDE DEF s
  <2> QED BY <2>1, Zenon DEF Shifted
<1> DEFINE t == Shifted(n)
           U == {k \in Nat : k <= HeaderLen => t[HeaderLen - k] \in Nat}
<1> HIDE DEF t
<1>6. t[HeaderLen] = n /\ DOMAIN t = 0..HeaderLen /\ t = [i \in 0..HeaderLen |-> t[i]]
  BY <1>5, <1>0 DEF t
<1>7. ASSUME NEW i \in 0..HeaderLen, i # HeaderLen PROVE t[i] = t[i + 1] \div Base
  BY <1>5, <1>0, <1>7 DEF t
<1>8. \A k \in Nat : k \in U
  <2>1. 0 \in U
    <3>1. HeaderLen - 0 = HeaderLen
      BY <1>0
    <3>2. t[HeaderLen - 0] \in Nat
      BY <3>1, <1>6
    <3> HIDE DEF t
    <3> QED BY <3>2
  <2>2. ASSUME NEW k \in Nat, k \in U PROVE k + 1 \in U
    <3> SUFFICES ASSUME k + 1 <= HeaderLen PROVE t[HeaderLen - (k + 1)] \in Nat
      OBVIOUS
    <3>1. PICK i \in 0..HeaderLen :
              i = HeaderLen - (k + 1) /\ i # HeaderLen /\ i + 1 = HeaderLen - k
      BY <1>0
    <3>2. t[i + 1] \in Nat
      BY <2>2, <3>1, <1>0
    <3>3. t[i] = t[i + 1] \div Base
      BY <1>7, <3>1
    <3>4. t[i] \in Nat
      BY <3>2, <3>3, <1>0
    <3> QED BY <3>1, <3>4
  <2> HIDE DEF U
  <2> QED BY <2>1, <2>2, NatSetInduction
<1>9. ASSUME NEW i \in 0..HeaderLen PROVE t[i] \in Nat
  <2>1. HeaderLen - i \in Nat /\ HeaderLen - (HeaderLen - i) = i /\ HeaderLen - i <= HeaderLen
    BY <1>0
  <2> QED BY <2>1, <1>8
<1>10. t \in [0..HeaderLen -> Nat]
  BY <1>6, <1>9
<1>11. \A i \in 0..HeaderLen - 1 : t[i] = t[i + 1] \div Base
  <2>1. \A i \in 0..HeaderLen - 1 : i \in 0..HeaderLen /\ i # HeaderLen
    BY <1>0
  <2> QED BY <2>1, <1>7
<1> QED BY <1>6, <1>10, <1>11 DEF t

\* A frame is its header and its payload.
LEMMA FrameFacts ==
    ASSUME NEW p \in Payloads
    PROVE  /\ p \in Seq(0..Base - 1) /\ Len(p) \in Nat
           /\ Frame(p) \in Seq(0..Base - 1) /\ Len(Frame(p)) = HeaderLen + Len(p)
           /\ \A j \in 1..HeaderLen : Frame(p)[j] = Shifted(Len(p))[j] % Base
           /\ \A j \in 1..Len(p) : Frame(p)[HeaderLen + j] = p[j]
<1>0. HeaderLen \in Nat /\ HeaderLen > 0 /\ Base \in Nat /\ Base > 1
  BY FramingAssumption
<1>1. p \in Seq(0..Base - 1) /\ Len(p) \in Nat
  BY FramingAssumption
<1> DEFINE t == Shifted(Len(p))
           header == [i \in 1..HeaderLen |-> t[i] % Base]
<1>2. \A i \in 1..HeaderLen : t[i] \in Nat
  BY <1>0, <1>1, ShiftedDef
<1> HIDE DEF t
<1>3. \A i \in 1..HeaderLen : t[i] % Base \in 0..Base - 1
  BY <1>0, <1>2
<1>4. header \in Seq(0..Base - 1) /\ Len(header) = HeaderLen
  BY <1>0, <1>3
<1>5. \A i \in 1..HeaderLen : header[i] = t[i] % Base
  OBVIOUS
<1>6. Frame(p) = header \o p
  BY DEF Frame, t
<1> HIDE DEF header
<1>7. /\ header \o p \in Seq(0..Base - 1) /\ Len(header \o p) = HeaderLen + Len(p)
      /\ \A j \in 1..HeaderLen : (header \o p)[j] = header[j]
      /\ \A j \in 1..Len(p) : (header \o p)[HeaderLen + j] = p[j]
  <2> DEFINE B == 0..Base - 1
  <2>1. header \in Seq(B) /\ p \in Seq(B) /\ HeaderLen \in Nat /\ HeaderLen = Len(header)
    BY <1>0, <1>1, <1>4
  <2> HIDE DEF B
  <2>2. /\ header \o p \in Seq(B) /\ Len(header \o p) = HeaderLen + Len(p)
        /\ \A j \in 1..HeaderLen : (header \o p)[j] = header[j]
        /\ \A j \in 1..Len(p) : (header \o p)[HeaderLen + j] = p[j]
    BY <2>1, Concatenation
  <2> QED BY <2>2 DEF B
<1> QED BY <1>1, <1>5, <1>6, <1>7 DEF t

LEMMA DivMod ==
    ASSUME NEW m \in Nat, NEW b \in Nat, b > 1
    PROVE  b * (m \div b) + (m % b) = m
OBVIOUS

\* parse_frame reads the length that frame wrote: a buffer that begins with
\* the header of a payload declares its length.
LEMMA DeclaredIsLength ==
    ASSUME NEW p \in Payloads, NEW b, \A j \in 1..HeaderLen : b[j] = Frame(p)[j]
    PROVE  Declared(b) = Len(p)
<1>0. HeaderLen \in Nat /\ HeaderLen > 0 /\ Base \in Nat /\ Base > 1
  BY FramingAssumption
<1> DEFINE t == Shifted(Len(p))
           Def(h) == [i \in 0..HeaderLen |-> IF i = 0 THEN 0 ELSE Base * h[i - 1] + b[i]]
           v == CHOOSE h : h = Def(h)
<1>1. /\ t \in [0..HeaderLen -> Nat] /\ t[HeaderLen] = Len(p) /\ t[0] = 0
      /\ \A i \in 0..HeaderLen - 1 : t[i] = t[i + 1] \div Base
  BY FrameFacts, ShiftedDef, FramingAssumption
<1>2. \A j \in 1..HeaderLen : b[j] = t[j] % Base
  BY FrameFacts
<1> HIDE DEF t
<1>3. ASSUME NEW i \in 0..HeaderLen - 1 PROVE t[i + 1] = Base * t[i] + b[i + 1]
  <2>1. i + 1 \in 1..HeaderLen /\ t[i + 1] \in Nat
    BY <1>0, <1>1
  <2>2. t[i] = t[i + 1] \div Base /\ b[i + 1] = t[i + 1] % Base
    BY <1>1, <1>2, <2>1
  <2> QED BY <2>1, <2>2, <1>0, DivMod
<1>4. t = Def(t)
  <2> DEFINE E(i) == IF i = 0 THEN 0 ELSE Base * t[i - 1] + b[i]
  <2>1. ASSUME NEW i \in 0..HeaderLen PROVE t[i] = E(i)
    <3>1. CASE i = 0
      BY <3>1, <1>1
    <3>2. CASE i # 0
      <4>1. i - 1 \in 0..HeaderLen - 1 /\ (i - 1) + 1 = i
        BY <3>2, <1>0
      <4>2. t[(i - 1) + 1] = Base * t[i - 1] + b[(i - 1) + 1]
        BY <1>3, <4>1
      <4> QED BY <4>1, <4>2, <3>2
    <3> QED BY <3>1, <3>2
  <2>2. Def(t) = [i \in 0..HeaderLen |-> E(i)]
    OBVIOUS
  <2> HIDE DEF E, Def
  <2> QED BY <2>1, <2>2, <1>1
<1>5. v = Def(v)
  <2>1. \E h : h = Def(h)
    BY <1>4
  <2> QED BY <2>1, Zenon
<1>6. Declared(b) = v[HeaderLen]
  BY DEF Declared
<1>v. v[0] = 0 /\ \A i \in 0..HeaderLen - 1 : v[i + 1] = Base * v[i] + b[i + 1]
  <2> HIDE DEF v
  <2>1. v[0] = 0
    BY <1>5, <1>0
  <2>2. ASSUME NEW i \in 0..HeaderLen - 1 PROVE v[i + 1] = Base * v[i] + b[i + 1]
    <3>1. i + 1 \in 0..HeaderLen /\ i + 1 # 0 /\ (i + 1) - 1 = i
      BY <1>0
    <3>2. \A k \in 0..HeaderLen : k # 0 => v[k] = Base * v[k - 1] + b[k]
      BY <1>5
    <3> HIDE DEF Def
    <3> QED BY <3>1, <3>2
  <2> QED BY <2>1, <2>2
<1> HIDE DEF v, Def
<1> DEFINE U == {i \in Nat : i <= HeaderLen => v[i] = t[i]}
<1>7. \A i \in Nat : i \in U
  <2>1. 0 \in U
    BY <1>1, <1>v
  <2>2. ASSUME NEW i \in Nat, i \in U PROVE i + 1 \in U
    <3> SUFFICES ASSUME i + 1 <= HeaderLen PROVE v[i + 1] = t[i + 1]
      OBVIOUS
    <3>1. i \in 0..HeaderLen - 1 /\ v[i] = t[i]
      BY <2>2, <1>0
    <3> QED BY <3>1, <1>3, <1>v
  <2> HIDE DEF U
  <2> QED BY <2>1, <2>2, NatSetInduction
<1> QED BY <1>0, <1>1, <1>6, <1>7

----------------------------------------------------------------------------

\* The frames of the messages ps end at the places e.
Ends(ps, e) ==
    /\ e \in [0..Len(ps) -> Nat] /\ e[0] = 0
    /\ \A i \in 1..Len(ps) : e[i] = e[i - 1] + Len(Frame(ps[i]))
    /\ \A i, j \in 0..Len(ps) : i <= j => e[i] <= e[j]

\* The bytes w from place at on are the front of a frame of p, but not all.
CutFrame(w, at, p) ==
    /\ Len(w) < at + Len(Frame(p))
    /\ \A j \in 1..Len(w) - at : w[at + j] = Frame(p)[j]

\* The bytes w are the frames of ps, up to the places e, and then at most
\* the front of one more ...
FramesAt(w, ps, e) ==
    /\ Ends(ps, e) /\ e[Len(ps)] <= Len(w)
    /\ \A i \in 1..Len(ps) : \A j \in 1..Len(Frame(ps[i])) : w[e[i - 1] + j] = Frame(ps[i])[j]
    /\ Len(w) # e[Len(ps)] => \E p \in Payloads : CutFrame(w, e[Len(ps)], p)

IsStream(w, ps) == \E e \in [0..Len(ps) -> Nat] : FramesAt(w, ps, e)

\* ... or the frames and nothing more.
IsWhole(w, ps) == \E e \in [0..Len(ps) -> Nat] : FramesAt(w, ps, e) /\ Len(w) = e[Len(ps)]

Bytes == 0..Base - 1

\* Numbers the proofs use.
LEMMA Numbers == HeaderLen \in Nat /\ HeaderLen > 0 /\ Base \in Nat /\ Base > 1
                 /\ MaxFrame \in Nat /\ Chunk \in Nat /\ Chunk > 0
BY FramingAssumption

LEMMA BytesAssociate == \A a, b, c \in Seq(Bytes) : a \o (b \o c) = (a \o b) \o c
<1> SUFFICES ASSUME NEW a \in Seq(Bytes), NEW b \in Seq(Bytes), NEW c \in Seq(Bytes)
             PROVE  a \o (b \o c) = (a \o b) \o c
  OBVIOUS
<1> QED BY Associativity

LEMMA EmptyStream == IsWhole(<<>>, <<>>)
<1> DEFINE e == [i \in 0..0 |-> 0]
<1>1. e \in [0..0 -> Nat] /\ e[0] = 0 /\ Len(<<>>) = 0
  OBVIOUS
<1> HIDE DEF e
<1> QED BY <1>1 DEF IsWhole, FramesAt, Ends

LEMMA WholeIsStream == ASSUME NEW w, NEW ps, IsWhole(w, ps) PROVE IsStream(w, ps)
BY DEF IsStream, IsWhole

\* The frame of message i, in a stream of messages ps.
FrameIn(w, ps, e, i) ==
    /\ ps[i] \in Payloads /\ e[i - 1] \in Nat /\ e[i] \in Nat /\ Len(Frame(ps[i])) \in Nat
    /\ e[i] = e[i - 1] + Len(Frame(ps[i])) /\ e[i] <= e[Len(ps)]
    /\ \A j \in 1..Len(Frame(ps[i])) : w[e[i - 1] + j] = Frame(ps[i])[j]

LEMMA StreamFrames ==
    ASSUME NEW w, NEW ps \in Seq(Payloads), NEW e, FramesAt(w, ps, e), NEW i \in 1..Len(ps)
    PROVE  FrameIn(w, ps, e, i)
<1>m. PICK m \in Nat : m = Len(ps)
  OBVIOUS
<1>1. ps[i] \in Payloads
  OBVIOUS
<1>2. Len(Frame(ps[i])) \in Nat
  BY <1>1, FrameFacts, Numbers
<1>3. e \in [0..m -> Nat] /\ i \in 0..m /\ i - 1 \in 0..m /\ m \in 0..m /\ i \in 1..m
  BY <1>m DEF FramesAt, Ends
<1>4. \A k \in 1..m : e[k] = e[k - 1] + Len(Frame(ps[k]))
  BY <1>m DEF FramesAt, Ends
<1>5. \A k, j \in 0..m : k <= j => e[k] <= e[j]
  BY <1>m DEF FramesAt, Ends
<1>6. \A j \in 1..Len(Frame(ps[i])) : w[e[i - 1] + j] = Frame(ps[i])[j]
  BY DEF FramesAt
<1>7. e[i] <= e[m]
  BY <1>3, <1>5
<1> QED BY <1>m, <1>1, <1>2, <1>3, <1>4, <1>6, <1>7 DEF FrameIn

\* send adds a frame.
LEMMA StreamSend ==
    ASSUME NEW w \in Seq(Bytes), NEW ps \in Seq(Payloads), NEW p \in Payloads,
           IsWhole(w, ps)
    PROVE  IsWhole(w \o Frame(p), Append(ps, p))
<1>1. PICK e \in [0..Len(ps) -> Nat] : FramesAt(w, ps, e) /\ Len(w) = e[Len(ps)]
  BY DEF IsWhole
<1>n. PICK n \in Nat : n = Len(ps)
  OBVIOUS
<1>f. PICK f \in Nat : f = Len(Frame(p))
  BY FrameFacts, Numbers
<1>l. PICK l \in Nat : l = Len(w)
  OBVIOUS
<1> DEFINE w2 == w \o Frame(p)
           ps2 == Append(ps, p)
           d == [i \in 0..n + 1 |-> IF i = n + 1 THEN l + f ELSE e[i]]
<1>2. /\ Len(w2) = l + f
      /\ \A j \in 1..l : w2[j] = w[j]
      /\ \A j \in 1..f : w2[l + j] = Frame(p)[j]
  BY <1>f, <1>l, FrameFacts, Concatenation DEF Bytes
<1>3. Len(ps2) = n + 1 /\ ps2[n + 1] = p /\ \A i \in 1..n : ps2[i] = ps[i]
  BY <1>n
<1> HIDE DEF w2, ps2
<1>4. e \in [0..n -> Nat] /\ e[0] = 0 /\ e[n] = l
  BY <1>1, <1>n, <1>l DEF FramesAt, Ends
<1>m. \A i, j \in 0..n : i <= j => e[i] <= e[j]
  BY <1>1, <1>n DEF FramesAt, Ends
<1>5. d \in [0..n + 1 -> Nat] /\ d[0] = 0 /\ d[n + 1] = l + f /\ \A i \in 0..n : d[i] = e[i]
  BY <1>4
<1> HIDE DEF d
<1>6. ASSUME NEW i \in 1..n + 1
      PROVE  /\ d[i] = d[i - 1] + Len(Frame(ps2[i]))
             /\ \A j \in 1..Len(Frame(ps2[i])) : w2[d[i - 1] + j] = Frame(ps2[i])[j]
  <2>1. CASE i = n + 1
    <3>1. d[i] = l + f /\ d[i - 1] = l /\ ps2[i] = p
      <4>1. i - 1 = n /\ n \in 0..n
        BY <2>1
      <4>2. d[n] = e[n] /\ d[n + 1] = l + f
        BY <4>1, <1>5
      <4> QED BY <4>1, <4>2, <2>1, <1>3, <1>4
    <3> QED BY <3>1, <1>2, <1>f
  <2>2. CASE i \in 1..n
    <3>1. ps2[i] = ps[i] /\ d[i] = e[i] /\ d[i - 1] = e[i - 1] /\ ps[i] \in Payloads
      <4>1. i \in 0..n /\ i - 1 \in 0..n
        BY <2>2
      <4>2. d[i] = e[i] /\ d[i - 1] = e[i - 1]
        BY <4>1, <1>5
      <4>3. ps2[i] = ps[i]
        BY <2>2, <1>3
      <4>4. ps[i] \in Payloads
        BY <2>2, <1>n
      <4> QED BY <4>2, <4>3, <4>4
    <3>2. /\ e[i - 1] \in Nat /\ e[i] = e[i - 1] + Len(Frame(ps[i])) /\ e[i] <= l
          /\ Len(Frame(ps[i])) \in Nat
          /\ \A j \in 1..Len(Frame(ps[i])) : w[e[i - 1] + j] = Frame(ps[i])[j]
      <4>1. FrameIn(w, ps, e, i)
        BY <1>1, <1>n, <2>2, StreamFrames
      <4> QED BY <4>1, <1>4, <1>n DEF FrameIn
    <3>3. ASSUME NEW j \in 1..Len(Frame(ps[i])) PROVE w2[e[i - 1] + j] = Frame(ps[i])[j]
      <4>1. e[i - 1] + j \in 1..l
        BY <3>2
      <4> QED BY <4>1, <1>2, <3>2
    <3> QED BY <3>1, <3>2, <3>3
  <2> QED BY <2>1, <2>2
<1>7. ASSUME NEW i \in 0..n + 1, NEW j \in 0..n + 1, i <= j PROVE d[i] <= d[j]
  <2>1. \A k \in 0..n : e[k] \in Nat /\ e[k] <= l
    BY <1>4, <1>m
  <2>2. CASE j = n + 1
    <3>1. CASE i = n + 1
      BY <2>2, <3>1, <1>5
    <3>2. CASE i \in 0..n
      BY <2>1, <2>2, <3>2, <1>5
    <3> QED BY <3>1, <3>2
  <2>3. CASE j \in 0..n
    <3>1. i \in 0..n
      BY <2>3, <1>7
    <3> QED BY <3>1, <2>3, <1>m, <1>5, <1>7
  <2> QED BY <2>2, <2>3
<1>8. Ends(ps2, d)
  BY <1>3, <1>5, <1>6, <1>7 DEF Ends
<1>9. FramesAt(w2, ps2, d) /\ Len(w2) = d[Len(ps2)]
  BY <1>2, <1>3, <1>5, <1>6, <1>8 DEF FramesAt
<1>10. IsWhole(w2, ps2)
  BY <1>3, <1>5, <1>9 DEF IsWhole
<1> QED BY <1>10 DEF w2, ps2

LEMMA StreamSendFails ==
    ASSUME NEW w \in Seq(Bytes), NEW ps \in Seq(Payloads), NEW p \in Payloads,
           NEW n \in 0..Len(Frame(p)) - 1, IsWhole(w, ps)
    PROVE  IsStream(w \o SubSeq(Frame(p), 1, n), ps)
<1>1. PICK e \in [0..Len(ps) -> Nat] : FramesAt(w, ps, e) /\ Len(w) = e[Len(ps)]
  BY DEF IsWhole
<1>f. PICK f \in Nat : f = Len(Frame(p)) /\ n \in 0..f /\ n < f
  BY FrameFacts, Numbers
<1>l. PICK l \in Nat : l = Len(w)
  OBVIOUS
<1>m. PICK m \in Nat : m = Len(ps)
  OBVIOUS
<1> DEFINE cut == SubSeq(Frame(p), 1, n)
           w2 == w \o cut
<1>2. cut \in Seq(Bytes) /\ Len(cut) = n /\ \A j \in 1..n : cut[j] = Frame(p)[j]
  BY <1>f, Front, FrameFacts DEF Bytes
<1> HIDE DEF cut
<1>3. /\ Len(w2) = l + n
      /\ \A j \in 1..l : w2[j] = w[j]
      /\ \A j \in 1..n : w2[l + j] = cut[j]
  BY <1>2, <1>l, Concatenation
<1> HIDE DEF w2
<1>4. Ends(ps, e) /\ e[m] = l /\ e \in [0..m -> Nat]
  BY <1>1, <1>l, <1>m DEF FramesAt, Ends
<1>5. ASSUME NEW i \in 1..m, NEW j \in 1..Len(Frame(ps[i]))
      PROVE  w2[e[i - 1] + j] = Frame(ps[i])[j]
  <2>1. /\ e[i - 1] \in Nat /\ e[i] = e[i - 1] + Len(Frame(ps[i])) /\ e[i] <= l
        /\ Len(Frame(ps[i])) \in Nat /\ w[e[i - 1] + j] = Frame(ps[i])[j]
    <3>1. FrameIn(w, ps, e, i)
      BY <1>1, <1>m, StreamFrames
    <3> QED BY <3>1, <1>4, <1>m DEF FrameIn
  <2>2. e[i - 1] + j \in 1..l
    <3>1. ASSUME NEW x \in Nat, NEW y \in Nat, NEW k \in 1..y, x + y <= l PROVE x + k \in 1..l
      BY <3>1
    <3> QED BY <2>1, <3>1
  <2> QED BY <2>1, <2>2, <1>3
<1>6. CutFrame(w2, l, p)
  BY <1>2, <1>3, <1>f DEF CutFrame
<1>7. FramesAt(w2, ps, e)
  BY <1>3, <1>4, <1>5, <1>6, <1>m DEF FramesAt
<1> QED BY <1>7 DEF IsStream, w2, cut

\* A stream of at least a header begins with the header of a payload: that
\* of the first message, or of the one that was cut.
LEMMA FirstFrame ==
    ASSUME NEW w \in Seq(Bytes), NEW ps \in Seq(Payloads), IsStream(w, ps), Len(w) >= HeaderLen
    PROVE  \E p \in Payloads : /\ \A j \in 1..HeaderLen : w[j] = Frame(p)[j]
                               /\ ps # <<>> => p = ps[1]
                               /\ ps = <<>> => Len(w) < HeaderLen + Len(p)
<1>1. PICK e \in [0..Len(ps) -> Nat] : FramesAt(w, ps, e)
  BY DEF IsStream
<1>l. PICK l \in Nat : l = Len(w)
  OBVIOUS
<1>2. CASE ps = <<>>
  <2>1. Len(ps) = 0 /\ e[0] = 0
    BY <1>1, <1>2 DEF FramesAt, Ends
  <2>l. Len(w) # 0
    BY Numbers
  <2>2. PICK p \in Payloads : CutFrame(w, 0, p)
    BY <1>1, <2>1, <2>l DEF FramesAt
  <2>3. l < HeaderLen + Len(p) /\ \A j \in 1..l : w[j] = Frame(p)[j]
    BY <2>2, <1>l, FrameFacts, Numbers DEF CutFrame
  <2> QED BY <2>3, <1>2, <1>l, Numbers
<1>3. CASE ps # <<>>
  <2>1. 1 \in 1..Len(ps) /\ ps[1] \in Payloads
    BY <1>3
  <2>2. e[0] = 0 /\ \A j \in 1..Len(Frame(ps[1])) : w[e[1 - 1] + j] = Frame(ps[1])[j]
    BY <1>1, <2>1 DEF FramesAt, Ends
  <2>f. Len(Frame(ps[1])) = HeaderLen + Len(ps[1]) /\ Len(ps[1]) \in Nat
    BY <2>1, FrameFacts
  <2>3. ASSUME NEW j \in 1..HeaderLen PROVE w[j] = Frame(ps[1])[j]
    <3>1. j \in 1..Len(Frame(ps[1])) /\ e[1 - 1] + j = j
      BY <2>f, <2>2, Numbers
    <3> QED BY <3>1, <2>2
  <2> QED BY <1>3, <2>1, <2>3
<1> QED BY <1>2, <1>3

\* What parse_frame finds at the front of the buffer is the first message.
LEMMA ParsedIsFirst ==
    ASSUME NEW b \in Seq(Bytes), NEW r \in Seq(Bytes), NEW ps \in Seq(Payloads),
           IsStream(b \o r, ps), Complete(b)
    PROVE  /\ ps # <<>> /\ ps[1] \in Payloads /\ Len(ps[1]) <= MaxFrame
           /\ Declared(b) = Len(ps[1]) /\ Consumed(b) = Len(Frame(ps[1]))
           /\ Consumed(b) \in 0..Len(b)
           /\ SubSeq(b, HeaderLen + 1, Consumed(b)) = ps[1]
<1> DEFINE w == b \o r
<1>l. PICK l \in Nat : l = Len(b)
  OBVIOUS
<1>1. w \in Seq(Bytes) /\ Len(w) = l + Len(r) /\ \A j \in 1..l : w[j] = b[j]
  BY <1>l
<1>h. l >= HeaderLen
  BY <1>l DEF Complete
<1> HIDE DEF w
<1>2. PICK p \in Payloads : /\ \A j \in 1..HeaderLen : w[j] = Frame(p)[j]
                            /\ ps # <<>> => p = ps[1]
                            /\ ps = <<>> => Len(w) < HeaderLen + Len(p)
  <2>1. IsStream(w, ps)
    BY DEF w
  <2>2. Len(w) >= HeaderLen
    BY <1>1, <1>h, Numbers
  <2> QED BY <2>1, <2>2, <1>1, FirstFrame
<1>3. Declared(b) = Len(p) /\ Len(p) \in Nat
  <2>1. \A j \in 1..HeaderLen : b[j] = Frame(p)[j]
    BY <1>1, <1>2, <1>h, Numbers
  <2> QED BY <2>1, DeclaredIsLength, FrameFacts
<1>4. Len(p) <= MaxFrame /\ l - HeaderLen >= Len(p)
  BY <1>3, <1>l, Numbers DEF Complete, TooLarge
<1>5. ps # <<>> /\ p = ps[1]
  BY <1>1, <1>2, <1>3, <1>4, Numbers
<1>6. Consumed(b) = HeaderLen + Len(p) /\ Len(Frame(p)) = HeaderLen + Len(p)
  BY <1>3, FrameFacts DEF Consumed
<1>7. SubSeq(b, HeaderLen + 1, Consumed(b)) = p
  <2> DEFINE q == SubSeq(b, HeaderLen + 1, HeaderLen + Len(p))
  <2>1. /\ q \in Seq(Bytes) /\ Len(q) = Len(p)
        /\ \A j \in 1..Len(p) : q[j] = b[HeaderLen + j]
    BY <1>3, <1>4, <1>l, Numbers
  <2>2. ASSUME NEW j \in 1..Len(p) PROVE b[HeaderLen + j] = p[j]
    <3>1. HeaderLen + j \in 1..l /\ HeaderLen + j \in 1..Len(Frame(p))
      BY <1>3, <1>4, <1>6, Numbers
    <3>2. b[HeaderLen + j] = w[HeaderLen + j]
      BY <3>1, <1>1
    <3>3. w[HeaderLen + j] = Frame(p)[HeaderLen + j]
      <4>1. PICK e \in [0..Len(ps) -> Nat] : FramesAt(w, ps, e)
        BY DEF IsStream, w
      <4>2. 1 \in 1..Len(ps)
        BY <1>5
      <4>3. FrameIn(w, ps, e, 1) /\ e[0] = 0
        BY <4>1, <4>2, StreamFrames DEF FramesAt, Ends
      <4>4. \A k \in 1..Len(Frame(p)) : w[0 + k] = Frame(p)[k]
        BY <4>3, <1>5 DEF FrameIn
      <4> QED BY <4>4, <3>1
    <3>4. Frame(p)[HeaderLen + j] = p[j]
      BY FrameFacts
    <3> QED BY <3>2, <3>3, <3>4
  <2>3. p \in Seq(Bytes)
    BY FrameFacts DEF Bytes
  <2> HIDE DEF q
  <2>4. q = p
    <3>1. q \in Seq(Bytes) /\ Len(q) = Len(p)
      BY <2>1
    <3>2. \A j \in 1..Len(q) : q[j] = p[j]
      BY <2>1, <2>2
    <3> QED BY <3>1, <3>2, <2>3, SameElements
  <2> QED BY <2>4, <1>6 DEF q
<1> QED BY <1>3, <1>4, <1>5, <1>6, <1>7, <1>l, Numbers

\* Places behind c, counted from c.
LEMMA Offset ==
    ASSUME NEW x \in Nat, NEW c \in Nat, c <= x, NEW k \in Nat
    PROVE  (x + k) - c = (x - c) + k
OBVIOUS

\* A place in a part of a stream, counted from an earlier place c on.
LEMMA Within ==
    ASSUME NEW l \in Nat, NEW c \in Nat, NEW x \in Nat, NEW y \in Nat, NEW j \in 1..y,
           c <= x, x + y <= l
    PROVE  (x - c) + j \in 1..l - c /\ c + ((x - c) + j) = x + j
OBVIOUS

\* Without its first frame a stream is the stream of the other messages.
LEMMA StreamReceive ==
    ASSUME NEW w \in Seq(Bytes), NEW ps \in Seq(Payloads), ps # <<>>,
           NEW e \in [0..Len(ps) -> Nat], FramesAt(w, ps, e), NEW c \in Nat, c = e[1]
    PROVE  \E d \in [0..Len(Tail(ps)) -> Nat] :
               /\ FramesAt(SubSeq(w, c + 1, Len(w)), Tail(ps), d)
               /\ Len(w) = e[Len(ps)] => Len(SubSeq(w, c + 1, Len(w))) = d[Len(Tail(ps))]
<1>n. PICK n \in Nat : Len(ps) = n + 1
  <2>1. Len(ps) \in Nat /\ Len(ps) # 0
    OBVIOUS
  <2>2. Len(ps) - 1 \in Nat /\ Len(ps) = (Len(ps) - 1) + 1
    BY <2>1
  <2> QED BY <2>2
<1>l. PICK l \in Nat : l = Len(w)
  OBVIOUS
<1> DEFINE w2 == SubSeq(w, c + 1, Len(w))
           ps2 == Tail(ps)
           d == [i \in 0..n |-> e[i + 1] - c]
<1>1. ps2 \in Seq(Payloads) /\ Len(ps2) = n /\ \A i \in 1..n : ps2[i] = ps[i + 1]
  BY <1>n
<1>2. e \in [0..n + 1 -> Nat] /\ e[n + 1] <= l
  BY <1>n, <1>l DEF FramesAt, Ends
<1>3. \A i, j \in 0..n + 1 : i <= j => e[i] <= e[j]
  BY <1>n DEF FramesAt, Ends
<1>4. \A i \in 0..n : e[i + 1] \in Nat /\ c <= e[i + 1] /\ e[i + 1] <= l
  <2>1. \A i \in 0..n : i + 1 \in 0..n + 1 /\ 1 <= i + 1 /\ i + 1 <= n + 1
    OBVIOUS
  <2> QED BY <2>1, <1>2, <1>3
<1>5. /\ d \in [0..n -> Nat] /\ d[0] = 0
      /\ \A i \in 0..n : d[i] = e[i + 1] - c
  BY <1>4
<1> HIDE DEF d
<1>c. c \in 0..l
  BY <1>4
<1>6. Len(w2) = l - c /\ \A j \in 1..l - c : w2[j] = w[c + j]
  BY <1>c, <1>l, Back
<1> HIDE DEF w2, ps2
<1>7. ASSUME NEW i \in 1..n
      PROVE  /\ d[i] = d[i - 1] + Len(Frame(ps2[i]))
             /\ \A j \in 1..Len(Frame(ps2[i])) : w2[d[i - 1] + j] = Frame(ps2[i])[j]
  <2>1. FrameIn(w, ps, e, i + 1)
    BY <1>n, StreamFrames
  <2>2. /\ ps2[i] = ps[i + 1] /\ d[i] = e[i + 1] - c /\ d[i - 1] = e[i] - c
        /\ e[i] \in Nat /\ c <= e[i]
    <3>1. i - 1 \in 0..n /\ (i - 1) + 1 = i /\ i \in 0..n
      OBVIOUS
    <3>2. e[(i - 1) + 1] \in Nat /\ c <= e[(i - 1) + 1] /\ d[i - 1] = e[(i - 1) + 1] - c
      BY <3>1, <1>4, <1>5
    <3>3. d[i] = e[i + 1] - c
      BY <3>1, <1>5
    <3> QED BY <3>1, <3>2, <3>3, <1>1
  <2>3. /\ Len(Frame(ps[i + 1])) \in Nat
        /\ e[i + 1] = e[i] + Len(Frame(ps[i + 1]))
        /\ \A j \in 1..Len(Frame(ps[i + 1])) : w[e[i] + j] = Frame(ps[i + 1])[j]
    <3>1. (i + 1) - 1 = i
      OBVIOUS
    <3> QED BY <2>1, <3>1 DEF FrameIn
  <2>4. ASSUME NEW j \in 1..Len(Frame(ps[i + 1])) PROVE w2[(e[i] - c) + j] = w[e[i] + j]
    <3>0. e[i + 1] <= l
      BY <1>4
    <3>1. (e[i] - c) + j \in 1..l - c /\ c + ((e[i] - c) + j) = e[i] + j
      <4>1. e[i] \in Nat /\ c <= e[i] /\ e[i] + Len(Frame(ps[i + 1])) <= l
        BY <3>0, <2>2, <2>3
      <4>2. PICK x \in Nat, y \in Nat : x = e[i] /\ y = Len(Frame(ps[i + 1]))
        BY <4>1, <2>3
      <4>3. c <= x /\ x + y <= l /\ j \in 1..y
        BY <4>1, <4>2
      <4>4. (x - c) + j \in 1..l - c /\ c + ((x - c) + j) = x + j
        BY <4>3, Within
      <4> QED BY <4>2, <4>4
    <3> QED BY <3>1, <1>6
  <2>5. e[i + 1] - c = (e[i] - c) + Len(Frame(ps[i + 1]))
    BY <2>2, <2>3, <1>4, Offset
  <2>6. d[i] = d[i - 1] + Len(Frame(ps2[i]))
    BY <2>2, <2>5
  <2>7. \A j \in 1..Len(Frame(ps2[i])) : w2[d[i - 1] + j] = Frame(ps2[i])[j]
    BY <2>2, <2>3, <2>4
  <2> QED BY <2>6, <2>7
<1>8. ASSUME NEW i \in 0..n, NEW j \in 0..n, i <= j PROVE d[i] <= d[j]
  <2>1. e[i + 1] <= e[j + 1]
    BY <1>3, <1>8
  <2>2. /\ d[i] = e[i + 1] - c /\ d[j] = e[j + 1] - c
        /\ e[i + 1] \in Nat /\ e[j + 1] \in Nat
    BY <1>4, <1>5
  <2> QED BY <2>1, <2>2
<1>9. Ends(ps2, d)
  BY <1>1, <1>5, <1>7, <1>8 DEF Ends
<1>10. d[n] = e[n + 1] - c /\ d[n] <= Len(w2)
  <2>1. n \in 0..n
    OBVIOUS
  <2>2. d[n] = e[n + 1] - c /\ e[n + 1] \in Nat /\ e[n + 1] <= l
    BY <2>1, <1>4, <1>5
  <2>3. Len(w2) = l - c /\ c \in Nat
    BY <1>6, <1>c
  <2> QED BY <2>2, <2>3
<1>11. ASSUME Len(w2) # d[n] PROVE \E p \in Payloads : CutFrame(w2, d[n], p)
  <2>1. l # e[n + 1]
    BY <1>11, <1>10, <1>6
  <2>2. PICK p \in Payloads : CutFrame(w, e[n + 1], p)
    BY <2>1, <1>n, <1>l DEF FramesAt
  <2>f. Len(Frame(p)) \in Nat
    BY FrameFacts, Numbers
  <2>3. l < e[n + 1] + Len(Frame(p)) /\ \A j \in 1..l - e[n + 1] : w[e[n + 1] + j] = Frame(p)[j]
    BY <2>2, <1>l DEF CutFrame
  <2>e. PICK x \in Nat : x = e[n + 1] /\ c <= x /\ x <= l
    BY <1>4
  <2>4. Len(w2) < d[n] + Len(Frame(p))
    <3>1. Len(w2) = l - c /\ d[n] = x - c /\ l < x + Len(Frame(p))
      <4>1. Len(w2) = l - c
        BY <1>6
      <4>2. d[n] = x - c
        BY <2>e, <1>10
      <4>3. l < x + Len(Frame(p))
        BY <2>3, <2>e
      <4> QED BY <4>1, <4>2, <4>3
    <3> QED BY <3>1, <2>e, <2>f
  <2>5. ASSUME NEW j \in 1..l - x PROVE w2[(x - c) + j] = Frame(p)[j]
    <3>1. (x - c) + j \in 1..l - c /\ c + ((x - c) + j) = x + j
      <4>1. PICK y \in Nat : y = l - x
        BY <2>e
      <4>2. x + y <= l /\ c <= x /\ j \in 1..y
        BY <4>1, <2>e
      <4> QED BY <4>2, Within
    <3>2. w2[(x - c) + j] = w[c + ((x - c) + j)]
      BY <3>1, <1>6
    <3>3. w[x + j] = Frame(p)[j]
      BY <2>3, <2>e
    <3> QED BY <3>1, <3>2, <3>3
  <2>6. d[n] = x - c /\ Len(w2) - d[n] = l - x
    <3>1. d[n] = x - c /\ Len(w2) = l - c
      <4>1. d[n] = x - c
        BY <2>e, <1>10
      <4>2. Len(w2) = l - c
        BY <1>6
      <4> QED BY <4>1, <4>2
    <3>2. (l - c) - (x - c) = l - x
      OBVIOUS
    <3> QED BY <3>1, <3>2
  <2> QED BY <2>4, <2>5, <2>6 DEF CutFrame
<1>12. FramesAt(w2, ps2, d)
  BY <1>1, <1>7, <1>9, <1>10, <1>11 DEF FramesAt
<1>13. Len(w) = e[Len(ps)] => Len(w2) = d[Len(ps2)]
  BY <1>1, <1>6, <1>10, <1>n, <1>l
<1> QED BY <1>1, <1>5, <1>12, <1>13 DEF w2, ps2

\* FrameEnd is what its recursion says: the places a stream's frames end at.
LEMMA FrameEndDef ==
    ASSUME NEW ps \in Seq(Payloads), NEW e, Ends(ps, e)
    PROVE  FrameEnd(ps) = e
<1>m. PICK m \in Nat : m = Len(ps)
  OBVIOUS
<1> DEFINE Def(h) == [i \in 0..Len(ps) |->
                         IF i = 0 THEN 0 ELSE h[i - 1] + Len(Frame(ps[i]))]
           v == CHOOSE h : h = Def(h)
<1>1. e \in [0..m -> Nat] /\ e[0] = 0
  BY <1>m DEF Ends
<1>2. \A i \in 1..m : e[i] = e[i - 1] + Len(Frame(ps[i]))
  BY <1>m DEF Ends
<1>3. e = Def(e)
  <2> DEFINE E(i) == IF i = 0 THEN 0 ELSE e[i - 1] + Len(Frame(ps[i]))
  <2>1. \A i \in 0..m : e[i] = E(i)
    BY <1>1, <1>2
  <2>2. Def(e) = [i \in 0..m |-> E(i)]
    BY <1>m
  <2> HIDE DEF E, Def
  <2> QED BY <2>1, <2>2, <1>1
<1>4. v = Def(v)
  <2>1. \E h : h = Def(h)
    BY <1>3
  <2> QED BY <2>1, Zenon
<1>5. FrameEnd(ps) = v
  BY DEF FrameEnd
<1> HIDE DEF v
<1>6. /\ v[0] = 0 /\ DOMAIN v = 0..m /\ v = [i \in 0..m |-> v[i]]
      /\ \A i \in 1..m : v[i] = v[i - 1] + Len(Frame(ps[i]))
  BY <1>4, <1>m
<1> HIDE DEF Def
<1> DEFINE U == {i \in Nat : i <= m => v[i] = e[i]}
<1>7. \A i \in Nat : i \in U
  <2>1. 0 \in U
    BY <1>1, <1>6
  <2>2. ASSUME NEW i \in Nat, i \in U PROVE i + 1 \in U
    <3> SUFFICES ASSUME i + 1 <= m PROVE v[i + 1] = e[i + 1]
      OBVIOUS
    <3>1. i + 1 \in 1..m /\ (i + 1) - 1 = i /\ v[i] = e[i]
      BY <2>2
    <3>2. v[i + 1] = v[(i + 1) - 1] + Len(Frame(ps[i + 1]))
      BY <1>6, <3>1
    <3>3. e[i + 1] = e[(i + 1) - 1] + Len(Frame(ps[i + 1]))
      BY <1>2, <3>1
    <3> QED BY <3>1, <3>2, <3>3
  <2> HIDE DEF U
  <2> QED BY <2>1, <2>2, NatSetInduction
<1>8. \A i \in 0..m : v[i] = e[i]
  BY <1>7
<1> QED BY <1>1, <1>5, <1>6, <1>8

\* In the first l bytes of a stream some number of frames is whole, and the
\* next is not.
LEMMA LastWhole ==
    ASSUME NEW m \in Nat, NEW e \in [0..m -> Nat], e[0] = 0, NEW l \in Nat
    PROVE  \E n \in 0..m : e[n] <= l /\ (n < m => e[n + 1] > l)
<1> SUFFICES ASSUME \A n \in 0..m : e[n] <= l => n < m /\ ~(e[n + 1] > l)
             PROVE  FALSE
  OBVIOUS
<1> DEFINE U == {i \in Nat : i <= m => e[i] <= l}
<1>1. 0 \in U
  OBVIOUS
<1>2. ASSUME NEW i \in Nat, i \in U PROVE i + 1 \in U
  <2> SUFFICES ASSUME i + 1 <= m PROVE e[i + 1] <= l
    OBVIOUS
  <2>1. i \in 0..m /\ i + 1 \in 0..m /\ e[i] <= l
    BY <1>2
  <2> QED BY <2>1
<1>3. m \in U
  <2> HIDE DEF U
  <2> QED BY <1>1, <1>2, NatSetInduction
<1> QED BY <1>3

\* What arrived of a stream that was cut is a stream of what arrived whole.
LEMMA StreamReset ==
    ASSUME NEW b \in Seq(Bytes), NEW r \in Seq(Bytes), pending \in Seq(Payloads),
           IsStream(b \o r, pending)
    PROVE  /\ IsStream(b, Arrived(b))
           /\ \E n \in 0..Len(pending) : Arrived(b) = SubSeq(pending, 1, n)
<1> DEFINE w == b \o r
<1>1. PICK e \in [0..Len(pending) -> Nat] : FramesAt(w, pending, e)
  BY DEF IsStream
<1>m. PICK m \in Nat : m = Len(pending)
  OBVIOUS
<1>l. PICK l \in Nat : l = Len(b)
  OBVIOUS
<1>2. Len(w) \in Nat /\ l <= Len(w) /\ \A j \in 1..l : w[j] = b[j]
  BY <1>l
<1> HIDE DEF w
<1>3. FrameEnd(pending) = e /\ e[0] = 0 /\ e \in [0..m -> Nat]
  BY <1>1, <1>m, FrameEndDef DEF FramesAt, Ends
<1> DEFINE Fits(n) == e[n] <= l /\ (n < m => e[n + 1] > l)
           n == CHOOSE i \in 0..m : Fits(i)
<1>4. n \in 0..m /\ Fits(n)
  <2>1. \E i \in 0..m : Fits(i)
    BY <1>3, LastWhole
  <2> HIDE DEF Fits
  <2> QED BY <2>1
<1>5. Arrived(b) = SubSeq(pending, 1, n)
  BY <1>3, <1>m, <1>l DEF Arrived
<1> HIDE DEF n
<1> DEFINE ps == SubSeq(pending, 1, n)
           d == [i \in 0..n |-> e[i]]
<1>6. Len(ps) = n /\ \A i \in 1..n : ps[i] = pending[i]
  BY <1>4, <1>m, Front
<1> HIDE DEF ps
<1>7. d \in [0..n -> Nat] /\ d[0] = 0 /\ \A i \in 0..n : d[i] = e[i]
  BY <1>3, <1>4
<1> HIDE DEF d
<1>mono. \A i, j \in 0..m : i <= j => e[i] <= e[j]
  BY <1>1, <1>m DEF FramesAt, Ends
<1>8. ASSUME NEW i \in 1..n
      PROVE  /\ d[i] = d[i - 1] + Len(Frame(ps[i]))
             /\ \A j \in 1..Len(Frame(ps[i])) : b[d[i - 1] + j] = Frame(ps[i])[j]
  <2>1. i \in 1..m /\ i \in 0..n /\ i - 1 \in 0..n /\ i \in 0..m /\ n \in 0..m /\ i <= n
    BY <1>4
  <2>2. FrameIn(w, pending, e, i)
    BY <2>1, <1>1, <1>m, StreamFrames
  <2>3. ps[i] = pending[i] /\ d[i] = e[i] /\ d[i - 1] = e[i - 1]
    BY <2>1, <1>6, <1>7
  <2>4. e[i] <= l
    <3>1. e[i] <= e[n] /\ e[i] \in Nat /\ e[n] \in Nat
      BY <2>1, <1>3, <1>mono
    <3> QED BY <3>1, <1>4
  <2>5. /\ Len(Frame(ps[i])) \in Nat /\ d[i - 1] \in Nat
        /\ d[i] = d[i - 1] + Len(Frame(ps[i]))
        /\ \A j \in 1..Len(Frame(ps[i])) : w[d[i - 1] + j] = Frame(ps[i])[j]
    BY <2>2, <2>3 DEF FrameIn
  <2>6. ASSUME NEW j \in 1..Len(Frame(ps[i])) PROVE d[i - 1] + j \in 1..l
    BY <2>3, <2>4, <2>5
  <2> QED BY <2>5, <2>6, <1>2
<1>9. \A i, j \in 0..n : i <= j => d[i] <= d[j]
  <2>1. \A i \in 0..n : i \in 0..m
    BY <1>4
  <2> QED BY <2>1, <1>7, <1>mono
<1>10. Ends(ps, d)
  BY <1>6, <1>7, <1>8, <1>9 DEF Ends
<1>11. d[n] = e[n] /\ e[n] <= l /\ e[n] \in Nat
  BY <1>3, <1>4, <1>7
<1>12. ASSUME l # e[n] PROVE \E p \in Payloads : CutFrame(b, e[n], p)
  <2>1. CASE n < m
    <3>1. n + 1 \in 1..m /\ (n + 1) - 1 = n /\ e[n + 1] > l
      BY <2>1, <1>4
    <3>2. FrameIn(w, pending, e, n + 1)
      BY <3>1, <1>1, <1>m, StreamFrames
    <3> DEFINE p == pending[n + 1]
    <3>3. /\ p \in Payloads /\ e[n + 1] = e[n] + Len(Frame(p)) /\ Len(Frame(p)) \in Nat
          /\ \A j \in 1..Len(Frame(p)) : w[e[n] + j] = Frame(p)[j]
      BY <3>1, <3>2 DEF FrameIn
    <3> HIDE DEF p
    <3>4. l < e[n] + Len(Frame(p))
      BY <3>1, <3>3, <1>11
    <3>5. ASSUME NEW j \in 1..l - e[n] PROVE b[e[n] + j] = Frame(p)[j]
      <4>1. e[n] + j \in 1..l /\ j \in 1..Len(Frame(p))
        BY <3>3, <3>4, <1>11
      <4> QED BY <4>1, <3>3, <1>2
    <3> QED BY <3>3, <3>4, <3>5, <1>l DEF CutFrame
  <2>2. CASE n = m
    <3>1. PICK p \in Payloads : CutFrame(w, e[m], p)
      BY <2>2, <1>1, <1>2, <1>11, <1>12, <1>m DEF FramesAt
    <3>f. Len(Frame(p)) \in Nat
      BY FrameFacts, Numbers
    <3>2. PICK k \in Nat : k = Len(w) /\ l <= k
      BY <1>2
    <3>3. k < e[n] + Len(Frame(p)) /\ \A j \in 1..k - e[n] : w[e[n] + j] = Frame(p)[j]
      BY <3>1, <3>2, <2>2 DEF CutFrame
    <3>4. l < e[n] + Len(Frame(p))
      BY <3>2, <3>3, <3>f, <1>11
    <3>5. ASSUME NEW j \in 1..l - e[n] PROVE b[e[n] + j] = Frame(p)[j]
      <4>1. e[n] + j \in 1..l /\ j \in 1..k - e[n]
        BY <3>2, <1>11
      <4> QED BY <4>1, <3>3, <1>2
    <3> QED BY <3>4, <3>5, <1>l DEF CutFrame
  <2> QED BY <2>1, <2>2, <1>4
<1>13. FramesAt(b, ps, d)
  BY <1>6, <1>8, <1>10, <1>11, <1>12, <1>l DEF FramesAt
<1>14. IsStream(b, ps)
  BY <1>6, <1>7, <1>13 DEF IsStream
<1> QED BY <1>4, <1>5, <1>14, <1>m DEF ps

----------------------------------------------------------------------------

\* The inductive invariant: the bytes in the receiver's buffer and on the
\* wire are the frames of the messages that are pending, and nothing more
\* while the sender may send.
FramingInv ==
    /\ FramingTypeOK
    /\ IsStream(buf \o wire, pending)
    /\ open => IsWhole(buf \o wire, pending)

\* A header in the buffer declares the length of a payload, and goes on to
\* do so when more bytes arrive.
LEMMA HeaderStays ==
    ASSUME FramingInv, NEW more \in Seq(Bytes), NEW rest \in Seq(Bytes), wire = more \o rest,
           Len(buf) >= HeaderLen
    PROVE  Declared(buf) \in Nat /\ Declared(buf \o more) = Declared(buf)
<1>1. buf \in Seq(Bytes) /\ wire \in Seq(Bytes) /\ pending \in Seq(Payloads)
  BY DEF FramingInv, FramingTypeOK, Bytes
<1>l. PICK l \in Nat : l = Len(buf) /\ HeaderLen <= l
  BY <1>1, Numbers
<1>2. /\ buf \o wire \in Seq(Bytes) /\ Len(buf \o wire) >= HeaderLen
      /\ \A j \in 1..l : (buf \o wire)[j] = buf[j]
  BY <1>1, <1>l, Numbers
<1>3. PICK p \in Payloads : \A j \in 1..HeaderLen : (buf \o wire)[j] = Frame(p)[j]
  BY <1>1, <1>2, FirstFrame DEF FramingInv
<1>4. \A j \in 1..HeaderLen : buf[j] = Frame(p)[j] /\ (buf \o more)[j] = Frame(p)[j]
  <2>1. \A j \in 1..l : (buf \o more)[j] = buf[j]
    BY <1>1, <1>l
  <2> QED BY <2>1, <1>2, <1>3, <1>l, Numbers
<1>5. Declared(buf) = Len(p) /\ Declared(buf \o more) = Len(p)
  <2>1. \A j \in 1..HeaderLen : (buf \o more)[j] = Frame(p)[j]
    BY <1>4
  <2> DEFINE longer == buf \o more
  <2>2. \A j \in 1..HeaderLen : longer[j] = Frame(p)[j]
    BY <2>1
  <2> HIDE DEF longer
  <2>3. Declared(longer) = Len(p)
    BY <2>2, DeclaredIsLength
  <2>4. Declared(buf) = Len(p)
    BY <1>4, DeclaredIsLength
  <2> QED BY <2>3, <2>4 DEF longer
<1>6. Len(p) \in Nat
  BY FrameFacts
<1> QED BY <1>5, <1>6

LEMMA FramingInitInv == ASSUME FramingInit PROVE FramingInv
<1>1. buf \o wire = <<>> /\ Len(buf) = 0
  BY DEF FramingInit
<1>2. IsWhole(buf \o wire, pending) /\ IsStream(buf \o wire, pending)
  BY <1>1, EmptyStream, WholeIsStream DEF FramingInit
<1>3. FramingTypeOK
  <2>1. wire = <<>> /\ buf = <<>> /\ pending = <<>> /\ received = <<>>
    BY DEF FramingInit
  <2>2. <<>> \in Seq(0..Base - 1) /\ <<>> \in Seq(Payloads)
    OBVIOUS
  <2>3. Len(buf) < HeaderLen + MaxFrame + Chunk
    BY <1>1, Numbers
  <2> QED BY <2>1, <2>2, <2>3 DEF FramingInit, FramingTypeOK
<1> QED BY <1>2, <1>3 DEF FramingInv

\* Each step keeps the invariant, and is a step of the channel or none.
LEMMA FramingStep ==
    ASSUME FramingInv, [FramingNext]_framing
    PROVE  FramingInv' /\ [Promise!Next]_<<pending, received, open>>
<1>t. /\ buf \in Seq(Bytes) /\ wire \in Seq(Bytes) /\ pending \in Seq(Payloads)
      /\ received \in Seq(Payloads)
  BY DEF FramingInv, FramingTypeOK, Bytes
<1>1. ASSUME NEW p \in Payloads, SendFrame(p)
      PROVE  FramingInv' /\ [Promise!Next]_<<pending, received, open>>
  <2>1. Frame(p) \in Seq(Bytes)
    BY FrameFacts DEF Bytes
  <2>2. (buf \o wire)' = (buf \o wire) \o Frame(p)
    <3>1. buf' = buf /\ wire' = wire \o Frame(p)
      BY <1>1 DEF SendFrame
    <3> QED BY <3>1, BytesAssociate, <1>t, <2>1, Zenon
  <2>3. IsWhole(buf \o wire, pending)' /\ IsStream(buf \o wire, pending)'
    <3>1. IsWhole((buf \o wire) \o Frame(p), Append(pending, p))
      <4>1. IsWhole(buf \o wire, pending) /\ buf \o wire \in Seq(Bytes)
        BY <1>1, <1>t DEF SendFrame, FramingInv
      <4> QED BY <4>1, <1>t, StreamSend
    <3>2. IsWhole((buf \o wire)', pending')
      BY <3>1, <2>2, <1>1 DEF SendFrame
    <3> QED BY <3>2, WholeIsStream
  <2>4. FramingTypeOK'
    BY <1>1, <1>t, <2>1 DEF FramingInv, FramingTypeOK, SendFrame, Bytes, TooLarge
  <2>5. Promise!Next
    BY <1>1 DEF SendFrame, Promise!Next, Promise!Send
  <2> QED BY <2>3, <2>4, <2>5 DEF FramingInv
<1>2. ASSUME NEW p \in Payloads, SendFails(p)
      PROVE  FramingInv' /\ [Promise!Next]_<<pending, received, open>>
  <2>1. PICK n \in 0..Len(Frame(p)) - 1 : wire' = wire \o SubSeq(Frame(p), 1, n)
    BY <1>2 DEF SendFails
  <2>2. SubSeq(Frame(p), 1, n) \in Seq(Bytes)
    <3>1. Frame(p) \in Seq(Bytes) /\ n \in 0..Len(Frame(p))
      BY FrameFacts, Numbers DEF Bytes
    <3> QED BY <3>1, Front
  <2> DEFINE cut == SubSeq(Frame(p), 1, n)
  <2>3. (buf \o wire)' = (buf \o wire) \o cut
    <3> HIDE DEF cut
    <3>1. cut \in Seq(Bytes) /\ wire' = wire \o cut /\ buf' = buf
      BY <1>2, <2>1, <2>2 DEF cut, SendFails
    <3> QED BY <3>1, BytesAssociate, <1>t, Zenon
  <2>4. IsStream(buf \o wire, pending)'
    <3>1. IsWhole(buf \o wire, pending) /\ buf \o wire \in Seq(Bytes)
      BY <1>2, <1>t DEF SendFails, FramingInv
    <3>2. IsStream((buf \o wire) \o cut, pending)
      BY <3>1, <1>t, StreamSendFails
    <3> HIDE DEF cut
    <3> QED BY <3>2, <2>3, <1>2 DEF SendFails
  <2>5. FramingTypeOK'
    <3>1. wire' \in Seq(Bytes)
      BY <2>1, <2>2, <1>t
    <3> QED BY <3>1, <1>2, <1>t DEF FramingInv, FramingTypeOK, SendFails, Bytes, TooLarge
  <2>6. Promise!Next /\ open' = FALSE
    BY <1>2 DEF SendFails, Promise!Next, Promise!Close
  <2> QED BY <2>4, <2>5, <2>6 DEF FramingInv
<1>3. CASE CloseStream
  <2>1. IsStream(buf \o wire, pending)' /\ open' = FALSE
    BY <1>3 DEF CloseStream, FramingInv
  <2>2. FramingTypeOK'
    BY <1>3 DEF CloseStream, FramingInv, FramingTypeOK, TooLarge
  <2>3. Promise!Next
    BY <1>3 DEF CloseStream, Promise!Next, Promise!Close
  <2> QED BY <2>1, <2>2, <2>3 DEF FramingInv
<1>4. CASE ResetStream
  <2>1. /\ IsStream(buf, Arrived(buf))
        /\ \E n \in 0..Len(pending) : Arrived(buf) = SubSeq(pending, 1, n)
    BY <1>t, StreamReset DEF FramingInv
  <2>2. PICK n \in 0..Len(pending) : pending' = SubSeq(pending, 1, n)
    BY <2>1, <1>4 DEF ResetStream
  <2>3. buf' = buf /\ wire' = <<>> /\ (buf \o wire)' = buf
    BY <1>4, <1>t DEF ResetStream
  <2>4. IsStream(buf \o wire, pending)' /\ open' = FALSE
    BY <2>1, <2>3, <1>4 DEF ResetStream
  <2>5. pending' \in Seq(Payloads)
    BY <2>2, <1>t, Front
  <2>6. FramingTypeOK'
    <3>1. <<>> \in Seq(Bytes)
      OBVIOUS
    <3>2. broken' = TRUE /\ open' = FALSE /\ result' = result /\ received' = received
      BY <1>4 DEF ResetStream
    <3> QED BY <3>1, <3>2, <2>3, <2>5 DEF FramingInv, FramingTypeOK, TooLarge, Bytes
  <2>7. Promise!Next
    BY <2>2, <1>4 DEF ResetStream, Promise!Next, Promise!Break
  <2> QED BY <2>4, <2>6, <2>7 DEF FramingInv
<1>5. CASE ReceiveFrame
  <2> DEFINE c == Consumed(buf)
             w == buf \o wire
  <2>1. /\ pending # <<>> /\ pending[1] \in Payloads /\ Len(pending[1]) <= MaxFrame
        /\ c = Len(Frame(pending[1])) /\ c \in 0..Len(buf)
        /\ SubSeq(buf, HeaderLen + 1, c) = pending[1]
    BY <1>5, <1>t, ParsedIsFirst DEF FramingInv, ReceiveFrame
  <2>2. /\ received' = Append(received, pending[1]) /\ pending' = Tail(pending)
        /\ buf' = SubSeq(buf, c + 1, Len(buf)) /\ wire' = wire /\ open' = open /\ broken' = broken
        /\ result' = "Ok"
    BY <1>5, <2>1 DEF ReceiveFrame, Drain
  <2> HIDE DEF c
  <2>3. buf' \in Seq(Bytes) /\ Len(buf') = Len(buf) - c
    BY <2>1, <2>2, <1>t, Back
  <2>4. (buf \o wire)' = SubSeq(w, c + 1, Len(w))
    <3>1. c \in 0..Len(buf)
      BY <2>1
    <3>2. SubSeq(buf, c + 1, Len(buf)) \o wire = SubSeq(buf \o wire, c + 1, Len(buf \o wire))
      BY <3>1, <1>t, BackOfConcatenation
    <3> QED BY <3>2, <2>2
  <2>5. ASSUME NEW e \in [0..Len(pending) -> Nat], FramesAt(w, pending, e)
        PROVE  \E d \in [0..Len(pending') -> Nat] :
                   /\ FramesAt((buf \o wire)', pending', d)
                   /\ Len(w) = e[Len(pending)] => Len((buf \o wire)') = d[Len(pending')]
    <3>1. FrameIn(w, pending, e, 1) /\ e[0] = 0
      <4>1. 1 \in 1..Len(pending)
        BY <2>1, <1>t
      <4> QED BY <4>1, <2>5, <1>t, StreamFrames DEF FramesAt, Ends
    <3>2. c = e[1] /\ c \in Nat
      BY <3>1, <2>1 DEF FrameIn
    <3>3. w \in Seq(Bytes)
      BY <1>t
    <3> HIDE DEF w
    <3>4. \E d \in [0..Len(Tail(pending)) -> Nat] :
               /\ FramesAt(SubSeq(w, c + 1, Len(w)), Tail(pending), d)
               /\ Len(w) = e[Len(pending)]
                    => Len(SubSeq(w, c + 1, Len(w))) = d[Len(Tail(pending))]
      BY <3>2, <3>3, <2>1, <2>5, <1>t, StreamReceive
    <3> QED BY <3>4, <2>2, <2>4
  <2>6. IsStream(buf \o wire, pending)'
    <3>1. PICK e \in [0..Len(pending) -> Nat] : FramesAt(w, pending, e)
      BY DEF FramingInv, IsStream
    <3> HIDE DEF w
    <3> QED BY <3>1, <2>5 DEF IsStream
  <2>7. open' => IsWhole(buf \o wire, pending)'
    <3> SUFFICES ASSUME open PROVE IsWhole((buf \o wire)', pending')
      BY <2>2
    <3>1. PICK e \in [0..Len(pending) -> Nat] :
              FramesAt(w, pending, e) /\ Len(w) = e[Len(pending)]
      BY DEF FramingInv, IsWhole
    <3> HIDE DEF w
    <3> QED BY <3>1, <2>5 DEF IsWhole
  <2>8. Len(buf') < HeaderLen + MaxFrame + Chunk
    <3>1. ~TooLarge(buf)
      BY <1>5 DEF ReceiveFrame, Complete
    <3>2. Len(buf) < HeaderLen + MaxFrame + Chunk /\ Len(buf) \in Nat
      BY <3>1, <1>t DEF FramingInv, FramingTypeOK
    <3> QED BY <3>2, <2>1, <2>3, Numbers
  <2>9. FramingTypeOK'
    <3>1. received' \in Seq(Payloads) /\ pending' \in Seq(Payloads)
      BY <2>1, <2>2, <1>t
    <3> QED BY <3>1, <2>2, <2>3, <2>8 DEF FramingInv, FramingTypeOK, Bytes
  <2>10. Promise!Next
    <3>1. pending # <<>> /\ Head(pending) = pending[1]
          /\ Head(pending) \notin {p \in Payloads : Len(p) > MaxFrame}
      <4>1. Head(pending) = pending[1]
        BY <2>1, <1>t
      <4>2. Len(pending[1]) \in Nat
        BY <2>1, FrameFacts
      <4>3. ~(Len(pending[1]) > MaxFrame)
        BY <2>1, <4>2, Numbers
      <4> QED BY <4>1, <4>3, <2>1
    <3> QED BY <3>1, <2>2 DEF Promise!Next, Promise!Receive
  <2> QED BY <2>6, <2>7, <2>9, <2>10 DEF FramingInv
<1>6. ASSUME NEW n \in 1..Chunk, ReceiveChunk(n)
      PROVE  FramingInv' /\ [Promise!Next]_<<pending, received, open>>
  <2> DEFINE more == SubSeq(wire, 1, n)
             rest == SubSeq(wire, n + 1, Len(wire))
  <2>1. n \in 0..Len(wire) /\ buf' = buf \o more /\ wire' = rest
    BY <1>6, <1>t, Numbers DEF ReceiveChunk
  <2>2. /\ more \in Seq(Bytes) /\ Len(more) = n
        /\ rest \in Seq(Bytes) /\ wire = more \o rest
    <3>1. more \in Seq(Bytes) /\ Len(more) = n
      BY <2>1, <1>t, Front
    <3>2. rest \in Seq(Bytes)
      BY <2>1, <1>t, Back
    <3>3. wire = more \o rest
      BY <2>1, <1>t, FrontAndBack
    <3> QED BY <3>1, <3>2, <3>3
  <2> HIDE DEF more, rest
  <2>3. (buf \o wire)' = buf \o wire
    <3>2. (buf \o more) \o rest = buf \o wire
      <4>1. more \in Seq(Bytes) /\ rest \in Seq(Bytes) /\ buf \in Seq(Bytes)
        BY <2>2, <1>t
      <4>2. buf \o (more \o rest) = (buf \o more) \o rest
        BY <4>1, BytesAssociate, Zenon
      <4> QED BY <4>2, <2>2, Zenon
    <3> QED BY <3>2, <2>1
  <2>4. pending' = pending /\ open' = open /\ received' = received /\ broken' = broken
    BY <1>6 DEF ReceiveChunk
  <2>5. IsStream(buf \o wire, pending)' /\ (open' => IsWhole(buf \o wire, pending)')
    BY <2>3, <2>4 DEF FramingInv
  <2>6. TooLarge(buf') \/ Len(buf') < HeaderLen + MaxFrame + Chunk
    <3>0. Len(buf) \in Nat /\ Len(buf') = Len(buf) + n
      <4>1. PICK l \in Nat : l = Len(buf)
        BY <1>t
      <4>2. Len(buf \o more) = l + n
        BY <4>1, <2>2, <1>t, Concatenation
      <4> QED BY <4>1, <4>2, <2>1
    <3>1. CASE Len(buf) < HeaderLen
      BY <3>0, <3>1, Numbers
    <3>2. CASE Len(buf) >= HeaderLen
      <4>1. Declared(buf) \in Nat /\ Declared(buf') = Declared(buf)
        BY <2>1, <2>2, <3>2, HeaderStays
      <4>2. CASE Declared(buf) > MaxFrame
        BY <4>1, <4>2, <3>0, <3>2, Numbers DEF TooLarge
      <4>3. CASE ~(Declared(buf) > MaxFrame)
        <5>1. Len(buf) - HeaderLen < Declared(buf)
          BY <4>1, <4>3, <3>0, <3>2, <1>6, Numbers DEF ReceiveChunk, Complete, TooLarge
        <5> QED BY <5>1, <4>1, <4>3, <3>0, Numbers
      <4> QED BY <4>2, <4>3
    <3> QED BY <3>0, <3>1, <3>2, Numbers
  <2>7. FramingTypeOK'
    <3>1. buf' \in Seq(Bytes) /\ wire' \in Seq(Bytes)
      BY <2>1, <2>2, <1>t
    <3>2. result' \in {"reading", "Oversized"}
      BY <1>6 DEF ReceiveChunk
    <3> QED BY <3>1, <3>2, <2>4, <2>6 DEF FramingInv, FramingTypeOK, Bytes
  <2> QED BY <2>4, <2>5, <2>7 DEF FramingInv
<1>7. CASE ReceiveEof \/ ReceiveIoError
  <2>1. UNCHANGED <<wire, buf, open, broken, pending, received>>
        /\ result' \in {"ClosedMidFrame", "Io"}
    BY <1>7 DEF ReceiveEof, ReceiveIoError
  <2> QED BY <2>1 DEF FramingInv, FramingTypeOK, TooLarge
<1>8. CASE UNCHANGED framing
  BY <1>8 DEF framing, FramingInv, FramingTypeOK, TooLarge
<1> QED BY <1>1, <1>2, <1>3, <1>4, <1>5, <1>6, <1>7, <1>8 DEF FramingNext, ReceiveBytes

\* The receiver's buffer stays below a frame and a read, and all that is
\* received was sent (tcp.rs, 80-112).
THEOREM FramingTypeCorrect == FramingSpec => []FramingTypeOK
<1>1. FramingInit => FramingInv
  BY FramingInitInv
<1>2. FramingInv /\ [FramingNext]_framing => FramingInv'
  BY FramingStep
<1>3. FramingInv => FramingTypeOK
  BY DEF FramingInv
<1> QED BY <1>1, <1>2, <1>3, PTL DEF FramingSpec

\* Every step of sender and receiver is a step of a channel of whole
\* messages, or none (tcp.rs, 80-112; transport.rs).
THEOREM FramesImplementChannel ==
    FramingSpec => Promise!Init /\ [][Promise!Next]_<<pending, received, open>>
<1>1. FramingInit => FramingInv /\ Promise!Init
  BY FramingInitInv DEF FramingInit, Promise!Init
<1>2. FramingInv /\ [FramingNext]_framing
        => FramingInv' /\ [Promise!Next]_<<pending, received, open>>
  BY FramingStep
<1> QED BY <1>1, <1>2, PTL DEF FramingSpec

----------------------------------------------------------------------------
(* The daemon and the frames, as the run composes them.                    *)

\* Neither level touches what the other keeps: both keep their types, and
\* the daemon its promises, when they run side by side.
THEOREM SyncTypesHold == SyncSpec => []SyncTypeOK
<1>1. SyncInit => DaemonInv /\ FramingInv
  BY DaemonStarts, FramingInitInv DEF SyncInit
<1>2. ASSUME DaemonInv, FramingInv, [SyncNext]_<<part, vars, framing>>
      PROVE  DaemonInv' /\ FramingInv'
  <2>1. [Next]_vars /\ [FramingNext]_framing
    BY <1>2 DEF SyncNext
  <2> QED BY <1>2, <2>1, DaemonSteps, FramingStep
<1>3. DaemonInv /\ FramingInv => SyncTypeOK
  BY TypesSuffice DEF FramingInv, SyncTypeOK
<1> QED BY <1>1, <1>2, <1>3, PTL DEF SyncSpec
=============================================================================
