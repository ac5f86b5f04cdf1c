----------------------- MODULE PersistentStateProofs -----------------------
(***************************************************************************)
(* Crash safety of PersistentState, for every set of keys, values and      *)
(* heights and every number of records, crashes and power losses.          *)
(*                                                                         *)
(* The inductive invariant speaks of the records replay keeps of each of   *)
(* the two versions of the log, the one a reader sees and the one a power  *)
(* loss leaves, and of how far the running process is through its append.  *)
(***************************************************************************)
EXTENDS PersistentState, WriteAheadLogLemmas

RecOps(R) == [j \in DOMAIN R |-> R[j].op]

\* The hash of the n-th record of a chained log.
Chain(R, n) == [j \in 1..n |-> [seq |-> j, op |-> R[j].op]]

Linked(R) == \A i \in DOMAIN R : R[i].seq = i /\ R[i].prev = Chain(R, i - 1)

LogInv(R) ==
    /\ R \in Seq(Records)
    /\ Linked(R)
    /\ IsPrefixOf(OpsOf(acked), RecOps(R))
    /\ MarkerSound(RecOps(R))

\* A snapshot that loads has its marker among the records.
FileInv(f, R) ==
    Loads(f) => \E i \in DOMAIN R : R[i].op = Marker(f.height, f.root)

\* What the process holds, by how far it is.
MemoryInv ==
    LET K == Kept(log) IN
    /\ pc # "down" => store = ApplyFrom(EmptyStore, OpsOf(prev), 0)
    /\ pc \in {"idle", "truncate", "save"} =>
          prev = Chain(K, Len(K)) /\ seq = Len(K)
    /\ pc = "write" => prev = Chain(K, Len(K))
    /\ pc \in {"write", "newline", "sync"} =>
          /\ record.seq = Len(prev) + 1 /\ record.prev = prev
          /\ seq = Len(prev) + 1
          /\ record.op.type = "Checkpoint" => record.op.root = StateRoot(store)
    /\ pc = "newline" =>
          log.tail = record /\ prev = Chain(log.lines, Len(log.lines))
    /\ pc \in {"sync", "truncate", "save"} =>
          log.tail = Clean /\ Len(log.lines) > 0
            /\ log.lines[Len(log.lines)] = record
    /\ pc = "sync" => prev = Chain(log.lines, Len(log.lines) - 1)
    /\ pc \in {"truncate", "save"} =>
          record.op.root = StateRoot(store)

RecordInv ==
    /\ pc \in {"write", "newline", "sync", "truncate", "save"} => record \in Records
    /\ pc = "newline" => log.tail \in Records \cup {Glued}
    /\ pc \in {"truncate", "save"} => record.op.type = "Checkpoint" /\ logDisk = log

\* The parts of the invariant that hold while no I/O error has occurred.
LogsInv ==
    ioErrors = 0 =>
        /\ ~HasGlued(log) => LogInv(Kept(log))
        /\ ~HasGlued(logDisk) => LogInv(Kept(logDisk))

FilesInv ==
    ioErrors = 0 =>
        /\ ~HasGlued(log) =>
              FileInv(file, Kept(log)) /\ FileInv(fileDisk, Kept(log))
        /\ ~HasGlued(logDisk) =>
              FileInv(file, Kept(logDisk)) /\ FileInv(fileDisk, Kept(logDisk))

ProcessInv == ioErrors = 0 /\ ~HasGlued(log) => MemoryInv

IInv == TypeOK /\ RecordInv /\ LogsInv /\ FilesInv /\ ProcessInv

-----------------------------------------------------------------------------
(* The log file.                                                           *)

\* The ops of a list of records are a list of WalOps.
LEMMA RecOpsSeq ==
    ASSUME NEW R \in Seq(Records)
    PROVE  /\ RecOps(R) \in Seq(WalOp) /\ Len(RecOps(R)) = Len(R)
           /\ DOMAIN RecOps(R) = DOMAIN R
<1>1. DOMAIN R = 1..Len(R) /\ Len(R) \in Nat
  OBVIOUS
<1>2. ASSUME NEW i \in 1..Len(R) PROVE R[i].op \in WalOp
  <2>1. R[i] \in Records
    OBVIOUS
  <2> QED BY <2>1 DEF Records
<1>3. RecOps(R) = [i \in 1..Len(R) |-> R[i].op]
  BY <1>1 DEF RecOps
<1> QED BY <1>1, <1>2, <1>3

\* One record more is one op more.
LEMMA RecOpsAppend ==
    ASSUME NEW R \in Seq(Records), NEW r \in Records
    PROVE  RecOps(Append(R, r)) = Append(RecOps(R), r.op)
<1> DEFINE Q == Append(R, r)
<1>1. /\ Q \in Seq(Records) /\ Len(Q) = Len(R) + 1 /\ Len(R) \in Nat
      /\ Q[Len(R) + 1] = r /\ \A i \in 1..Len(R) : Q[i] = R[i]
      /\ DOMAIN R = 1..Len(R) /\ DOMAIN Q = 1..(Len(R) + 1)
  OBVIOUS
<1> HIDE DEF Q
<1>2. /\ RecOps(R) \in Seq(WalOp) /\ Len(RecOps(R)) = Len(R) /\ r.op \in WalOp
      /\ RecOps(Q) \in Seq(WalOp) /\ Len(RecOps(Q)) = Len(R) + 1
  BY <1>1, RecOpsSeq DEF Records
<1>3. \A i \in 1..(Len(R) + 1) : RecOps(Q)[i] = Append(RecOps(R), r.op)[i]
  BY <1>1, <1>2 DEF RecOps
<1>4. RecOps(Q) = Append(RecOps(R), r.op)
  BY <1>2, <1>3
<1> QED BY <1>4 DEF Q

\* WalRecord::hash is a chain hash one longer than the one it continues.
LEMMA HashType ==
    ASSUME NEW r \in Records
    PROVE  Hash(r) \in ChainHash /\ Len(Hash(r)) = Len(r.prev) + 1
<1>1. r.prev \in Seq(ChainLink) /\ [seq |-> r.seq, op |-> r.op] \in ChainLink
  BY DEF ChainHash, ChainLink, Records
<1> QED BY <1>1 DEF Hash, ChainHash

\* So are the ops a chain hash commits to.
LEMMA OpsOfSeq ==
    ASSUME NEW h \in ChainHash
    PROVE  OpsOf(h) \in Seq(WalOp) /\ Len(OpsOf(h)) = Len(h)
<1>1. DOMAIN h = 1..Len(h) /\ Len(h) \in Nat
  BY DEF ChainHash
<1>2. ASSUME NEW i \in 1..Len(h) PROVE h[i].op \in WalOp
  <2>1. h[i] \in ChainLink
    BY DEF ChainHash
  <2> QED BY <2>1 DEF ChainLink
<1>3. OpsOf(h) = [i \in 1..Len(h) |-> h[i].op]
  BY <1>1 DEF OpsOf
<1> QED BY <1>1, <1>2, <1>3

\* A hash commits to the ops of the one it continues and to its own.
LEMMA HashOps ==
    ASSUME NEW r \in Records
    PROVE  OpsOf(Hash(r)) = Append(OpsOf(r.prev), r.op)
<1>1. r.prev \in Seq(ChainLink) /\ [seq |-> r.seq, op |-> r.op] \in ChainLink
      /\ r.op \in WalOp
  BY DEF ChainHash, ChainLink, Records
<1>2. Hash(r) \in ChainHash /\ Len(Hash(r)) = Len(r.prev) + 1
  BY HashType
<1>3. /\ OpsOf(r.prev) \in Seq(WalOp) /\ Len(OpsOf(r.prev)) = Len(r.prev)
      /\ OpsOf(Hash(r)) \in Seq(WalOp) /\ Len(OpsOf(Hash(r))) = Len(r.prev) + 1
  BY <1>1, <1>2, OpsOfSeq DEF ChainHash
<1>4. ASSUME NEW i \in 1..(Len(r.prev) + 1)
      PROVE  OpsOf(Hash(r))[i] = Append(OpsOf(r.prev), r.op)[i]
  BY <1>1, <1>3 DEF OpsOf, Hash
<1> QED BY <1>1, <1>3, <1>4

\* A prefix of a log's chain is a chain hash and commits to its ops.
LEMMA ChainType ==
    ASSUME NEW R \in Seq(Records), NEW n \in 0..Len(R)
    PROVE  /\ Chain(R, n) \in ChainHash /\ Len(Chain(R, n)) = n
           /\ n = Len(R) => OpsOf(Chain(R, n)) = RecOps(R)
<1>1. ASSUME NEW j \in 1..n PROVE [seq |-> j, op |-> R[j].op] \in ChainLink
  <2>1. R[j] \in Records
    OBVIOUS
  <2> QED BY <2>1 DEF Records, ChainLink
<1>2. Chain(R, n) \in Seq(ChainLink) /\ Len(Chain(R, n)) = n
  BY <1>1 DEF Chain
<1>3. DOMAIN Chain(R, n) = 1..n /\ DOMAIN R = 1..Len(R)
  BY DEF Chain
<1>4. ASSUME n = Len(R) PROVE OpsOf(Chain(R, n)) = RecOps(R)
  BY <1>3, <1>4 DEF OpsOf, RecOps, Chain
<1> QED BY <1>2, <1>4 DEF ChainHash

\* Of a log without glued lines, replay keeps every line, and the tail if
\* it is a whole record (wal.rs, 162-178).
LEMMA KeptUnglued ==
    ASSUME NEW L \in LogFile, ~HasGlued(L)
    PROVE  /\ L.tail \in {Clean, Torn} => Kept(L) = L.lines
           /\ L.tail \notin {Clean, Torn} =>
                 L.tail \in Records /\ Kept(L) = Append(L.lines, L.tail)
           /\ L.lines \in Seq(Records)
           /\ Kept(L) \in Seq(Records)
<1> USE LineAssumption
<1>1. L.lines \in Seq(Records)
  <2>1. L.lines \in Seq(Records \cup {Glued})
    BY DEF LogFile
  <2>2. \A i \in 1..Len(L.lines) : L.lines[i] \in Records
    BY <2>1 DEF HasGlued
  <2> QED BY <2>1, <2>2
<1>2. CASE L.tail = Clean
  <2>1. FileLines(L) = L.lines
    BY <1>2 DEF FileLines
  <2>2. Kept(L) = L.lines
    BY <1>1, <2>1 DEF Kept, Readable
  <2> QED BY <1>1, <1>2, <2>2
<1>3. CASE L.tail = Torn
  <2>1. FileLines(L) = Append(L.lines, Torn)
    BY <1>3 DEF FileLines
  <2>2. /\ Len(FileLines(L)) = Len(L.lines) + 1
        /\ FileLines(L)[Len(L.lines) + 1] = Torn
    BY <1>1, <2>1
  <2>3. SubSeq(Append(L.lines, Torn), 1, Len(L.lines)) = L.lines
    BY <1>1
  <2>4. Kept(L) = L.lines
    <3>1. Len(FileLines(L)) > 0 /\ Len(FileLines(L)) - 1 = Len(L.lines)
      BY <1>1, <2>2
    <3>2. ~Readable(FileLines(L)[Len(FileLines(L))])
      BY <1>1, <2>2 DEF Readable
    <3>3. Kept(L) = SubSeq(FileLines(L), 1, Len(FileLines(L)) - 1)
      BY <3>1, <3>2, Zenon DEF Kept
    <3> QED BY <2>1, <2>3, <3>1, <3>3
  <2> QED BY <1>1, <1>3, <2>4
<1>4. CASE L.tail \notin {Clean, Torn}
  <2>1. L.tail \in Records
    BY <1>4 DEF LogFile, HasGlued
  <2>2. FileLines(L) = Append(L.lines, L.tail)
    BY <1>4 DEF FileLines
  <2>3. /\ Len(FileLines(L)) = Len(L.lines) + 1
        /\ FileLines(L)[Len(L.lines) + 1] = L.tail
    BY <1>1, <2>2
  <2>4. Kept(L) = Append(L.lines, L.tail)
    BY <1>1, <2>1, <2>2, <2>3 DEF Kept, Readable
  <2> QED BY <1>1, <1>4, <2>1, <2>4
<1> QED BY <1>2, <1>3, <1>4

\* A log that replays is made of records (wal.rs, 168-196).
LEMMA ReplayedRecords ==
    ASSUME NEW L \in LogFile, ReplayOk(L)
    PROVE  /\ Kept(L) \in Seq(Records)
           /\ LogOps(L) \in Seq(WalOp)
           /\ Tip(L) \in ChainHash /\ TipSeq(L) \in Nat
<1> USE LineAssumption
<1> DEFINE Lines == Records \cup {Clean, Torn, Glued}
<1>1. FileLines(L) \in Seq(Lines)
  BY DEF LogFile, FileLines
<1>2. Kept(L) \in Seq(Lines)
  BY <1>1 DEF Kept
<1>3. \A i \in 1..Len(Kept(L)) : Kept(L)[i] # Clean
  <2>1. \A i \in 1..Len(FileLines(L)) : FileLines(L)[i] # Clean
    BY DEF LogFile, FileLines
  <2> QED BY <1>1, <2>1 DEF Kept
<1>4. \A i \in 1..Len(Kept(L)) : Kept(L)[i] \in Records
  BY <1>2, <1>3 DEF ReplayOk, Readable
<1>5. Kept(L) \in Seq(Records)
  BY <1>2, <1>4
<1>6. LogOps(L) \in Seq(WalOp)
  BY <1>5, RecOpsSeq DEF LogOps, RecOps
<1>7. CASE Len(Kept(L)) = 0
  BY <1>5, <1>6, <1>7 DEF Tip, TipSeq, ChainHash, GenesisPrev
<1>8. CASE Len(Kept(L)) # 0
  <2> DEFINE r == Kept(L)[Len(Kept(L))]
  <2>1. r \in Records
    BY <1>5, <1>8
  <2>2. Tip(L) = Hash(r) /\ TipSeq(L) = r.seq
    BY <1>8 DEF Tip, TipSeq
  <2> HIDE DEF r
  <2>3. Hash(r) \in ChainHash /\ r.seq \in Nat
    BY <2>1, HashType DEF Records
  <2> QED BY <1>5, <1>6, <2>2, <2>3
<1> QED BY <1>7, <1>8
\* Writing the bytes of a whole record to a log that ends in a newline adds
\* that record; to any other log it leaves a glued line (wal.rs, 133).
LEMMA KeptAppendBytes ==
    ASSUME NEW L \in LogFile, NEW b \in Records \cup {Torn}
    PROVE  /\ AppendBytes(L, b) \in LogFile /\ AppendBytes(L, b).garbled = L.garbled
           /\ ~HasGlued(AppendBytes(L, b)) =>
                 /\ L.tail = Clean /\ ~HasGlued(L)
                 /\ AppendBytes(L, b).lines = L.lines
                 /\ AppendBytes(L, b).tail = b
                 /\ b = Torn => Kept(AppendBytes(L, b)) = Kept(L)
                 /\ b # Torn => Kept(AppendBytes(L, b)) = Append(Kept(L), b)
<1> USE LineAssumption
<1> DEFINE M == AppendBytes(L, b)
<1>1. /\ M \in LogFile /\ M.lines = L.lines /\ M.garbled = L.garbled
      /\ M.tail = IF L.tail = Clean THEN b ELSE Glued
  BY DEF AppendBytes, LogFile
<1>2. ASSUME ~HasGlued(M) PROVE L.tail = Clean /\ ~HasGlued(L) /\ M.tail = b
  BY <1>1, <1>2 DEF HasGlued
<1> HIDE DEF M
<1>3. ASSUME ~HasGlued(M) PROVE Kept(L) = L.lines
  BY <1>2, <1>3, KeptUnglued
<1>4. ASSUME ~HasGlued(M), b = Torn PROVE Kept(M) = M.lines
  BY <1>1, <1>2, <1>4, KeptUnglued
<1>5. ASSUME ~HasGlued(M), b # Torn PROVE Kept(M) = Append(M.lines, b)
  BY <1>1, <1>2, <1>5, KeptUnglued
<1> QED BY <1>1, <1>2, <1>3, <1>4, <1>5 DEF M

\* A prefix of a record changes no record of the log, wherever it ends.
LEMMA KeptTorn ==
    ASSUME NEW L \in LogFile, NEW in \in BOOLEAN
    PROVE  /\ AppendTorn(L, in) \in LogFile
           /\ ~AppendTorn(L, in).garbled => ~L.garbled
           /\ ~HasGlued(AppendTorn(L, in)) =>
                 ~HasGlued(L) /\ Kept(AppendTorn(L, in)) = Kept(L)
<1> DEFINE T == AppendBytes(L, Torn)
           M == AppendTorn(L, in)
<1>1. /\ T \in LogFile /\ T.garbled = L.garbled
      /\ ~HasGlued(T) => ~HasGlued(L) /\ Kept(T) = Kept(L)
  BY KeptAppendBytes
<1>2. /\ M \in LogFile /\ M.lines = T.lines /\ M.tail = T.tail
      /\ M.garbled = (T.garbled \/ in)
  <2> HIDE DEF T
  <2>1. M = [T EXCEPT !.garbled = @ \/ in]
    BY DEF AppendTorn, T
  <2> QED BY <1>1, <2>1 DEF LogFile
<1> HIDE DEF T, M
<1>3. (HasGlued(M) <=> HasGlued(T)) /\ Kept(M) = Kept(T)
  BY <1>2, Zenon DEF HasGlued, Kept, FileLines
<1>4. M \in LogFile /\ (~M.garbled => ~L.garbled)
  BY <1>1, <1>2
<1> QED BY <1>1, <1>3, <1>4 DEF M

\* Writing the newline terminates the line and changes no record (wal.rs,
\* 133).
LEMMA KeptAppendNewline ==
    ASSUME NEW L \in LogFile, L.tail \in Records \cup {Glued}
    PROVE  /\ AppendNewline(L) \in LogFile /\ AppendNewline(L).garbled = L.garbled
           /\ ~HasGlued(AppendNewline(L)) =>
                 ~HasGlued(L) /\ Kept(AppendNewline(L)) = Kept(L)
<1> USE LineAssumption
<1> DEFINE M == AppendNewline(L)
<1>0. L.lines \in Seq(Records \cup {Glued})
  BY DEF LogFile
<1>1. /\ M \in LogFile /\ M.lines = Append(L.lines, L.tail) /\ M.tail = Clean
      /\ M.garbled = L.garbled
  <2>0. \A S, s, e : s \in Seq(S) /\ e \in S => Append(s, e) \in Seq(S)
    OBVIOUS
  <2>1. PICK longer \in Seq(Records \cup {Glued}) : longer = Append(L.lines, L.tail)
    BY <1>0, <2>0, Zenon
  <2>2. M = [L EXCEPT !.lines = longer, !.tail = Clean]
    BY <2>1 DEF AppendNewline
  <2> QED BY <2>1, <2>2 DEF LogFile
<1> HIDE DEF M
<1>2. ASSUME ~HasGlued(M) PROVE ~HasGlued(L)
  <2>1. L.tail # Glued
    <3>1. Len(L.lines) + 1 \in DOMAIN M.lines /\ M.lines[Len(L.lines) + 1] = L.tail
      BY <1>0, <1>1
    <3> QED BY <1>2, <3>1 DEF HasGlued
  <2>2. ASSUME NEW i \in DOMAIN L.lines PROVE L.lines[i] # Glued
    <3>1. i \in DOMAIN M.lines /\ M.lines[i] = L.lines[i]
      BY <1>0, <1>1
    <3> QED BY <1>2, <3>1 DEF HasGlued
  <2> QED BY <2>1, <2>2 DEF HasGlued
<1>3. ASSUME ~HasGlued(M) PROVE Kept(M) = Append(L.lines, L.tail)
  BY <1>1, <1>3, KeptUnglued
<1>4. ASSUME ~HasGlued(M) PROVE Kept(L) = Append(L.lines, L.tail)
  <2>1. L.tail \notin {Clean, Torn}
    OBVIOUS
  <2> QED BY <1>2, <1>4, <2>1, KeptUnglued
<1> QED BY <1>1, <1>2, <1>3, <1>4 DEF M

\* What append_op adds to a sound log keeps it sound: it continues the
\* chain, and a marker carries the root of the store the log replays to
\* (wal.rs, 123-137 and 309-314).
LEMMA LogInvAppend ==
    ASSUME NEW R, LogInv(R), NEW r \in Records,
           acked \in ChainHash,
           r.seq = Len(R) + 1, r.prev = Chain(R, Len(R)),
           r.op.type = "Checkpoint" =>
               r.op.root = StateRoot(ApplyFrom(EmptyStore, RecOps(R), 0))
    PROVE  LogInv(Append(R, r))
<1> DEFINE Q == Append(R, r)
           ops == RecOps(R)
<1>1. /\ R \in Seq(Records) /\ Q \in Seq(Records) /\ Len(Q) = Len(R) + 1
      /\ Q[Len(R) + 1] = r /\ \A i \in 1..Len(R) : Q[i] = R[i]
      /\ DOMAIN R = 1..Len(R) /\ DOMAIN Q = 1..(Len(R) + 1) /\ Len(R) \in Nat
  BY DEF LogInv
<1>2. ops \in Seq(WalOp) /\ Len(ops) = Len(R) /\ r.op \in WalOp
  BY <1>1, RecOpsSeq DEF Records
<1>3. RecOps(Q) = Append(ops, r.op)
  BY <1>1, RecOpsAppend
<1> HIDE DEF Q, ops
<1>4. Linked(Q)
  <2>1. ASSUME NEW n \in 0..Len(R) PROVE Chain(Q, n) = Chain(R, n)
    BY <1>1 DEF Chain
  <2>2. ASSUME NEW i \in 1..Len(R) PROVE Q[i].seq = i /\ Q[i].prev = Chain(Q, i - 1)
    BY <1>1, <2>1 DEF LogInv, Linked
  <2>3. Q[Len(R) + 1].prev = Chain(Q, Len(R))
    BY <1>1, <2>1
  <2> QED BY <1>1, <2>2, <2>3 DEF Linked
<1>5. IsPrefixOf(OpsOf(acked), RecOps(Q))
  <2>1. OpsOf(acked) \in Seq(WalOp)
    BY OpsOfSeq
  <2>2. IsPrefixOf(OpsOf(acked), ops)
    BY DEF LogInv, ops
  <2> QED BY <1>2, <1>3, <2>1, <2>2 DEF IsPrefixOf
<1>6. MarkerSound(RecOps(Q))
  BY <1>2, <1>3, MarkerSoundAppend DEF LogInv, ops
<1> QED BY <1>1, <1>4, <1>5, <1>6 DEF LogInv, Q

\* In a linked log the hash of the n-th record commits to the first n ops.
LEMMA HashIsChain ==
    ASSUME NEW R \in Seq(Records), Linked(R), NEW n \in 1..Len(R)
    PROVE  Hash(R[n]) = Chain(R, n)
<1>1. R[n].seq = n /\ R[n].prev = Chain(R, n - 1)
  BY DEF Linked
<1>2. Chain(R, n - 1) = [j \in 1..(n - 1) |-> [seq |-> j, op |-> R[j].op]]
  BY DEF Chain
<1>3. Hash(R[n]) = Append(Chain(R, n - 1), [seq |-> n, op |-> R[n].op])
  BY <1>1 DEF Hash
<1>4. Chain(R, n - 1) \in ChainHash /\ Len(Chain(R, n - 1)) = n - 1
  BY ChainType
<1>5. Chain(R, n) \in ChainHash /\ Len(Chain(R, n)) = n
  BY ChainType
<1>6. R[n] \in Records
  OBVIOUS
<1>7. [seq |-> n, op |-> R[n].op] \in ChainLink
  BY <1>6 DEF ChainLink, Records
<1>8. ASSUME NEW j \in 1..n PROVE Hash(R[n])[j] = Chain(R, n)[j]
  <2>1. CASE j = n
    <3>1. Chain(R, n)[n] = [seq |-> n, op |-> R[n].op]
      BY DEF Chain
    <3>2. Hash(R[n])[n] = [seq |-> n, op |-> R[n].op]
      BY <1>3, <1>4, <1>7 DEF ChainHash
    <3> QED BY <2>1, <3>1, <3>2
  <2>2. CASE j # n
    <3>1. Hash(R[n])[j] = Chain(R, n - 1)[j]
      BY <1>3, <1>4, <1>7, <2>2 DEF ChainHash
    <3> QED BY <2>2, <3>1 DEF Chain
  <2> QED BY <2>1, <2>2
<1>9. Hash(R[n]) \in Seq(ChainLink) /\ Len(Hash(R[n])) = n
  BY <1>3, <1>4, <1>7 DEF ChainHash
<1> QED BY <1>5, <1>8, <1>9 DEF ChainHash

\* What replay returns for a linked log: the last seq and the whole chain
\* (wal.rs, 194-198).
LEMMA TipIsChain ==
    ASSUME NEW L, Kept(L) \in Seq(Records), Linked(Kept(L))
    PROVE  /\ Tip(L) = Chain(Kept(L), Len(Kept(L)))
           /\ TipSeq(L) = Len(Kept(L))
           /\ ReplayOk(L) <=> ~L.garbled
<1> DEFINE K == Kept(L)
<1>1. CASE Len(K) = 0
  <2>1. Chain(K, 0) = <<>>
    BY DEF Chain
  <2> QED BY <1>1, <2>1 DEF Tip, TipSeq, ReplayOk, GenesisPrev
<1>2. CASE Len(K) # 0
  <2>1. Len(K) \in 1..Len(K)
    BY <1>2
  <2>2. Tip(L) = Chain(K, Len(K)) /\ TipSeq(L) = Len(K)
    BY <1>2, <2>1, HashIsChain DEF Tip, TipSeq, Linked
  <2>3. ASSUME NEW i \in DOMAIN K PROVE Readable(K[i])
    BY LineAssumption DEF Readable
  <2>4. ASSUME NEW i \in DOMAIN K PROVE Chained(K, i)
    <3>1. K[i].seq = i /\ K[i].prev = Chain(K, i - 1)
      BY DEF Linked
    <3>2. CASE i = 1
      <4>1. Chain(K, 0) = <<>>
        BY DEF Chain
      <4> QED BY <3>1, <3>2, <4>1 DEF Chained, GenesisPrev
    <3>3. CASE i # 1
      <4>1. i - 1 \in 1..Len(K)
        BY <3>3
      <4>2. Hash(K[i - 1]) = Chain(K, i - 1)
        BY <4>1, HashIsChain
      <4> QED BY <3>1, <3>3, <4>2 DEF Chained
    <3> QED BY <3>2, <3>3
  <2> QED BY <2>2, <2>3, <2>4 DEF ReplayOk
<1> QED BY <1>1, <1>2

-----------------------------------------------------------------------------
(* The invariant.                                                          *)

\* The variables keep their types, and the record being written is one.
LEMMA TypeStep == TypeOK /\ RecordInv /\ [Next]_vars => TypeOK' /\ RecordInv'
<1> SUFFICES ASSUME TypeOK, RecordInv, [Next]_vars PROVE TypeOK' /\ RecordInv'
  OBVIOUS
<1> USE DEF disk, memory, counters
<1>e. EmptyStore \in Store /\ GenesisPrev \in ChainHash
  BY DEF EmptyStore, Store, GenesisPrev, ChainHash
<1>c. ASSUME NEW M \in CutShort PROVE M \in LogFile
  BY <1>c, KeptTorn DEF CutShort, TypeOK
<1>1. CASE Open
  <2>1. LogOps(log) \in Seq(WalOp) /\ Tip(log) \in ChainHash /\ TipSeq(log) \in Nat
    BY <1>1, ReplayedRecords DEF Open, TypeOK
  <2>2. \A op \in WalOp : op.type \in {"Set", "Remove"} => op \in Tx
    BY WalOpKinds
  <2>3. Recover(log, file) \in Store
    <3>1. CASE SnapshotUsable(LogOps(log), file)
      <4>1. file.entries \in Store
        BY <3>1 DEF SnapshotUsable, Loads, SnapshotFile, TypeOK
      <4> QED BY <2>1, <2>2, <3>1, <4>1, ApplyFromType DEF Recover, RecoverFrom
    <3>2. CASE ~SnapshotUsable(LogOps(log), file)
      BY <1>e, <2>1, <2>2, <3>2, ApplyFromType DEF Recover, RecoverFrom
    <3> QED BY <3>1, <3>2
  <2> QED BY <1>1, <2>1, <2>3 DEF Open, TypeOK, RecordInv, PCs
<1>2. ASSUME NEW op \in WalOp, BeginAppend(op) PROVE TypeOK' /\ RecordInv'
  <2>1. record' \in Records
    BY <1>2 DEF BeginAppend, WalRecord, Records, TypeOK
  <2> QED BY <1>2, <2>1 DEF BeginAppend, TypeOK, RecordInv, PCs
<1>3. CASE ApplyTx
  BY <1>2, <1>3 DEF ApplyTx, WalOp
<1>4. CASE Checkpoint
  <2>1. PICK h \in Heights : BeginAppend(Marker(h, StateRoot(store)))
    BY <1>4 DEF Checkpoint
  <2>2. Marker(h, StateRoot(store)) \in WalOp
    BY DEF TypeOK, WalOp, Markers
  <2> QED BY <1>2, <2>1, <2>2
<1>5. CASE WriteRecord
  <2>1. AppendBytes(log, record) \in LogFile
    BY <1>5, KeptAppendBytes DEF WriteRecord, TypeOK, RecordInv
  <2>2. AppendBytes(log, record).tail \in Records \cup {Glued}
    BY <1>5 DEF WriteRecord, TypeOK, RecordInv, AppendBytes, LogFile
  <2> QED BY <1>5, <2>1, <2>2 DEF WriteRecord, TypeOK, RecordInv, PCs
<1>6. CASE WriteNewline
  <2>1. AppendNewline(log) \in LogFile
    BY <1>6, KeptAppendNewline DEF WriteNewline, TypeOK, RecordInv
  <2> QED BY <1>6, <2>1 DEF WriteNewline, TypeOK, RecordInv, PCs
<1>7. CASE SyncData
  <2>1. record \in Records /\ record.op \in WalOp /\ Hash(record) \in ChainHash
    BY <1>7, HashType DEF SyncData, RecordInv, Records
  <2>2. record.op.type # "Checkpoint" => Apply(store, record.op) \in Store
    BY <2>1, WalOpKinds, ApplyType DEF TypeOK
  <2> QED BY <1>7, <2>1, <2>2 DEF SyncData, TypeOK, RecordInv, PCs
<1>8. CASE TruncateFile
  BY <1>8 DEF TruncateFile, TypeOK, RecordInv, PCs
<1>9. CASE SaveFile
  <2>1. record.op \in Markers
    BY <1>9, WalOpKinds DEF SaveFile, RecordInv, Records
  <2>2. record.op.height \in Heights
    BY <2>1 DEF Markers, Marker
  <2>3. file' \in SnapshotFile
    BY <1>9, <2>2 DEF SaveFile, FromStore, SnapshotFile, TypeOK
  <2> QED BY <1>9, <2>3 DEF SaveFile, TypeOK, RecordInv, PCs
<1>10. CASE WriteBack
  BY <1>10 DEF WriteBack, TypeOK, RecordInv
<1>11. CASE IoError
  BY <1>11, <1>c DEF IoError, TypeOK, RecordInv, PCs
<1>12. CASE Crash
  BY <1>12, <1>c, <1>e DEF Crash, TypeOK, RecordInv, PCs
<1>13. CASE PowerLoss
  BY <1>13, <1>e DEF PowerLoss, TypeOK, RecordInv, PCs
<1>14. CASE UNCHANGED vars
  BY <1>14 DEF vars, TypeOK, RecordInv
<1> QED BY <1>1, <1>3, <1>4, <1>5, <1>6, <1>7, <1>8, <1>9, <1>10, <1>11, <1>12,
           <1>13, <1>14 DEF Next

\* A fresh directory satisfies the invariant.
LEMMA InitIInv == Init => IInv
<1> SUFFICES ASSUME Init PROVE IInv
  OBVIOUS
<1>1. log \in LogFile /\ logDisk \in LogFile /\ log.tail = Clean /\ log.lines = <<>>
      /\ logDisk = log /\ ~HasGlued(log)
  BY LineAssumption DEF Init, EmptyLog, LogFile, HasGlued
<1>2. Kept(log) = <<>>
  BY <1>1, KeptUnglued
<1>3. TypeOK /\ RecordInv
  BY <1>1 DEF Init, TypeOK, RecordInv, PCs, EmptyStore, Store, GenesisPrev, ChainHash
<1>4. LogInv(<<>>)
  BY DEF Init, LogInv, Linked, IsPrefixOf, OpsOf, RecOps, MarkerSound, MarkersIn,
         GenesisPrev
<1>5. LogsInv /\ FilesInv
  BY <1>1, <1>2, <1>4 DEF Init, LogsInv, FilesInv, FileInv, Loads
<1>6. ProcessInv
  BY DEF Init, ProcessInv, MemoryInv
<1> QED BY <1>3, <1>5, <1>6 DEF IInv

\* A write that is cut short changes no record of the log.
LEMMA CutShortKeeps ==
    ASSUME TypeOK, NEW M \in CutShort, ~HasGlued(M)
    PROVE  /\ ~HasGlued(log) /\ Kept(M) = Kept(log)
           /\ ~M.garbled => ~log.garbled
<1>1. CASE M = log
  BY <1>1
<1>2. ASSUME NEW in \in BOOLEAN, M = AppendTorn(log, in)
      PROVE  /\ ~HasGlued(log) /\ Kept(M) = Kept(log)
             /\ ~M.garbled => ~log.garbled
  BY <1>2, KeptTorn DEF TypeOK
<1> QED BY <1>1, <1>2 DEF CutShort

\* The record append_op writes continues the log soundly.
LEMMA WrittenRecord ==
    ASSUME IInv, ioErrors = 0, ~HasGlued(log), pc = "write"
    PROVE  LogInv(Append(Kept(log), record))
<1> DEFINE K == Kept(log)
<1>1. LogInv(K) /\ MemoryInv /\ record \in Records /\ acked \in ChainHash
  BY DEF IInv, LogsInv, ProcessInv, RecordInv, TypeOK
<1>2. K \in Seq(Records)
  BY <1>1 DEF LogInv
<1>3. prev = Chain(K, Len(K)) /\ record.prev = prev /\ record.seq = Len(prev) + 1
  BY <1>1 DEF MemoryInv
<1>4. Len(Chain(K, Len(K))) = Len(K) /\ OpsOf(Chain(K, Len(K))) = RecOps(K)
  BY <1>2, ChainType
<1>5. record.op.type = "Checkpoint" =>
          record.op.root = StateRoot(ApplyFrom(EmptyStore, RecOps(K), 0))
  BY <1>1, <1>3, <1>4 DEF MemoryInv
<1> HIDE DEF K
<1>6. LogInv(Append(K, record))
  BY <1>1, <1>3, <1>4, <1>5, LogInvAppend
<1> QED BY <1>6 DEF K

\* A step after which no I/O error has occurred is not one.
LEMMA NoIoErrorYet ==
    ASSUME TypeOK, [Next]_vars, ioErrors' = 0
    PROVE  ioErrors = 0 /\ ~IoError
<1>1. ioErrors' = ioErrors \/ (IoError /\ ioErrors' = ioErrors + 1)
  BY DEF Next, vars, counters, Open, ApplyTx, Checkpoint, BeginAppend, WriteRecord,
         WriteNewline, SyncData, TruncateFile, SaveFile, WriteBack, IoError, Crash,
         PowerLoss
<1> QED BY <1>1 DEF TypeOK, IoError

\* Both versions of the log stay sound.
LEMMA LogsStep == IInv /\ [Next]_vars => LogsInv'
<1> SUFFICES ASSUME IInv, [Next]_vars, ioErrors' = 0
             PROVE  /\ ~HasGlued(log') => LogInv(Kept(log))'
                    /\ ~HasGlued(logDisk') => LogInv(Kept(logDisk))'
  BY DEF LogsInv
<1> USE DEF disk, memory, counters
<1>0. ioErrors = 0 /\ ~IoError
  BY NoIoErrorYet DEF IInv
<1>1. /\ ~HasGlued(log) => LogInv(Kept(log))
      /\ ~HasGlued(logDisk) => LogInv(Kept(logDisk))
  BY <1>0 DEF IInv, LogsInv
<1>3. ASSUME UNCHANGED <<log, logDisk, acked>>
      PROVE  /\ ~HasGlued(log') => LogInv(Kept(log))'
             /\ ~HasGlued(logDisk') => LogInv(Kept(logDisk))'
  BY <1>1, <1>3 DEF LogInv
<1>4. CASE WriteRecord
  <2>1. record \in Records /\ log \in LogFile
    BY <1>4 DEF WriteRecord, IInv, TypeOK, RecordInv
  <2>2. ASSUME ~HasGlued(log')
        PROVE  ~HasGlued(log) /\ Kept(log') = Append(Kept(log), record)
    BY <1>4, <2>1, <2>2, KeptAppendBytes, LineAssumption DEF WriteRecord
  <2>3. ASSUME ~HasGlued(log') PROVE LogInv(Append(Kept(log), record))
    BY <1>0, <1>4, <2>2, <2>3, WrittenRecord DEF WriteRecord
  <2> QED BY <1>1, <1>4, <2>2, <2>3 DEF WriteRecord, LogInv
<1>5. CASE WriteNewline
  <2>1. ASSUME ~HasGlued(log') PROVE ~HasGlued(log) /\ Kept(log') = Kept(log)
    BY <1>5, <2>1, KeptAppendNewline DEF WriteNewline, IInv, TypeOK, RecordInv
  <2> QED BY <1>1, <1>5, <2>1 DEF WriteNewline, LogInv
<1>6. CASE SyncData
  <2> SUFFICES ASSUME ~HasGlued(log) PROVE LogInv(Kept(log))'
    BY <1>6 DEF SyncData
  <2> DEFINE K == Kept(log)
  <2>1. LogInv(K) /\ MemoryInv /\ log \in LogFile
    BY <1>0, <1>1 DEF IInv, ProcessInv, TypeOK
  <2>2. K = log.lines /\ K \in Seq(Records) /\ Len(K) > 0 /\ K[Len(K)] = record
    BY <1>6, <2>1, KeptUnglued DEF SyncData, MemoryInv
  <2>3. Hash(record) = Chain(K, Len(K))
    BY <2>1, <2>2, HashIsChain DEF LogInv
  <2>4. OpsOf(Hash(record)) = RecOps(K)
    BY <2>2, <2>3, ChainType
  <2>5. IsPrefixOf(OpsOf(acked'), RecOps(K))
    BY <1>6, <2>2, <2>4, RecOpsSeq DEF SyncData, IsPrefixOf
  <2> QED BY <1>6, <2>1, <2>5 DEF SyncData, LogInv
<1>7. CASE Crash
  <2>1. ASSUME ~HasGlued(log') PROVE ~HasGlued(log) /\ Kept(log') = Kept(log)
    BY <1>7, <2>1, CutShortKeeps DEF Crash, IInv
  <2> QED BY <1>1, <1>7, <2>1 DEF Crash, LogInv
<1>8. CASE PowerLoss
  BY <1>1, <1>8 DEF PowerLoss, LogInv
<1>9. CASE Open \/ ApplyTx \/ Checkpoint \/ TruncateFile \/ SaveFile \/ WriteBack
            \/ UNCHANGED vars
  BY <1>3, <1>9 DEF Open, ApplyTx, Checkpoint, BeginAppend, TruncateFile, SaveFile,
                    WriteBack, vars
<1> QED BY <1>0, <1>4, <1>5, <1>6, <1>7, <1>8, <1>9 DEF Next

\* A snapshot that loads keeps its marker: records are only ever added, and
\* the marker of a new snapshot is synced before the file is touched.
LEMMA FilesStep == IInv /\ [Next]_vars => FilesInv'
<1> SUFFICES ASSUME IInv, [Next]_vars, ioErrors' = 0
             PROVE  /\ ~HasGlued(log') =>
                          FileInv(file', Kept(log')) /\ FileInv(fileDisk', Kept(log'))
                    /\ ~HasGlued(logDisk') =>
                          FileInv(file', Kept(logDisk')) /\ FileInv(fileDisk', Kept(logDisk'))
  BY DEF FilesInv, FileInv
<1> USE DEF disk, memory, counters
<1>0. ioErrors = 0 /\ ~IoError
  BY NoIoErrorYet DEF IInv
<1>1. /\ ~HasGlued(log) => FileInv(file, Kept(log)) /\ FileInv(fileDisk, Kept(log))
      /\ ~HasGlued(logDisk) =>
            FileInv(file, Kept(logDisk)) /\ FileInv(fileDisk, Kept(logDisk))
  BY <1>0 DEF IInv, FilesInv
<1>t. ~Loads(Truncated)
  BY DEF Loads
<1>2. CASE WriteRecord
  <2>1. record \in Records /\ log \in LogFile
    BY <1>2 DEF WriteRecord, IInv, TypeOK, RecordInv
  <2>2. ASSUME ~HasGlued(log')
        PROVE  ~HasGlued(log) /\ Kept(log') = Append(Kept(log), record)
                 /\ Kept(log) \in Seq(Records)
    BY <1>2, <2>1, <2>2, KeptAppendBytes, KeptUnglued, LineAssumption DEF WriteRecord
  <2>3. ASSUME ~HasGlued(log'), NEW f, FileInv(f, Kept(log))
        PROVE  FileInv(f, Kept(log'))
    <3>1. DOMAIN Kept(log) \subseteq DOMAIN Kept(log')
          /\ \A i \in DOMAIN Kept(log) : Kept(log')[i] = Kept(log)[i]
      BY <2>1, <2>2, <2>3
    <3> QED BY <2>3, <3>1 DEF FileInv
  <2> QED BY <1>1, <1>2, <2>2, <2>3 DEF WriteRecord
<1>3. CASE WriteNewline
  <2>1. ASSUME ~HasGlued(log') PROVE ~HasGlued(log) /\ Kept(log') = Kept(log)
    BY <1>3, <2>1, KeptAppendNewline DEF WriteNewline, IInv, TypeOK, RecordInv
  <2> QED BY <1>1, <1>3, <2>1 DEF WriteNewline
<1>4. CASE SyncData
  BY <1>1, <1>4 DEF SyncData
<1>5. CASE TruncateFile
  BY <1>1, <1>t, <1>5 DEF TruncateFile, FileInv
<1>6. CASE SaveFile
  <2>1. logDisk = log /\ record.op \in Markers /\ log \in LogFile
    BY <1>6, WalOpKinds DEF SaveFile, IInv, RecordInv, TypeOK, Records
  <2>2. ASSUME ~HasGlued(log) PROVE FileInv(file', Kept(log))
    <3> DEFINE K == Kept(log)
    <3>1. MemoryInv
      BY <1>0, <2>2 DEF IInv, ProcessInv
    <3>2. Len(K) \in DOMAIN K /\ K[Len(K)] = record /\ record.op.root = StateRoot(store)
      BY <1>6, <2>1, <2>2, <3>1, KeptUnglued DEF SaveFile, MemoryInv
    <3>3. record.op = Marker(record.op.height, record.op.root)
      BY <2>1 DEF Markers, Marker
    <3>4. file'.height = record.op.height /\ file'.root = StateRoot(store)
      BY <1>6 DEF SaveFile, FromStore
    <3> QED BY <3>2, <3>3, <3>4 DEF FileInv
  <2> QED BY <1>1, <1>6, <2>1, <2>2 DEF SaveFile
<1>7. CASE WriteBack
  BY <1>1, <1>7 DEF WriteBack
<1>8. CASE Crash
  <2>1. ASSUME ~HasGlued(log') PROVE ~HasGlued(log) /\ Kept(log') = Kept(log)
    BY <1>8, <2>1, CutShortKeeps DEF Crash, IInv
  <2> QED BY <1>1, <1>8, <2>1 DEF Crash
<1>9. CASE PowerLoss
  BY <1>1, <1>t, <1>9 DEF PowerLoss, FileInv
<1>10. CASE Open \/ ApplyTx \/ Checkpoint \/ UNCHANGED vars
  BY <1>1, <1>10 DEF Open, ApplyTx, Checkpoint, BeginAppend, vars
<1> QED BY <1>0, <1>2, <1>3, <1>4, <1>5, <1>6, <1>7, <1>8, <1>9, <1>10 DEF Next

\* The process stays in step with the log it appends to.
LEMMA ProcessStep == IInv /\ [Next]_vars => ProcessInv'
<1> SUFFICES ASSUME IInv, [Next]_vars, ioErrors' = 0, ~HasGlued(log')
             PROVE  MemoryInv'
  BY DEF ProcessInv
<1> USE DEF disk, memory, counters
<1>0. ioErrors = 0 /\ ~IoError
  BY NoIoErrorYet DEF IInv
<1>1. ~HasGlued(log) => MemoryInv /\ LogInv(Kept(log))
  BY <1>0 DEF IInv, ProcessInv, LogsInv
<1>t. log \in LogFile /\ prev \in ChainHash /\ seq \in Nat /\ store \in Store
      /\ file \in SnapshotFile \cup {NoFile, Truncated}
  BY DEF IInv, TypeOK
<1>2. CASE Open
  <2> DEFINE K == Kept(log)
  <2>1. LogInv(K) /\ K \in Seq(Records)
    BY <1>1, <1>2 DEF Open, LogInv
  <2>2. prev' = Chain(K, Len(K)) /\ seq' = Len(K)
    BY <1>2, <2>1, TipIsChain DEF Open, LogInv
  <2>3. OpsOf(prev') = RecOps(K)
    BY <2>1, <2>2, ChainType
  <2>4. LogOps(log) = RecOps(K)
    BY DEF LogOps, RecOps
  <2>5. store' = ApplyFrom(EmptyStore, OpsOf(prev'), 0)
    BY <1>2, <1>t, <2>1, <2>3, <2>4, RecoverSound DEF Recover, Open, LogInv
  <2> QED BY <1>2, <2>2, <2>5 DEF Open, MemoryInv
<1>3. ASSUME NEW op \in WalOp, BeginAppend(op),
             op.type = "Checkpoint" => op.root = StateRoot(store)
      PROVE  MemoryInv'
  <2>1. MemoryInv /\ Kept(log) \in Seq(Records)
    BY <1>1, <1>3 DEF BeginAppend, LogInv
  <2>2. prev = Chain(Kept(log), Len(Kept(log))) /\ seq = Len(prev)
    BY <1>3, <2>1, ChainType DEF MemoryInv, BeginAppend
  <2> QED BY <1>3, <2>1, <2>2 DEF MemoryInv, BeginAppend, WalRecord
<1>4. CASE ApplyTx
  BY <1>3, <1>4 DEF ApplyTx, WalOp, Tx
<1>5. CASE Checkpoint
  <2>1. PICK h \in Heights : BeginAppend(Marker(h, StateRoot(store)))
    BY <1>5 DEF Checkpoint
  <2>2. Marker(h, StateRoot(store)) \in WalOp
        /\ Marker(h, StateRoot(store)).root = StateRoot(store)
    BY <1>t DEF WalOp, Markers, Marker
  <2> QED BY <1>3, <2>1, <2>2
<1>6. CASE WriteRecord
  <2>1. record \in Records
    BY <1>6 DEF WriteRecord, IInv, RecordInv
  <2>2. ~HasGlued(log) /\ log.tail = Clean /\ log'.lines = log.lines /\ log'.tail = record
    BY <1>6, <1>t, <2>1, KeptAppendBytes DEF WriteRecord
  <2>3. Kept(log) = log.lines
    BY <1>t, <2>2, KeptUnglued
  <2> QED BY <1>1, <1>6, <2>2, <2>3 DEF WriteRecord, MemoryInv
<1>7. CASE WriteNewline
  <2>1. ~HasGlued(log)
    BY <1>7, KeptAppendNewline DEF WriteNewline, IInv, TypeOK, RecordInv
  <2>2. log.lines \in Seq(Records) /\ record \in Records
    BY <1>7, <1>t, <2>1, KeptUnglued DEF WriteNewline, IInv, RecordInv
  <2>3. log.tail = record /\ prev = Chain(log.lines, Len(log.lines)) /\ MemoryInv
    BY <1>1, <1>7, <2>1 DEF WriteNewline, MemoryInv
  <2>4. log'.lines = Append(log.lines, record) /\ log'.tail = Clean
    BY <1>7, <2>3 DEF WriteNewline, AppendNewline
  <2>5. /\ Len(log'.lines) = Len(log.lines) + 1 /\ log'.lines[Len(log'.lines)] = record
        /\ \A i \in 1..Len(log.lines) : log'.lines[i] = log.lines[i]
        /\ Len(log.lines) \in Nat
    BY <2>2, <2>4
  <2>6. Chain(log'.lines, Len(log'.lines) - 1) = prev
    BY <2>3, <2>5 DEF Chain
  <2> QED BY <1>7, <2>3, <2>4, <2>5, <2>6 DEF WriteNewline, MemoryInv
<1>8. CASE SyncData
  <2> DEFINE K == Kept(log)
  <2>1. ~HasGlued(log) /\ LogInv(K) /\ MemoryInv
    BY <1>1, <1>8 DEF SyncData
  <2>2. K = log.lines /\ K \in Seq(Records) /\ Len(K) > 0 /\ K[Len(K)] = record
    BY <1>8, <1>t, <2>1, KeptUnglued DEF SyncData, MemoryInv
  <2>3. prev' = Chain(K, Len(K))
    BY <1>8, <2>1, <2>2, HashIsChain DEF SyncData, LogInv
  <2>4. record \in Records /\ record.op \in WalOp
    BY <1>8 DEF SyncData, IInv, RecordInv, Records
  <2>5. seq = Len(K)
    <3>1. prev = Chain(K, Len(K) - 1) /\ seq = Len(prev) + 1
      BY <1>8, <2>1, <2>2 DEF SyncData, MemoryInv
    <3> QED BY <2>2, <3>1, ChainType
  <2>6. OpsOf(prev') = Append(OpsOf(prev), record.op)
    BY <1>8, <1>t, <2>1, <2>4, HashOps DEF SyncData, MemoryInv
  <2>7. EmptyStore \in Store /\ OpsOf(prev) \in Seq(WalOp)
    BY <1>t, OpsOfSeq DEF EmptyStore, Store
  <2>8. store = ApplyFrom(EmptyStore, OpsOf(prev), 0)
    BY <1>8, <2>1 DEF SyncData, MemoryInv
  <2>9. CASE record.op.type = "Checkpoint"
    <3>1. store' = store /\ pc' = "truncate"
      BY <1>8, <2>9 DEF SyncData
    <3>2. ApplyFrom(EmptyStore, OpsOf(prev'), 0) = store
      BY <2>4, <2>6, <2>7, <2>8, <2>9, WalOpKinds, ApplyFromSkip
    <3>3. record.op.root = StateRoot(store)
      BY <1>8, <2>1, <2>9 DEF SyncData, MemoryInv
    <3> QED BY <1>8, <2>1, <2>2, <2>3, <2>5, <3>1, <3>2, <3>3 DEF SyncData, MemoryInv
  <2>10. CASE record.op.type # "Checkpoint"
    <3>1. store' = Apply(store, record.op) /\ pc' = "idle"
      BY <1>8, <2>10 DEF SyncData
    <3>2. ApplyFrom(EmptyStore, OpsOf(prev'), 0) = store'
      BY <2>4, <2>6, <2>7, <2>8, <2>10, <3>1, WalOpKinds, ApplyFromAppend
    <3> QED BY <1>8, <2>3, <2>5, <3>1, <3>2 DEF SyncData, MemoryInv
  <2> QED BY <2>9, <2>10
<1>9. CASE TruncateFile \/ SaveFile \/ WriteBack \/ UNCHANGED vars
  BY <1>1, <1>9 DEF TruncateFile, SaveFile, WriteBack, vars, MemoryInv
<1>10. CASE Crash \/ PowerLoss
  BY <1>10 DEF Crash, PowerLoss, MemoryInv
<1> QED BY <1>0, <1>2, <1>4, <1>5, <1>6, <1>7, <1>8, <1>9, <1>10 DEF Next

\* The invariant holds throughout.
LEMMA Invariance == Spec => []IInv
<1>1. Init => IInv
  BY InitIInv
<1>2. IInv /\ [Next]_vars => IInv'
  BY TypeStep, LogsStep, FilesStep, ProcessStep DEF IInv
<1> QED BY <1>1, <1>2, PTL DEF Spec
-----------------------------------------------------------------------------
(* What follows from it.                                                   *)

\* Every variable of a PersistentState and of its files keeps its kind,
\* through failed calls and glued lines too.
THEOREM TypeCorrect == Spec => []TypeOK
<1>1. IInv => TypeOK
  BY DEF IInv
<1> QED BY <1>1, Invariance, PTL

\* "Ein Absturz verliert niemals eine angewendete Änderung" (wal.rs, 5-6):
\* whatever append_op returned Ok for is still in the log, at every point of
\* every later write and after every crash and power loss, and the log
\* replays if and only if no record was cut off inside a character (wal.rs,
\* 162-163), as long as no I/O error occurred and no record was appended to
\* an unterminated line.
THEOREM AckedRecordsSurvive == Spec => []AckedSurvive
<1>1. IInv => AckedSurvive
  <2> SUFFICES ASSUME IInv, Unharmed
               PROVE  /\ IsPrefixOf(OpsOf(acked), LogOps(log))
                      /\ ReplayOk(log) <=> ~log.garbled
    BY DEF AckedSurvive
  <2>1. LogInv(Kept(log))
    BY DEF IInv, LogsInv, Unharmed
  <2>2. ReplayOk(log) <=> ~log.garbled
    BY <2>1, TipIsChain DEF LogInv
  <2>3. LogOps(log) = RecOps(Kept(log))
    BY DEF LogOps, RecOps
  <2> QED BY <2>1, <2>2, <2>3 DEF LogInv
<1> QED BY <1>1, Invariance, PTL

\* "Beide Pfade sind korrekt; ein Absturz an JEDER Stelle des Checkpoints
\* landet in einem der beiden korrekten Pfade" (wal.rs, 244-245): whatever
\* became of the snapshot file, open builds the store that a replay of the
\* whole log builds.
THEOREM RecoveryPathsAgree == Spec => []BothPathsAgree
<1>1. IInv => BothPathsAgree
  <2> SUFFICES ASSUME IInv, Unharmed
               PROVE  Recover(log, file) = ApplyFrom(EmptyStore, LogOps(log), 0)
    BY DEF BothPathsAgree
  <2>1. MarkerSound(RecOps(Kept(log)))
    BY DEF IInv, LogsInv, Unharmed, LogInv
  <2>2. LogOps(log) = RecOps(Kept(log))
    BY DEF LogOps, RecOps
  <2> QED BY <2>1, <2>2, RecoverSound DEF Recover, IInv, TypeOK
<1> QED BY <1>1, Invariance, PTL

\* Between calls a process serves exactly what a crash at that moment would
\* recover, and its next record continues the chain on disk (wal.rs, 281
\* and 290-294).
THEOREM RunningStateIsDurable == Spec => []CrashLosesNothing
<1>1. IInv => CrashLosesNothing
  <2> SUFFICES ASSUME IInv, pc = "idle", Unharmed
               PROVE  /\ store = Recover(log, file)
                      /\ seq = TipSeq(log) /\ prev = Tip(log)
    BY DEF CrashLosesNothing
  <2> DEFINE K == Kept(log)
  <2>1. LogInv(K) /\ MemoryInv
    BY DEF IInv, LogsInv, ProcessInv, Unharmed
  <2>2. prev = Chain(K, Len(K)) /\ seq = Len(K)
    BY <2>1 DEF MemoryInv
  <2>3. Tip(log) = Chain(K, Len(K)) /\ TipSeq(log) = Len(K)
    BY <2>1, TipIsChain DEF LogInv
  <2>4. OpsOf(prev) = RecOps(K)
    BY <2>1, <2>2, ChainType DEF LogInv
  <2>5. LogOps(log) = RecOps(K)
    BY DEF LogOps, RecOps
  <2>6. Recover(log, file) = ApplyFrom(EmptyStore, RecOps(K), 0)
    BY <2>1, <2>5, RecoverSound DEF Recover, LogInv, IInv, TypeOK
  <2>7. store = ApplyFrom(EmptyStore, OpsOf(prev), 0)
    BY <2>1 DEF MemoryInv
  <2> QED BY <2>2, <2>3, <2>4, <2>6, <2>7
<1> QED BY <1>1, Invariance, PTL

\* A snapshot that loads is vouched for by a marker of the log, so what
\* last_verified_boundary reports was a checkpoint of this log (wal.rs,
\* 310-316 and 329-345).
THEOREM SnapshotsAreVouchedFor == Spec => []SnapshotHasMarker
<1>1. IInv => SnapshotHasMarker
  BY DEF IInv, FilesInv, FileInv, SnapshotHasMarker, Unharmed, LogOps
<1> QED BY <1>1, Invariance, PTL
-----------------------------------------------------------------------------
(* After I/O errors.  A call that failed leaves seq, prev_hash and the log  *)
(* out of step, so what holds then is conditional: a log that still replays *)
(* is as sound as before, and the process still serves the store its        *)
(* prev_hash commits to.                                                    *)

Intact(L) == ~HasGlued(L) /\ ReplayOk(L)

ReplayedInv ==
    /\ Intact(log) => LogInv(Kept(log))
    /\ Intact(logDisk) => LogInv(Kept(logDisk))

ServedInv ==
    ~HasGlued(log) =>
        /\ pc # "down" => store = ApplyFrom(EmptyStore, OpsOf(prev), 0)
        /\ pc \in {"write", "newline", "sync"} =>
              /\ record.prev = prev
              /\ record.op.type = "Checkpoint" => record.op.root = StateRoot(store)
        /\ pc = "newline" => log.tail = record
        /\ pc = "sync" =>
              log.tail = Clean /\ Len(log.lines) > 0
                /\ log.lines[Len(log.lines)] = record

FInv == TypeOK /\ RecordInv /\ ReplayedInv /\ ServedInv

\* Whether replay accepts a log depends on the lines it keeps, and on their
\* being text.
LEMMA ReplayOfKept ==
    ASSUME NEW L, NEW M, Kept(L) = Kept(M), ~M.garbled => ~L.garbled
    PROVE  ReplayOk(M) => ReplayOk(L)
BY DEF ReplayOk

\* When a log with one record more replays, so does the log without it, and
\* the record continues its chain.
LEMMA ReplayOfLonger ==
    ASSUME NEW L, NEW M, Kept(L) \in Seq(Records), NEW r \in Records,
           Kept(M) = Append(Kept(L), r), M.garbled = L.garbled, ReplayOk(M)
    PROVE  /\ ReplayOk(L)
           /\ Linked(Kept(L)) =>
                 r.seq = Len(Kept(L)) + 1 /\ r.prev = Chain(Kept(L), Len(Kept(L)))
<1> DEFINE K == Kept(L)
           n == Len(Kept(L))
           Q == Kept(M)
<1>1. /\ n \in Nat /\ DOMAIN K = 1..n /\ DOMAIN Q = 1..(n + 1)
      /\ Q[n + 1] = r /\ \A i \in 1..n : Q[i] = K[i]
  OBVIOUS
<1>2. \A i \in 1..(n + 1) : Readable(Q[i]) /\ Chained(Q, i)
  BY <1>1 DEF ReplayOk
<1>3. ASSUME NEW i \in 1..n PROVE Readable(K[i]) /\ Chained(K, i)
  <2>1. i \in 1..(n + 1) /\ (i # 1 => i - 1 \in 1..n)
    BY <1>1
  <2> QED BY <1>1, <1>2, <2>1 DEF Chained
<1>4. ReplayOk(L)
  BY <1>1, <1>3 DEF ReplayOk
<1>5. ASSUME Linked(K) PROVE r.seq = n + 1 /\ r.prev = Chain(K, n)
  <2>1. Chained(Q, n + 1)
    BY <1>1, <1>2
  <2>2. CASE n = 0
    <3>1. Chain(K, 0) = <<>>
      BY DEF Chain
    <3> QED BY <1>1, <2>1, <2>2, <3>1 DEF Chained, GenesisPrev
  <2>3. CASE n # 0
    <3>1. n \in 1..n /\ n + 1 # 1 /\ n + 1 - 1 = n
      BY <1>1, <2>3
    <3>2. Hash(K[n]) = Chain(K, n)
      BY <1>5, <3>1, HashIsChain
    <3> QED BY <1>1, <2>1, <3>1, <3>2 DEF Chained
  <2> QED BY <2>2, <2>3
<1> QED BY <1>4, <1>5

\* A log that replays stays sound, whatever failed before.
LEMMA ReplayedStep == FInv /\ [Next]_vars => ReplayedInv'
<1> SUFFICES ASSUME FInv, [Next]_vars
             PROVE  /\ Intact(log') => LogInv(Kept(log))'
                    /\ Intact(logDisk') => LogInv(Kept(logDisk))'
  BY DEF ReplayedInv, Intact
<1> USE DEF disk, memory, counters
<1>1. /\ Intact(log) => LogInv(Kept(log))
      /\ Intact(logDisk) => LogInv(Kept(logDisk))
  BY DEF FInv, ReplayedInv
<1>t. log \in LogFile /\ acked \in ChainHash /\ prev \in ChainHash
  BY DEF FInv, TypeOK
<1>2. ASSUME UNCHANGED <<log, logDisk, acked>>
      PROVE  /\ Intact(log') => LogInv(Kept(log))'
             /\ Intact(logDisk') => LogInv(Kept(logDisk))'
  BY <1>1, <1>2 DEF LogInv, Intact
<1>3. CASE WriteRecord
  <2> DEFINE K == Kept(log)
  <2>1. record \in Records
    BY <1>3 DEF WriteRecord, FInv, RecordInv
  <2>2. ASSUME Intact(log') PROVE LogInv(Append(K, record)) /\ Kept(log') = Append(K, record)
    <3>1. /\ ~HasGlued(log) /\ Kept(log') = Append(K, record) /\ K \in Seq(Records)
          /\ log'.garbled = log.garbled
      BY <1>3, <1>t, <2>1, <2>2, KeptAppendBytes, KeptUnglued, LineAssumption
         DEF WriteRecord, Intact
    <3>2. ReplayOk(log)
      BY <2>1, <2>2, <3>1, ReplayOfLonger DEF Intact
    <3>3. LogInv(K)
      BY <1>1, <3>1, <3>2 DEF Intact
    <3>4. record.seq = Len(K) + 1 /\ record.prev = Chain(K, Len(K))
      BY <2>1, <2>2, <3>1, <3>3, ReplayOfLonger DEF Intact, LogInv
    <3>5. /\ record.prev = prev
          /\ record.op.type = "Checkpoint" => record.op.root = StateRoot(store)
          /\ store = ApplyFrom(EmptyStore, OpsOf(prev), 0)
      BY <1>3, <3>1 DEF WriteRecord, FInv, ServedInv
    <3>6. OpsOf(prev) = RecOps(K)
      <4>1. OpsOf(Chain(K, Len(K))) = RecOps(K)
        BY <3>1, ChainType
      <4> QED BY <3>4, <3>5, <4>1
    <3> HIDE DEF K
    <3>7. LogInv(Append(K, record))
      BY <1>t, <2>1, <3>3, <3>4, <3>5, <3>6, LogInvAppend
    <3> QED BY <3>1, <3>7
  <2> QED BY <1>1, <1>3, <2>2 DEF WriteRecord, LogInv, Intact
<1>4. CASE WriteNewline
  <2>1. ASSUME ~HasGlued(log')
        PROVE  ~HasGlued(log) /\ Kept(log') = Kept(log) /\ log'.garbled = log.garbled
    BY <1>4, <2>1, KeptAppendNewline DEF WriteNewline, FInv, TypeOK, RecordInv
  <2> QED BY <1>1, <1>4, <2>1, ReplayOfKept DEF WriteNewline, LogInv, Intact
<1>5. CASE SyncData
  <2> SUFFICES ASSUME Intact(log) PROVE LogInv(Kept(log))'
    BY <1>5 DEF SyncData, Intact
  <2> DEFINE K == Kept(log)
  <2>1. LogInv(K)
    BY <1>1
  <2>2. K = log.lines /\ K \in Seq(Records) /\ Len(K) > 0 /\ K[Len(K)] = record
    BY <1>5, <1>t, KeptUnglued DEF SyncData, FInv, ServedInv, Intact
  <2>3. Hash(record) = Chain(K, Len(K))
    BY <2>1, <2>2, HashIsChain DEF LogInv
  <2>4. OpsOf(Hash(record)) = RecOps(K)
    BY <2>2, <2>3, ChainType
  <2>5. IsPrefixOf(OpsOf(acked'), RecOps(K))
    BY <1>5, <2>2, <2>4, RecOpsSeq DEF SyncData, IsPrefixOf
  <2> QED BY <1>5, <2>1, <2>5 DEF SyncData, LogInv
<1>6. CASE Crash \/ IoError
  <2>1. ASSUME ~HasGlued(log')
        PROVE  /\ ~HasGlued(log) /\ Kept(log') = Kept(log)
               /\ ~log'.garbled => ~log.garbled
    BY <1>6, <2>1, CutShortKeeps DEF Crash, IoError, FInv
  <2> QED BY <1>1, <1>6, <2>1, ReplayOfKept DEF Crash, IoError, LogInv, Intact
<1>7. CASE PowerLoss
  BY <1>1, <1>7 DEF PowerLoss, LogInv, Intact
<1>8. CASE Open \/ ApplyTx \/ Checkpoint \/ TruncateFile \/ SaveFile \/ WriteBack
            \/ UNCHANGED vars
  BY <1>2, <1>8 DEF Open, ApplyTx, Checkpoint, BeginAppend, TruncateFile, SaveFile,
                    WriteBack, vars
<1> QED BY <1>3, <1>4, <1>5, <1>6, <1>7, <1>8 DEF Next

\* The process serves what its prev_hash commits to, whatever failed before.
LEMMA ServedStep == FInv /\ [Next]_vars => ServedInv'
<1> SUFFICES ASSUME FInv, [Next]_vars, ~HasGlued(log')
             PROVE  ServedInv'
  BY DEF ServedInv
<1> USE DEF disk, memory, counters
<1>t. log \in LogFile /\ prev \in ChainHash /\ store \in Store
      /\ file \in SnapshotFile \cup {NoFile, Truncated}
  BY DEF FInv, TypeOK
<1>1. ServedInv /\ TypeOK /\ RecordInv
  BY DEF FInv
<1>2. CASE Open
  <2> DEFINE K == Kept(log)
  <2>1. LogInv(K)
    BY <1>2 DEF Open, FInv, ReplayedInv, Intact
  <2>2. prev' = Chain(K, Len(K))
    BY <1>2, <2>1, TipIsChain DEF Open, LogInv
  <2>3. OpsOf(prev') = RecOps(K)
    BY <2>1, <2>2, ChainType DEF LogInv
  <2>4. LogOps(log) = RecOps(K)
    BY DEF LogOps, RecOps
  <2>5. store' = ApplyFrom(EmptyStore, OpsOf(prev'), 0)
    BY <1>2, <1>t, <2>1, <2>3, <2>4, RecoverSound DEF Recover, Open, LogInv
  <2> QED BY <1>2, <2>5 DEF Open, ServedInv
<1>3. CASE ApplyTx
  <2>1. PICK tx \in Tx : BeginAppend(tx)
    BY <1>3 DEF ApplyTx
  <2>2. tx.type # "Checkpoint"
    BY DEF Tx
  <2> QED BY <1>1, <2>1, <2>2 DEF BeginAppend, ServedInv, WalRecord
<1>4. CASE Checkpoint
  BY <1>1, <1>4 DEF Checkpoint, BeginAppend, ServedInv, WalRecord, Marker
<1>5. CASE WriteRecord
  <2>1. record \in Records
    BY <1>1, <1>5 DEF WriteRecord, RecordInv
  <2>2. ~HasGlued(log) /\ log'.tail = record
    BY <1>5, <1>t, <2>1, KeptAppendBytes DEF WriteRecord
  <2> QED BY <1>1, <1>5, <2>2 DEF WriteRecord, ServedInv
<1>6. CASE WriteNewline
  <2>1. ~HasGlued(log)
    BY <1>1, <1>6, KeptAppendNewline DEF WriteNewline, TypeOK, RecordInv
  <2>2. log.lines \in Seq(Records) /\ record \in Records /\ log.tail = record
    BY <1>1, <1>6, <1>t, <2>1, KeptUnglued DEF WriteNewline, RecordInv, ServedInv
  <2>3. log'.lines = Append(log.lines, record) /\ log'.tail = Clean
    BY <1>6, <2>2 DEF WriteNewline, AppendNewline
  <2>4. Len(log'.lines) > 0 /\ log'.lines[Len(log'.lines)] = record
    BY <2>2, <2>3
  <2> QED BY <1>1, <1>6, <2>1, <2>3, <2>4 DEF WriteNewline, ServedInv
<1>7. CASE SyncData
  <2>1. ~HasGlued(log) /\ record \in Records /\ record.op \in WalOp
    BY <1>1, <1>7 DEF SyncData, RecordInv, Records
  <2>2. record.prev = prev /\ store = ApplyFrom(EmptyStore, OpsOf(prev), 0)
    BY <1>1, <1>7, <2>1 DEF SyncData, ServedInv
  <2>3. OpsOf(prev') = Append(OpsOf(prev), record.op)
    BY <1>7, <2>1, <2>2, HashOps DEF SyncData
  <2>4. EmptyStore \in Store /\ OpsOf(prev) \in Seq(WalOp)
    BY <1>t, OpsOfSeq DEF EmptyStore, Store
  <2>5. CASE record.op.type = "Checkpoint"
    <3>1. ApplyFrom(EmptyStore, OpsOf(prev'), 0) = store
      BY <2>1, <2>2, <2>3, <2>4, <2>5, WalOpKinds, ApplyFromSkip
    <3> QED BY <1>7, <2>5, <3>1 DEF SyncData, ServedInv
  <2>6. CASE record.op.type # "Checkpoint"
    <3>1. ApplyFrom(EmptyStore, OpsOf(prev'), 0) = Apply(store, record.op)
      BY <2>1, <2>2, <2>3, <2>4, <2>6, WalOpKinds, ApplyFromAppend
    <3> QED BY <1>7, <2>6, <3>1 DEF SyncData, ServedInv
  <2> QED BY <2>5, <2>6
<1>8. CASE IoError
  <2>1. ~HasGlued(log)
    BY <1>1, <1>8, CutShortKeeps DEF IoError
  <2> QED BY <1>1, <1>8, <2>1 DEF IoError, ServedInv
<1>9. CASE Crash \/ PowerLoss
  BY <1>9 DEF Crash, PowerLoss, ServedInv
<1>10. CASE TruncateFile \/ SaveFile \/ WriteBack \/ UNCHANGED vars
  BY <1>1, <1>10 DEF TruncateFile, SaveFile, WriteBack, vars, ServedInv
<1> QED BY <1>2, <1>3, <1>4, <1>5, <1>6, <1>7, <1>8, <1>9, <1>10 DEF Next

\* "fail-closed": after I/O errors too, a log replay accepts starts with
\* everything append_op returned Ok for, and both recovery paths give the
\* store it replays to (wal.rs, 140-198 and 253-280).
THEOREM ReplayIsFailClosed == Spec => []FailClosed
<1>1. Init => FInv
  <2> SUFFICES ASSUME Init PROVE FInv
    OBVIOUS
  <2>1. IInv /\ pc = "down" /\ ioErrors = 0
    BY InitIInv DEF Init
  <2> QED BY <2>1 DEF IInv, FInv, LogsInv, ReplayedInv, ServedInv, Intact
<1>2. FInv /\ [Next]_vars => FInv'
  BY TypeStep, ReplayedStep, ServedStep DEF FInv
<1>3. FInv => FailClosed
  <2> SUFFICES ASSUME FInv, ~HasGlued(log), ReplayOk(log)
               PROVE  /\ IsPrefixOf(OpsOf(acked), LogOps(log))
                      /\ Recover(log, file) = ApplyFrom(EmptyStore, LogOps(log), 0)
    BY DEF FailClosed
  <2>1. LogInv(Kept(log))
    BY DEF FInv, ReplayedInv, Intact
  <2>2. LogOps(log) = RecOps(Kept(log))
    BY DEF LogOps, RecOps
  <2> QED BY <2>1, <2>2, RecoverSound DEF Recover, LogInv, FInv, TypeOK
<1> QED BY <1>1, <1>2, <1>3, PTL DEF Spec
-----------------------------------------------------------------------------
(* PersistentState implements DurableStore.                                 *)

\* What a power loss leaves is a prefix of what a reader sees.
DiskBehind ==
    ioErrors = 0 /\ ~HasGlued(log) /\ ~HasGlued(logDisk) =>
        IsPrefixOf(Kept(logDisk), Kept(log))

\* sync_data is the only step that moves the synced log, and it moves it to
\* the log's end.
LEMMA DiskBehindStep == IInv /\ DiskBehind /\ [Next]_vars => DiskBehind'
<1> SUFFICES ASSUME IInv, DiskBehind, [Next]_vars,
                    ioErrors' = 0, ~HasGlued(log'), ~HasGlued(logDisk')
             PROVE  IsPrefixOf(Kept(logDisk'), Kept(log'))
  BY DEF DiskBehind, IsPrefixOf
<1> USE DEF disk, memory, counters
<1>0. ioErrors = 0 /\ ~IoError
  BY NoIoErrorYet DEF IInv
<1>t. log \in LogFile /\ logDisk \in LogFile /\ log' \in LogFile /\ logDisk' \in LogFile
  BY TypeStep DEF IInv, TypeOK
<1>1. Kept(log') \in Seq(Records) /\ Kept(logDisk') \in Seq(Records)
  BY <1>t, KeptUnglued
<1>2. ASSUME logDisk' = log' PROVE IsPrefixOf(Kept(logDisk'), Kept(log'))
  BY <1>1, <1>2 DEF IsPrefixOf
<1>3. ASSUME logDisk' = logDisk, ~HasGlued(log), Kept(log') = Kept(log)
      PROVE  IsPrefixOf(Kept(logDisk'), Kept(log'))
  BY <1>0, <1>3 DEF DiskBehind
<1>4. CASE WriteRecord
  <2>1. record \in Records
    BY <1>4 DEF WriteRecord, IInv, RecordInv
  <2>2. ~HasGlued(log) /\ Kept(log') = Append(Kept(log), record)
    BY <1>4, <1>t, <2>1, KeptAppendBytes, LineAssumption DEF WriteRecord
  <2>3. Kept(log) \in Seq(Records)
    BY <1>t, <2>2, KeptUnglued
  <2>4. IsPrefixOf(Kept(logDisk), Kept(log)) /\ logDisk' = logDisk
    BY <1>0, <1>4, <2>2 DEF DiskBehind, WriteRecord
  <2> QED BY <1>1, <2>1, <2>2, <2>3, <2>4 DEF IsPrefixOf
<1>5. CASE WriteNewline
  <2>1. ~HasGlued(log) /\ Kept(log') = Kept(log)
    BY <1>5, KeptAppendNewline DEF WriteNewline, IInv, TypeOK, RecordInv
  <2> QED BY <1>3, <1>5, <2>1 DEF WriteNewline
<1>6. CASE SyncData \/ PowerLoss
  BY <1>2, <1>6 DEF SyncData, PowerLoss
<1>7. CASE Crash
  <2>1. ~HasGlued(log) /\ Kept(log') = Kept(log)
    BY <1>7, CutShortKeeps DEF Crash, IInv
  <2> QED BY <1>3, <1>7, <2>1 DEF Crash
<1>8. CASE Open \/ ApplyTx \/ Checkpoint \/ TruncateFile \/ SaveFile \/ WriteBack
            \/ UNCHANGED vars
  BY <1>3, <1>8 DEF Open, ApplyTx, Checkpoint, BeginAppend, TruncateFile, SaveFile,
                    WriteBack, vars
<1> QED BY <1>0, <1>4, <1>5, <1>6, <1>7, <1>8 DEF Next

\* The abstract store applies operations as the store does.
LEMMA PromisedStore ==
    /\ Promise!EmptyStore = EmptyStore
    /\ \A ops : Promise!ApplyAll(EmptyStore, ops) = ApplyFrom(EmptyStore, ops, 0)
BY DEF Promise!EmptyStore, EmptyStore, Promise!ApplyAll, Promise!ApplyFrom, ApplyFrom,
       Promise!LastWriter, LastWriter, Promise!LastWrite, LastWrite, Promise!Writes, Writes

LEMMA SameList ==
    ASSUME NEW S, NEW s \in Seq(S), NEW t \in Seq(S), Len(s) = Len(t),
           \A i \in 1..Len(s) : s[i] = t[i]
    PROVE  s = t
OBVIOUS

\* A prefix of a list of records gives a prefix of the list of their ops.
LEMMA PrefixOps ==
    ASSUME NEW P \in Seq(Records), NEW R \in Seq(Records), IsPrefixOf(P, R)
    PROVE  RecOps(P) = SubSeq(RecOps(R), 1, Len(P))
<1>1. /\ RecOps(P) \in Seq(WalOp) /\ Len(RecOps(P)) = Len(P)
      /\ RecOps(R) \in Seq(WalOp) /\ Len(RecOps(R)) = Len(R)
  BY RecOpsSeq
<1>2. Len(P) <= Len(R) /\ \A i \in 1..Len(P) : P[i] = R[i]
  BY DEF IsPrefixOf
<1>3. \A i \in 1..Len(P) : RecOps(P)[i] = SubSeq(RecOps(R), 1, Len(P))[i]
  BY <1>1, <1>2 DEF RecOps
<1>4. SubSeq(RecOps(R), 1, Len(P)) \in Seq(WalOp)
      /\ Len(SubSeq(RecOps(R), 1, Len(P))) = Len(P)
  BY <1>1, <1>2
<1> HIDE DEF RecOps
<1> QED BY <1>1, <1>3, <1>4, SameList

\* The process dies: what the two files then hold is a prefix of the
\* history that has all that was confirmed.
LEMMA StopRefined ==
    ASSUME IInv, Unharmed, log' \in LogFile, ~HasGlued(log'),
           LogInv(Kept(log')), acked' = acked,
           IsPrefixOf(Kept(log'), Kept(log)),
           pc' = "down", store' = EmptyStore
    PROVE  Promise!Stop
<1> DEFINE K == Kept(log)
           P == Kept(log')
<1>1. K \in Seq(Records) /\ P \in Seq(Records) /\ acked \in ChainHash
  BY KeptUnglued DEF IInv, TypeOK, Unharmed
<1>2. LogOps(log) = RecOps(K) /\ LogOps(log') = RecOps(P)
  BY DEF LogOps, RecOps
<1>3. LogOps(log') = SubSeq(LogOps(log), 1, Len(P)) /\ Len(LogOps(log)) = Len(K)
  BY <1>1, <1>2, PrefixOps, RecOpsSeq
<1>4. Len(acked) <= Len(P)
  <2>1. Len(OpsOf(acked)) = Len(acked) /\ Len(RecOps(P)) = Len(P)
    BY <1>1, OpsOfSeq, RecOpsSeq
  <2> QED BY <2>1 DEF LogInv, IsPrefixOf
<1>5. Len(P) <= Len(K) /\ Len(P) \in Nat /\ Len(K) \in Nat /\ Len(acked) \in Nat
  BY <1>1 DEF IsPrefixOf, ChainHash
<1>6. Len(P) \in Len(acked)..Len(LogOps(log))
  BY <1>3, <1>4, <1>5
<1> QED BY <1>3, <1>6, PromisedStore DEF Promise!Stop

\* Every step of PersistentState is a step of DurableStore or none.
LEMMA StepRefined ==
    IInv /\ DiskBehind /\ IInv' /\ [Next]_vars => [Promise!Next]_(Promise!durable)
<1> SUFFICES ASSUME IInv, DiskBehind, IInv', [Next]_vars
             PROVE  [Promise!Next]_(Promise!durable)
  OBVIOUS
<1> USE DEF disk, memory, counters
<1>h. ASSUME ~Unharmed \/ ~Unharmed' PROVE Promise!Next
  BY <1>h DEF Promise!Next
<1> SUFFICES ASSUME Unharmed, Unharmed'
             PROVE  Promise!Step \/ UNCHANGED Promise!durable
  BY <1>h DEF Promise!Next
<1>0. ioErrors = 0 /\ ioErrors' = 0 /\ ~HasGlued(log) /\ ~HasGlued(log') /\ ~IoError
  BY NoIoErrorYet DEF Unharmed, IInv
<1> DEFINE K == Kept(log)
<1>1. /\ LogInv(K) /\ MemoryInv /\ LogInv(Kept(log))' /\ MemoryInv'
      /\ log \in LogFile /\ log' \in LogFile /\ acked \in ChainHash
      /\ K \in Seq(Records) /\ Kept(log') \in Seq(Records)
  <2>1. LogInv(Kept(log))'
    BY <1>0 DEF IInv, LogsInv
  <2>2. LogInv(K) /\ MemoryInv /\ MemoryInv' /\ log \in LogFile /\ log' \in LogFile
    BY <1>0 DEF IInv, LogsInv, ProcessInv, TypeOK
  <2> QED BY <1>0, <2>1, <2>2, KeptUnglued DEF IInv, TypeOK
<1>2. LogOps(log) = RecOps(K) /\ LogOps(log') = RecOps(Kept(log'))
  BY DEF LogOps, RecOps
<1>3. ASSUME Kept(log') = K, acked' = acked, store' = store,
             pc # "down", pc' # "down"
      PROVE  UNCHANGED Promise!durable
  BY <1>2, <1>3 DEF Promise!durable
<1>4. CASE Open
  <2>1. store' = ApplyFrom(EmptyStore, LogOps(log), 0)
    <3>1. MarkerSound(LogOps(log)) /\ file \in SnapshotFile \cup {NoFile, Truncated}
      BY <1>1, <1>2 DEF LogInv, IInv, TypeOK
    <3> QED BY <1>4, <3>1, RecoverSound DEF Recover, Open
  <2>2. Promise!Start
    BY <1>4, <2>1, PromisedStore DEF Open, Promise!Start
  <2> QED BY <2>2 DEF Promise!Step
<1>5. CASE ApplyTx \/ Checkpoint
  BY <1>3, <1>5 DEF ApplyTx, Checkpoint, BeginAppend
<1>6. CASE WriteRecord
  <2>1. record \in Records /\ record.op \in WalOp
    BY <1>6 DEF WriteRecord, IInv, RecordInv, Records
  <2>2. Kept(log') = Append(K, record)
    BY <1>0, <1>1, <1>6, <2>1, KeptAppendBytes, LineAssumption DEF WriteRecord
  <2>3. LogOps(log') = Append(LogOps(log), record.op)
    <3>1. RecOps(Append(K, record)) = Append(RecOps(K), record.op)
      BY <1>1, <2>1, RecOpsAppend
    <3> QED BY <1>2, <2>2, <3>1
  <2>4. Promise!Enter(record.op)
    BY <1>6, <2>3 DEF WriteRecord, Promise!Enter
  <2> QED BY <2>1, <2>4 DEF Promise!Step
<1>7. CASE WriteNewline
  <2>1. Kept(log') = K
    BY <1>0, <1>7, KeptAppendNewline DEF WriteNewline, IInv, TypeOK, RecordInv
  <2> QED BY <1>3, <1>7, <2>1 DEF WriteNewline
<1>8. CASE SyncData
  <2>1. K = log.lines /\ Len(K) > 0 /\ K[Len(K)] = record
    BY <1>0, <1>1, <1>8, KeptUnglued DEF SyncData, MemoryInv
  <2>2. acked' = Chain(K, Len(K)) /\ prev' = Chain(K, Len(K))
    BY <1>1, <1>8, <2>1, HashIsChain DEF SyncData, LogInv
  <2>3. Len(acked') = Len(K) /\ OpsOf(prev') = RecOps(K) /\ Len(RecOps(K)) = Len(K)
    BY <1>1, <2>2, ChainType, RecOpsSeq
  <2>4. pc' # "down" /\ store' = ApplyFrom(EmptyStore, OpsOf(prev'), 0)
    BY <1>1, <1>8 DEF SyncData, MemoryInv
  <2>5. Promise!Confirm
    BY <1>2, <1>8, <2>3, <2>4, PromisedStore DEF SyncData, Promise!Confirm
  <2> QED BY <2>5 DEF Promise!Step
<1>9. CASE TruncateFile \/ SaveFile
  BY <1>3, <1>9 DEF TruncateFile, SaveFile
<1>10. CASE WriteBack \/ UNCHANGED vars
  BY <1>10 DEF WriteBack, vars, Promise!durable, Unharmed
<1>11. CASE Crash
  <2>1. Kept(log') = K
    BY <1>0, <1>11, CutShortKeeps DEF Crash, IInv
  <2>2. IsPrefixOf(Kept(log'), K)
    BY <1>1, <2>1 DEF IsPrefixOf
  <2>3. LogInv(Kept(log'))
    BY <1>1, <1>11 DEF Crash, LogInv
  <2> QED BY <1>0, <1>1, <1>11, <2>2, <2>3, StopRefined DEF Crash, Promise!Step
<1>12. CASE PowerLoss
  <2>1. IsPrefixOf(Kept(log'), K)
    <3>1. CASE log' = log
      BY <1>1, <3>1 DEF IsPrefixOf
    <3>2. CASE log' = logDisk
      BY <1>0, <3>2 DEF DiskBehind
    <3> QED BY <1>12, <3>1, <3>2 DEF PowerLoss
  <2>2. LogInv(Kept(log'))
    BY <1>1, <1>12 DEF PowerLoss, LogInv
  <2> QED BY <1>0, <1>1, <1>12, <2>1, <2>2, StopRefined DEF PowerLoss, Promise!Step
<1> QED BY <1>0, <1>4, <1>5, <1>6, <1>7, <1>8, <1>9, <1>10, <1>11, <1>12 DEF Next

\* The two files, written in steps and cut off at any of them, implement the
\* store wal.rs promises (5-11): operations are atomic, confirmed ones stay,
\* and what comes up after a crash is what the history gives.
THEOREM FilesImplementTheStore == Spec => ImplementsDurableStore
<1>1. Init => DiskBehind /\ Promise!Init
  <2> SUFFICES ASSUME Init PROVE DiskBehind /\ Promise!Init
    OBVIOUS
  <2>1. /\ log \in LogFile /\ log.tail = Clean /\ log.lines = <<>>
        /\ logDisk = log /\ ~HasGlued(log)
    BY LineAssumption DEF Init, EmptyLog, LogFile, HasGlued
  <2>2. Kept(log) = <<>>
    BY <2>1, KeptUnglued
  <2>3. DiskBehind
    BY <2>1, <2>2 DEF DiskBehind, IsPrefixOf
  <2>4. LogOps(log) = <<>> /\ Len(acked) = 0
    BY <2>2 DEF LogOps, Init, GenesisPrev
  <2>5. Promise!Init
    BY <2>1, <2>4, PromisedStore DEF Promise!Init, Init, Unharmed
  <2> QED BY <2>3, <2>5
<1>2. IInv /\ DiskBehind /\ [Next]_vars => DiskBehind'
  BY DiskBehindStep
<1>3. IInv /\ DiskBehind /\ IInv' /\ [Next]_vars => [Promise!Next]_(Promise!durable)
  BY StepRefined
<1> QED BY <1>1, <1>2, <1>3, Invariance, PTL DEF Spec, ImplementsDurableStore, Promise!Spec
=============================================================================
