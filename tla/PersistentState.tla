-------------------------- MODULE PersistentState --------------------------
(***************************************************************************)
(* One PersistentState (kai-os/state/src/wal.rs) over its lifetime:        *)
(* transactions and checkpoints, process crashes at every point where the  *)
(* files are half written, power losses that take back what was not        *)
(* synced, I/O errors that make a call return Err, and recovery.           *)
(*                                                                         *)
(* append_op is split at the system calls it makes (the record's bytes,    *)
(* its newline, sync_data), save_snapshot_store at the truncation and the  *)
(* write inside fs::write.  The process works alone on its files, so       *)
(* everything between two of these points is one step.                     *)
(***************************************************************************)
EXTENDS WriteAheadLog

CONSTANTS MaxRecords,    \* bound on append_op calls
          MaxCrashes,    \* bound on process crashes and power losses
          MaxIoErrors    \* bound on calls that fail with an I/O error

ASSUME BoundsAssumption ==
    MaxRecords \in Nat /\ MaxCrashes \in Nat /\ MaxIoErrors \in Nat

VARIABLES
    log, file,          \* the two files as a reader sees them (page cache)
    logDisk, fileDisk,  \* the contents that survive a power loss
    pc,                 \* what the process is doing; "down" if there is none
    store, seq, prev,   \* PersistentState.store, wal.seq, wal.prev_hash
    record,             \* the record append_op is writing
    acked,              \* history: wal.tip_hash() when append_op last
                        \* returned Ok
    appends, crashes, ioErrors   \* counters for the bounds

disk == <<log, file, logDisk, fileDisk>>
memory == <<store, seq, prev, record>>
counters == <<appends, crashes, ioErrors>>
vars == <<disk, pc, memory, acked, counters>>

NoRecord == WalRecord(0, GenesisPrev, Marker(0, {}))

PCs == {"down", "idle", "write", "newline", "sync", "truncate", "save"}

Init ==
    /\ log = EmptyLog /\ logDisk = EmptyLog
    /\ file = NoFile /\ fileDisk = NoFile
    /\ pc = "down"
    /\ store = EmptyStore /\ seq = 0 /\ prev = GenesisPrev
    /\ record = NoRecord
    /\ acked = GenesisPrev
    /\ appends = 0 /\ crashes = 0 /\ ioErrors = 0
----------------------------------------------------------------------------
(* PersistentState::open.  When the log does not replay it returns the     *)
(* error and there is no PersistentState: the process stays down.          *)

Open ==
    /\ pc = "down"
    /\ ReplayOk(log)
    /\ store' = Recover(log, file)
    /\ seq' = TipSeq(log)
    /\ prev' = Tip(log)
    /\ pc' = "idle"
    /\ UNCHANGED <<disk, record, acked, counters>>
----------------------------------------------------------------------------
(* append_op.                                                              *)

\* seq is counted up before anything is written.
BeginAppend(op) ==
    /\ pc = "idle"
    /\ appends < MaxRecords
    /\ appends' = appends + 1
    /\ seq' = seq + 1
    /\ record' = WalRecord(seq + 1, prev, op)
    /\ pc' = "write"
    /\ UNCHANGED <<disk, store, prev, acked, crashes, ioErrors>>

\* PersistentState::apply
ApplyTx == \E tx \in Tx : BeginAppend(tx)

\* PersistentState::checkpoint
Checkpoint == \E h \in Heights : BeginAppend(Marker(h, StateRoot(store)))

\* writeln! reaches the file in two writes: the record, then the newline.
WriteRecord ==
    /\ pc = "write"
    /\ log' = AppendBytes(log, record)
    /\ pc' = "newline"
    /\ UNCHANGED <<file, logDisk, fileDisk, memory, acked, counters>>

WriteNewline ==
    /\ pc = "newline"
    /\ log' = AppendNewline(log)
    /\ pc' = "sync"
    /\ UNCHANGED <<file, logDisk, fileDisk, memory, acked, counters>>

\* Mutant: append_op returns without sync_data.
SyncDataNot ==
    /\ pc = "sync"
    /\ prev' = Hash(record)
    /\ acked' = Hash(record)
    /\ IF record.op.type = "Checkpoint"
       THEN store' = store /\ pc' = "truncate"
       ELSE store' = Apply(store, record.op) /\ pc' = "idle"
    /\ UNCHANGED <<log, logDisk, file, fileDisk, seq, record, counters>>

\* sync_data returns, prev_hash moves on and append_op returns Ok; apply
\* then changes the store, checkpoint goes on to the snapshot.
SyncData ==
    /\ pc = "sync"
    /\ logDisk' = log
    /\ prev' = Hash(record)
    /\ acked' = Hash(record)
    /\ IF record.op.type = "Checkpoint"
       THEN store' = store /\ pc' = "truncate"
       ELSE store' = Apply(store, record.op) /\ pc' = "idle"
    /\ UNCHANGED <<log, file, fileDisk, seq, record, counters>>
----------------------------------------------------------------------------
(* save_snapshot_store: fs::write truncates the file and writes it anew;   *)
(* the write-verify that follows reads back what was just written.  There  *)
(* is no fsync: the system writes the file back when it likes.             *)

TruncateFile ==
    /\ pc = "truncate"
    /\ file' = Truncated
    /\ pc' = "save"
    /\ UNCHANGED <<log, logDisk, fileDisk, memory, acked, counters>>

SaveFile ==
    /\ pc = "save"
    /\ file' = FromStore(store, record.op.height)
    /\ Loads(file')
    /\ pc' = "idle"
    /\ UNCHANGED <<log, logDisk, fileDisk, memory, acked, counters>>

WriteBack ==
    /\ fileDisk # file
    /\ fileDisk' = file
    /\ UNCHANGED <<log, file, logDisk, pc, memory, acked, counters>>
----------------------------------------------------------------------------
(* Failures.                                                               *)

\* Mutant: the newline reaches the file before the rest of the record.
CutShortWithNewline ==
    IF pc = "write" THEN {log, AppendNewline(AppendBytes(log, Torn))} ELSE {log}

\* What the log may hold when the write of a record is cut short.
CutShort ==
    IF pc = "write" THEN {log} \cup {AppendTorn(log, in) : in \in BOOLEAN} ELSE {log}

\* A write or sync_data fails: the call returns Err, seq stays counted up
\* and prev_hash where it was.
IoError ==
    /\ pc \in {"write", "newline", "sync", "truncate", "save"}
    /\ ioErrors < MaxIoErrors
    /\ ioErrors' = ioErrors + 1
    /\ log' \in CutShort
    /\ pc' = "idle"
    /\ UNCHANGED <<file, logDisk, fileDisk, memory, acked, appends, crashes>>

\* The process dies; the files keep what was written.
Crash ==
    /\ pc # "down"
    /\ crashes < MaxCrashes
    /\ crashes' = crashes + 1
    /\ log' \in CutShort
    /\ pc' = "down"
    /\ store' = EmptyStore /\ seq' = 0 /\ prev' = GenesisPrev
    /\ record' = NoRecord
    /\ UNCHANGED <<file, logDisk, fileDisk, acked, appends, ioErrors>>

\* The machine dies: what was not synced may be gone, and a snapshot file
\* that was not written back may come back empty.
PowerLoss ==
    /\ crashes < MaxCrashes
    /\ crashes' = crashes + 1
    /\ log' \in {log, logDisk}
    /\ logDisk' = log'
    /\ file' \in IF file = fileDisk THEN {file} ELSE {file, fileDisk, Truncated}
    /\ fileDisk' = file'
    /\ pc' = "down"
    /\ store' = EmptyStore /\ seq' = 0 /\ prev' = GenesisPrev
    /\ record' = NoRecord
    /\ UNCHANGED <<acked, appends, ioErrors>>

Next ==
    \/ Open
    \/ ApplyTx \/ Checkpoint
    \/ WriteRecord \/ WriteNewline \/ SyncData
    \/ TruncateFile \/ SaveFile \/ WriteBack
    \/ IoError \/ Crash \/ PowerLoss

Spec == Init /\ [][Next]_vars
----------------------------------------------------------------------------
(* Properties.                                                             *)

IsPrefixOf(s, t) ==
    Len(s) <= Len(t) /\ \A i \in 1..Len(s) : s[i] = t[i]

\* Every variable holds a value of its kind.
TypeOK ==
    /\ log \in LogFile /\ logDisk \in LogFile
    /\ file \in SnapshotFile \cup {NoFile, Truncated}
    /\ fileDisk \in SnapshotFile \cup {NoFile, Truncated}
    /\ pc \in PCs
    /\ store \in Store /\ seq \in Nat /\ prev \in ChainHash
    /\ record \in Records \cup {NoRecord}
    /\ acked \in ChainHash
    /\ appends \in Nat /\ crashes \in Nat /\ ioErrors \in Nat

\* No call has failed with an I/O error and no record was ever appended to
\* an unterminated line.
Unharmed == ioErrors = 0 /\ ~HasGlued(log)

\* "Ein Absturz verliert niemals eine angewendete Änderung" (wal.rs, 5-6): in
\* every state, also half way through a write and after any crash, the log
\* starts with everything append_op returned Ok for, and it replays unless a
\* record was cut off inside a character (reader.lines(), wal.rs, 162-163):
\* then nothing is lost from the file, but open fails.
AckedSurvive ==
    Unharmed => /\ IsPrefixOf(OpsOf(acked), LogOps(log))
                /\ ReplayOk(log) <=> ~log.garbled

\* "Beide Pfade sind korrekt" (wal.rs, 244): wherever a checkpoint was cut
\* off, and whatever became of the snapshot file, the path open takes gives
\* the store a replay of the whole log from genesis gives.
BothPathsAgree ==
    Unharmed => Recover(log, file) = ApplyFrom(EmptyStore, LogOps(log), 0)

\* The store a running process serves is the one a crash at this moment
\* would recover, and the next record it appends continues the log's chain.
CrashLosesNothing ==
    pc = "idle" /\ Unharmed =>
        /\ store = Recover(log, file)
        /\ seq = TipSeq(log) /\ prev = Tip(log)

Promise == INSTANCE DurableStore WITH
    Op <- WalOp, history <- LogOps(log), kept <- Len(acked),
    up <- pc # "down", served <- store, harmed <- ~Unharmed

\* The two files, written in steps and cut off at any of them, implement a
\* store whose operations are atomic and, once append_op returned Ok,
\* durable (wal.rs, 5-11).  A log cut off inside a character keeps its
\* operations, but no process comes up on it.
ImplementsDurableStore == Promise!Spec

\* checkpoint writes the marker before the snapshot: a snapshot that loads,
\* which last_verified_boundary reports, is vouched for by a marker with its
\* height and root in the log.
SnapshotHasMarker ==
    Unharmed /\ Loads(file) =>
        \E i \in DOMAIN LogOps(log) :
            LogOps(log)[i] = Marker(file.height, file.root)

\* Replay is fail-closed: after I/O errors too, a log that replays starts
\* with everything append_op returned Ok for, and recovers by either path
\* to the same store.
FailClosed ==
    ~HasGlued(log) /\ ReplayOk(log) =>
        /\ IsPrefixOf(OpsOf(acked), LogOps(log))
        /\ Recover(log, file) = ApplyFrom(EmptyStore, LogOps(log), 0)

\* What wal.rs, 5-11, says with no exception: a crash never loses an applied
\* change, and the record it cut short is dropped and does no further harm.
\* (A cut inside a character is AckedSurvive's exception and set aside here.)
CrashIsHarmless ==
    pc = "down" /\ ~log.garbled =>
        ReplayOk(log) /\ IsPrefixOf(OpsOf(acked), LogOps(log))

\* The same when a call before the crash returned an I/O error that left no
\* bytes behind: the caller saw the error, and went on.
FailedAppendIsHarmless ==
    pc = "down" /\ ~HasGlued(log) /\ ~log.garbled =>
        ReplayOk(log) /\ IsPrefixOf(OpsOf(acked), LogOps(log))
=============================================================================
