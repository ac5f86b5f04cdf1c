--------------------------- MODULE WriteAheadLog ---------------------------
(***************************************************************************)
(* The two files of a PersistentState and what the code reads out of them: *)
(* the write-ahead log (kai-os/state/src/wal.rs) and the snapshot file     *)
(* (kai-os/state/src/persistence.rs).                                      *)
(*                                                                         *)
(* The log file is [lines, tail, garbled]: the newline-terminated lines,   *)
(* the bytes after the last newline, and whether some of the bytes are not *)
(* UTF-8.  A line is a record, or Glued: the bytes of a record appended to *)
(* an unterminated line, which no longer parse.  The tail is Clean (no     *)
(* bytes), a whole record that lacks its newline, Torn (a proper prefix of *)
(* one record) or Glued.  serde_json writes keys and values as they are,   *)
(* so a prefix may end inside a character of several bytes; nothing that   *)
(* follows makes such a line UTF-8 again.                                  *)
(*                                                                         *)
(* SHA-256 is injective: the hash of a record is the list of everything it *)
(* commits to, [seq, op] for each record of the chain up to it.            *)
(***************************************************************************)
EXTENDS StateStore

CONSTANTS Heights,    \* heights a checkpoint may be taken at
          Clean, Torn, Glued,   \* see above
          NoFile, Truncated     \* snapshot file missing / cut short

ASSUME HeightsAssumption == Heights \subseteq Nat
----------------------------------------------------------------------------
(* Records and their hash chain.                                           *)

\* WalOp::Checkpoint; the tip_block_hash it also carries is never read back.
Marker(height, root) ==
    [type |-> "Checkpoint", height |-> height, root |-> root]

Markers == {Marker(h, StateRoot(s)) : h \in Heights, s \in Store}

\* WalOp: WalOp::Apply(tx) is the transaction itself.
WalOp == Tx \cup Markers

GenesisPrev == <<>>

\* WalRecord::hash
Hash(record) ==
    Append(record.prev, [seq |-> record.seq, op |-> record.op])

WalRecord(seq, prev, op) == [seq |-> seq, prev |-> prev, op |-> op]

\* The ops a chain hash commits to.
OpsOf(hash) == [i \in DOMAIN hash |-> hash[i].op]

ChainLink == [seq : Nat, op : WalOp]
ChainHash == Seq(ChainLink)
Records == [seq : Nat, prev : ChainHash, op : WalOp]

ASSUME LineAssumption ==
    /\ Clean \notin Records /\ Torn \notin Records /\ Glued \notin Records
    /\ Clean # Torn /\ Clean # Glued /\ Torn # Glued

LogFile == [lines : Seq(Records \cup {Glued}),
            tail : Records \cup {Clean, Torn, Glued},
            garbled : BOOLEAN]
----------------------------------------------------------------------------
(* The bytes append_op adds to the file.                                   *)

EmptyLog == [lines |-> <<>>, tail |-> Clean, garbled |-> FALSE]

\* The record's bytes, all of them or a proper prefix, after what is there.
AppendBytes(log, bytes) ==
    [log EXCEPT !.tail = IF @ = Clean THEN bytes ELSE Glued]

AppendNewline(log) ==
    [log EXCEPT !.lines = Append(@, log.tail), !.tail = Clean]

\* A proper prefix of a record's bytes, which may end inside a character.
AppendTorn(log, insideChar) ==
    [AppendBytes(log, Torn) EXCEPT !.garbled = @ \/ insideChar]

HasGlued(log) ==
    log.tail = Glued \/ \E i \in DOMAIN log.lines : log.lines[i] = Glued
----------------------------------------------------------------------------
(* WriteAheadLog::replay and is_last_line: a line that does not parse is   *)
(* dropped when it is the last one of the file and an error anywhere else; *)
(* one that is not UTF-8 is an error wherever it is; every readable line   *)
(* must continue the chain.                                                *)

FileLines(log) ==
    IF log.tail = Clean THEN log.lines ELSE Append(log.lines, log.tail)

Readable(line) == line \notin {Torn, Glued}

\* The lines replay takes as records, if it comes to the end: all but a last
\* one that does not parse.
Kept(log) ==
    LET file == FileLines(log)
        n == Len(file)
    IN  IF n > 0 /\ ~Readable(file[n]) THEN SubSeq(file, 1, n - 1) ELSE file

\* Mutant: replay does not look at prev_hash.
ChainedBySeq(records, i) == records[i].seq = i

\* Chained(records, i): the checks replay makes on its i-th record.
Chained(records, i) ==
    /\ records[i].seq = i
    /\ records[i].prev = IF i = 1 THEN GenesisPrev ELSE Hash(records[i - 1])

\* replay returns Ok; reader.lines() fails on bytes that are not UTF-8.
ReplayOk(log) ==
    /\ ~log.garbled
    /\ \A i \in DOMAIN Kept(log) : Readable(Kept(log)[i])
    /\ \A i \in DOMAIN Kept(log) : Chained(Kept(log), i)

\* what replay then returns: the ops, and seq and hash of the last record
LogOps(log) == [i \in DOMAIN Kept(log) |-> Kept(log)[i].op]

TipSeq(log) ==
    LET n == Len(Kept(log)) IN IF n = 0 THEN 0 ELSE Kept(log)[n].seq

Tip(log) ==
    LET n == Len(Kept(log)) IN IF n = 0 THEN GenesisPrev ELSE Hash(Kept(log)[n])
----------------------------------------------------------------------------
(* The snapshot file.                                                      *)

SnapshotFile == [height : Heights, root : {StateRoot(s) : s \in Store},
                 entries : Store]

ASSUME FileAssumption == NoFile \notin SnapshotFile /\ Truncated \notin SnapshotFile

\* PersistedSnapshot::from_store
FromStore(store, height) ==
    [height |-> height, root |-> StateRoot(store), entries |-> store]

\* load_snapshot_store succeeds: the file parses and its root is that of
\* its entries.
Loads(file) ==
    /\ file \notin {NoFile, Truncated}
    /\ file.root = StateRoot(file.entries)
----------------------------------------------------------------------------
(* PersistentState::open on a log that replays.                            *)

MarkersIn(ops) == {i \in DOMAIN ops : ops[i].type = "Checkpoint"}

\* Mutant: the first marker in place of the last.
FirstMarker(ops) ==
    CHOOSE m \in MarkersIn(ops) : \A i \in MarkersIn(ops) : i >= m

LastMarker(ops) ==
    CHOOSE m \in MarkersIn(ops) : \A i \in MarkersIn(ops) : i <= m

\* Mutant: any snapshot that loads is used, whatever the marker says.
SnapshotLoads(ops, file) == MarkersIn(ops) # {} /\ Loads(file)

SnapshotUsable(ops, file) ==
    /\ MarkersIn(ops) # {}
    /\ Loads(file)
    /\ StateRoot(file.entries) = ops[LastMarker(ops)].root

\* Snapshot and the ops after the last marker, or all ops from genesis.
RecoverFrom(ops, file) ==
    IF SnapshotUsable(ops, file)
    THEN ApplyFrom(file.entries, ops, LastMarker(ops))
    ELSE ApplyFrom(EmptyStore, ops, 0)

Recover(log, file) == RecoverFrom(LogOps(log), file)
=============================================================================
