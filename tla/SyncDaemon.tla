----------------------------- MODULE SyncDaemon -----------------------------
(***************************************************************************)
(* Two kai-sync-node processes, a source and a sink, each with its own     *)
(* PersistentState, that sync over TCP (kai-os/syncd/src/lib.rs and        *)
(* src/bin/kai-sync-node.rs).  Either may be killed at any point and       *)
(* started again; the source gives an attempt up after SYNC_TIMEOUT and    *)
(* retries, while what it sent may still wait in the sink's backlog.       *)
(*                                                                         *)
(* The log file is that of module WriteAheadLog with the op in place of    *)
(* its record: no append returns an error here, so every record a line     *)
(* holds continues the chain.  A kill inside an append, between the marker *)
(* of a checkpoint and its snapshot, and in the middle of the snapshot, is *)
(* modelled, and so is a snapshot that cannot be written.  What the two    *)
(* processes write is ASCII: no cut falls inside a character.              *)
(*                                                                         *)
(* Connections wait in the order they were made.  live marks the one the   *)
(* source still holds; msg is what arrived on it.                          *)
(***************************************************************************)
EXTENDS WriteAheadLog, FiniteSets

CONSTANTS DeterministicTxs,   \* deterministic_txs(n) is its first n members
          Retries,            \* --retries
          Nothing,            \* no message, no connection, no answer
          MaxStarts,          \* bound on starts of either process
          MaxFaults,          \* bound on kills and failing writes
          MaxTimeouts,        \* bound on attempts the source gives up
          MaxStrangers        \* bound on connections from elsewhere

Message == [root : SUBSET (Keys \X Values), entries : Store]
Connection == [live : BOOLEAN, msg : Message \cup {Nothing}]

\* The keys of deterministic_txs are numbered: no two of them are the same.
ASSUME SyncdAssumption ==
    /\ DeterministicTxs \in Seq(Tx) /\ Keys # {} /\ Values # {} /\ 1 \in Heights
    /\ \A i \in DOMAIN DeterministicTxs : DeterministicTxs[i].type = "Set"
    /\ \A i, j \in DOMAIN DeterministicTxs :
          DeterministicTxs[i].key = DeterministicTxs[j].key => i = j
    /\ Nothing \notin Message /\ Nothing \notin Connection
    /\ Clean \notin WalOp /\ Torn \notin WalOp /\ Glued \notin WalOp
    /\ Retries \in Nat /\ MaxStarts \in Nat /\ MaxFaults \in Nat
    /\ MaxTimeouts \in Nat /\ MaxStrangers \in Nat

VARIABLES
    log, file,        \* the log and the snapshot file on each node's disk
    srcPc, srcStore,  \* the source process and its ps.store
    todo, attempt,    \* --apply txs left to apply; number of the attempt
    snkPc, snkStore,  \* the sink process and its ps.store
    backlog, conn,    \* connections not yet accepted; the accepted one
    ack,              \* the root in the ack on the source's connection
    starts, faults, timeouts, strangers,   \* counters for the bounds
    written,          \* history: how many of DeterministicTxs were applied
    sent,             \* history: the stores the source has sent
    confirmed,        \* history: the root of the source's last SYNC-OK
    cutOff            \* history: a checkpoint of the sink was cut off

disks == <<log, file>>
source == <<srcPc, srcStore, todo, attempt>>
sink == <<snkPc, snkStore>>
network == <<backlog, conn, ack>>
counters == <<starts, faults, timeouts, strangers>>
history == <<written, sent, confirmed, cutOff>>
vars == <<disks, source, sink, network, counters, history>>

SyncHeight == 1

Node == {"source", "sink"}

Init ==
    /\ log = [n \in Node |-> EmptyLog]
    /\ file = [n \in Node |-> NoFile]
    /\ srcPc = "off" /\ srcStore = EmptyStore /\ todo = <<>> /\ attempt = 0
    /\ snkPc = "off" /\ snkStore = EmptyStore
    /\ backlog = <<>> /\ conn = Nothing /\ ack = Nothing
    /\ starts = [n \in Node |-> 0]
    /\ faults = 0 /\ timeouts = 0 /\ strangers = 0
    /\ written = 0 /\ sent = {} /\ confirmed = StateRoot(EmptyStore)
    /\ cutOff = FALSE
----------------------------------------------------------------------------
(* Messages and connections.                                               *)

\* snapshot_from_store
SyncSnapshot(store) == [root |-> StateRoot(store), entries |-> store]

\* A snapshot whose declared root is not that of its entries.
Mismatched ==
    [SyncSnapshot(EmptyStore) EXCEPT
        !.entries = [k \in Keys |-> CHOOSE v \in Values : TRUE]]

\* Mutant: the declared root is believed.
VerifiesNothing(snap) == snap # Nothing

\* verify_snapshot succeeds on what receive returned
Verifies(snap) == snap # Nothing /\ StateRoot(snap.entries) = snap.root

\* append_op that returns Ok: the record and its newline.
AppendOp(node, op) ==
    log' = [log EXCEPT ![node] = AppendNewline(AppendBytes(@, op))]

\* append_op that is killed: the record without its newline, or a part of it.
CutShort(node, bytes) == log' = [log EXCEPT ![node] = AppendBytes(@, bytes)]

\* PersistentState::checkpoint writes the marker, then the snapshot, which
\* File::create truncates before the bytes are written.
CheckpointOp(store) == Marker(SyncHeight, StateRoot(store))

WriteFile(node, contents) == file' = [file EXCEPT ![node] = contents]

\* The source lets go of its connection: what it sent stays on its way.
Dropped(c) == IF c = Nothing THEN c ELSE [c EXCEPT !.live = FALSE]

Abandon ==
    /\ backlog' = [i \in DOMAIN backlog |-> Dropped(backlog[i])]
    /\ conn' = Dropped(conn)
    /\ ack' = Nothing

\* The end of the sink process resets every connection to it.
ResetAll == backlog' = <<>> /\ conn' = Nothing

LiveInBacklog == {i \in DOMAIN backlog : backlog[i].live}

Connected == LiveInBacklog # {} \/ (conn # Nothing /\ conn.live)

\* replay returns Ok: only the last line may be one that does not parse.
Replays(node) == \A i \in DOMAIN Kept(log[node]) : Readable(Kept(log[node])[i])

\* What PersistentState::open then builds.
Recovered(node) == RecoverFrom(Kept(log[node]), file[node])
----------------------------------------------------------------------------
(* The source.                                                             *)

\* PersistentState::open, then --apply n.  On a log that does not replay the
\* process says BOOT-FAILED and ends, and nothing has changed.
StartSource ==
    /\ srcPc = "off" /\ Replays("source")
    /\ starts["source"] < MaxStarts
    /\ starts' = [starts EXCEPT !["source"] = @ + 1]
    /\ srcStore' = Recovered("source")
    /\ \E n \in 0..Len(DeterministicTxs) : todo' = SubSeq(DeterministicTxs, 1, n)
    /\ attempt' = 0
    /\ srcPc' = "apply"
    /\ UNCHANGED <<disks, sink, network, faults, timeouts, strangers, history>>

\* The next of DeterministicTxs that was never applied before is now.
WrittenAfter(op) ==
    IF written < Len(DeterministicTxs) /\ op = DeterministicTxs[written + 1]
    THEN written + 1 ELSE written

\* One ps.apply of the loop over deterministic_txs.
SourceApply ==
    /\ srcPc = "apply" /\ todo # <<>>
    /\ AppendOp("source", Head(todo))
    /\ srcStore' = Apply(srcStore, Head(todo))
    /\ todo' = Tail(todo)
    /\ written' = WrittenAfter(Head(todo))
    /\ UNCHANGED <<file, srcPc, attempt, sink, network, counters,
                   sent, confirmed, cutOff>>

SourceMarker ==
    /\ srcPc = "apply" /\ todo = <<>>
    /\ AppendOp("source", CheckpointOp(srcStore))
    /\ srcPc' = "truncate"
    /\ UNCHANGED <<file, srcStore, todo, attempt, sink, network, counters, history>>

SourceTruncate ==
    /\ srcPc = "truncate"
    /\ WriteFile("source", Truncated)
    /\ srcPc' = "save"
    /\ UNCHANGED <<log, srcStore, todo, attempt, sink, network, counters, history>>

SourceSave ==
    /\ srcPc = "save"
    /\ WriteFile("source", FromStore(srcStore, SyncHeight))
    /\ srcPc' = "connect"
    /\ UNCHANGED <<log, srcStore, todo, attempt, sink, network, counters, history>>

\* Mutant: one attempt too many.
NextAttemptTooMany ==
    /\ attempt' = attempt + 1
    /\ srcPc' = IF attempt <= Retries THEN "connect" ELSE "off"

\* An attempt of 0..=retries is over.
NextAttempt ==
    /\ attempt' = attempt + 1
    /\ srcPc' = IF attempt < Retries THEN "connect" ELSE "off"

\* TcpPeer::connect fails: no sink listens.
Refused ==
    /\ srcPc = "connect" /\ snkPc = "off"
    /\ NextAttempt
    /\ UNCHANGED <<disks, srcStore, todo, sink, network, counters, history>>

Connect ==
    /\ srcPc = "connect" /\ snkPc # "off"
    /\ backlog' = Append(backlog, [live |-> TRUE, msg |-> Nothing])
    /\ srcPc' = "send"
    /\ UNCHANGED <<disks, srcStore, todo, attempt, sink, conn, ack, counters, history>>

\* send_and_await_ack: the snapshot is sent on the connection that is open.
Send ==
    /\ srcPc = "send" /\ Connected
    /\ backlog' = [i \in DOMAIN backlog |->
                      IF backlog[i].live
                      THEN [backlog[i] EXCEPT !.msg = SyncSnapshot(srcStore)]
                      ELSE backlog[i]]
    /\ conn' = IF conn # Nothing /\ conn.live
               THEN [conn EXCEPT !.msg = SyncSnapshot(srcStore)]
               ELSE conn
    /\ sent' = sent \cup {srcStore}
    /\ srcPc' = "await"
    /\ UNCHANGED <<disks, srcStore, todo, attempt, sink, ack, counters,
                   written, confirmed, cutOff>>

\* send or receive fails: the sink closed the connection without an ack.
Closed ==
    /\ srcPc \in {"send", "await"} /\ ~Connected /\ ack = Nothing
    /\ NextAttempt
    /\ UNCHANGED <<disks, srcStore, todo, sink, network, counters, history>>

\* receive runs into SYNC_TIMEOUT while the sink has not answered.
GiveUp ==
    /\ srcPc = "await" /\ ack = Nothing /\ Connected
    /\ timeouts < MaxTimeouts
    /\ timeouts' = timeouts + 1
    /\ Abandon
    /\ NextAttempt
    /\ UNCHANGED <<disks, srcStore, todo, sink, starts, faults, strangers, history>>

\* The ack is compared with the own root: SYNC-OK, or AckMismatch.
ReceiveAck ==
    /\ srcPc = "await" /\ ack # Nothing
    /\ Abandon
    /\ IF ack = StateRoot(srcStore)
       THEN srcPc' = "off" /\ confirmed' = ack /\ UNCHANGED attempt
       ELSE NextAttempt /\ UNCHANGED confirmed
    /\ UNCHANGED <<disks, srcStore, todo, sink, counters, written, sent, cutOff>>
----------------------------------------------------------------------------
(* The sink.                                                               *)

\* PersistentState::open and TcpListener::bind.
StartSink ==
    /\ snkPc = "off" /\ Replays("sink")
    /\ starts["sink"] < MaxStarts
    /\ starts' = [starts EXCEPT !["sink"] = @ + 1]
    /\ snkStore' = Recovered("sink")
    /\ snkPc' = "listen"
    /\ UNCHANGED <<disks, source, network, faults, timeouts, strangers, history>>

\* listener.incoming()
Accept ==
    /\ snkPc = "listen" /\ backlog # <<>>
    /\ conn' = Head(backlog)
    /\ backlog' = Tail(backlog)
    /\ snkPc' = "receive"
    /\ UNCHANGED <<disks, source, snkStore, ack, counters, history>>

\* receive_and_verify succeeds and persist_verified takes the store over.
\* It writes no Apply record: only the checkpoint below holds the state.
ReceiveAndVerify ==
    /\ snkPc = "receive" /\ Verifies(conn.msg)
    /\ snkStore' = conn.msg.entries
    /\ snkPc' = "marker"
    /\ UNCHANGED <<disks, source, network, counters, history>>

\* Mutant: receive has no timeout and waits for what never comes.
RejectWithoutTimeout ==
    /\ snkPc = "receive" /\ ~Verifies(conn.msg)
    /\ conn.msg # Nothing
    /\ conn' = Nothing
    /\ snkPc' = "listen"
    /\ UNCHANGED <<disks, source, snkStore, backlog, ack, counters, history>>

\* VERIFY-FAILED: another root, or nothing to read on a connection whose
\* other end is gone, or silent for SYNC_TIMEOUT; it may be just about to send.
Reject ==
    /\ snkPc = "receive" /\ ~Verifies(conn.msg)
    /\ conn' = Nothing
    /\ snkPc' = "listen"
    /\ UNCHANGED <<disks, source, snkStore, backlog, ack, counters, history>>

\* Mutant: the ack goes out as soon as the marker is written.
SinkMarkerThenAck ==
    /\ snkPc = "marker"
    /\ AppendOp("sink", CheckpointOp(snkStore))
    /\ snkPc' = "ack"
    /\ UNCHANGED <<file, source, snkStore, network, counters, history>>

SinkMarker ==
    /\ snkPc = "marker"
    /\ AppendOp("sink", CheckpointOp(snkStore))
    /\ snkPc' = "truncate"
    /\ UNCHANGED <<file, source, snkStore, network, counters, history>>

SinkTruncate ==
    /\ snkPc = "truncate"
    /\ WriteFile("sink", Truncated)
    /\ snkPc' = "save"
    /\ UNCHANGED <<log, source, snkStore, network, counters, history>>

SinkSave ==
    /\ snkPc = "save"
    /\ WriteFile("sink", FromStore(snkStore, SyncHeight))
    /\ snkPc' = "ack"
    /\ UNCHANGED <<log, source, snkStore, network, counters, history>>

\* SYNC-OK: the write of the ack succeeds, which it may even when the source
\* is gone, and the process ends.
SendAck ==
    /\ snkPc = "ack"
    /\ ack' = IF conn.live THEN StateRoot(snkStore) ELSE ack
    /\ ResetAll
    /\ snkPc' = "off"
    /\ UNCHANGED <<disks, source, snkStore, counters, history>>

\* The write of the ack fails; the sink goes on listening.
AckFails ==
    /\ snkPc = "ack" /\ ~conn.live
    /\ conn' = Nothing
    /\ snkPc' = "listen"
    /\ UNCHANGED <<disks, source, snkStore, backlog, ack, counters, history>>
----------------------------------------------------------------------------
(* The environment.                                                        *)

\* Somebody else connects, and sends nothing or what does not verify.
Stranger ==
    /\ snkPc # "off"
    /\ strangers < MaxStrangers
    /\ strangers' = strangers + 1
    /\ \E m \in {Nothing, Mismatched} :
          backlog' = Append(backlog, [live |-> FALSE, msg |-> m])
    /\ UNCHANGED <<disks, source, sink, conn, ack, starts, faults, timeouts, history>>

\* The record the source appends next.
SourceOp == IF todo = <<>> THEN CheckpointOp(srcStore) ELSE Head(todo)

\* A kill between two system calls, or inside the append of SourceOp.
KillSource ==
    /\ srcPc # "off" /\ faults < MaxFaults
    /\ faults' = faults + 1
    /\ srcPc' = "off"
    /\ Abandon
    /\ \/ UNCHANGED <<log, written>>
       \/ /\ srcPc = "apply"
          /\ \E bytes \in {Torn, SourceOp} :
                CutShort("source", bytes) /\ written' = WrittenAfter(bytes)
    /\ UNCHANGED <<file, srcStore, todo, attempt, sink, starts, timeouts,
                   strangers, sent, confirmed, cutOff>>

\* The marker is on disk, the snapshot it stands for is not.
InCheckpoint == snkPc \in {"truncate", "save"}

\* File::create or the write after it fails, and checkpoint with it: the sink
\* says VERIFY-FAILED, keeps the store it has taken over and listens again.
SnapshotFails ==
    /\ InCheckpoint /\ faults < MaxFaults
    /\ faults' = faults + 1
    /\ conn' = Nothing
    /\ snkPc' = "listen"
    /\ cutOff' = TRUE
    /\ UNCHANGED <<disks, source, snkStore, backlog, ack, starts, timeouts,
                   strangers, written, sent, confirmed>>

\* A kill between two system calls, or inside the append of the marker: if
\* all of the marker is there, the checkpoint is one that was cut off.
KillSink ==
    /\ snkPc # "off" /\ faults < MaxFaults
    /\ faults' = faults + 1
    /\ snkPc' = "off"
    /\ ResetAll
    /\ \/ UNCHANGED log /\ cutOff' = (cutOff \/ InCheckpoint)
       \/ snkPc = "marker" /\ CutShort("sink", Torn) /\ UNCHANGED cutOff
       \/ snkPc = "marker" /\ CutShort("sink", CheckpointOp(snkStore)) /\ cutOff' = TRUE
    /\ UNCHANGED <<file, source, snkStore, ack, starts, timeouts, strangers,
                   written, sent, confirmed>>
----------------------------------------------------------------------------
SourceStep ==
    \/ SourceApply \/ SourceMarker \/ SourceTruncate \/ SourceSave
    \/ Refused \/ Connect \/ Send \/ Closed \/ ReceiveAck

SinkStep ==
    \/ Accept \/ ReceiveAndVerify \/ Reject
    \/ SinkMarker \/ SinkTruncate \/ SinkSave \/ SendAck \/ AckFails

Next ==
    \/ SourceStep \/ SinkStep
    \/ StartSource \/ StartSink \/ GiveUp
    \/ Stranger \/ SnapshotFails \/ KillSource \/ KillSink

\* A process that can go on is scheduled; nobody has to start a process, to
\* kill one, to connect, or to be slow, and no write has to fail.
Fairness == WF_vars(SourceStep) /\ WF_vars(SinkStep)

Spec == Init /\ [][Next]_vars /\ Fairness
----------------------------------------------------------------------------
LogFiles == [lines : Seq(WalOp \cup {Glued}), tail : WalOp \cup {Clean, Torn, Glued},
             garbled : {FALSE}]

\* Type invariant of the two processes, their files and their connections;
\* a log holds only the ops of wal.rs WalOp and what kills made of them.
TypeOK ==
    /\ log \in [Node -> LogFiles]
    /\ file \in [Node -> SnapshotFile \cup {NoFile, Truncated}]
    /\ srcPc \in {"off", "apply", "truncate", "save", "connect", "send", "await"}
    /\ snkPc \in {"off", "listen", "receive", "marker", "truncate", "save", "ack"}
    /\ srcStore \in Store /\ snkStore \in Store
    /\ attempt \in 0..Retries + 1
    /\ backlog \in Seq(Connection)
    /\ conn \in Connection \cup {Nothing}
    /\ (conn # Nothing) = (snkPc \notin {"off", "listen"})
    /\ Cardinality(LiveInBacklog) <= 1
    /\ written \in 0..Len(DeterministicTxs)
    /\ cutOff \in BOOLEAN

\* No process of this node appended to a line that an earlier one, killed
\* inside an append, left without its newline (wal.rs, 107 and 133).
Unglued(node) == ~HasGlued(log[node])

\* The sink's ack promises what it says: when an ack has reached the source
\* (send_and_await_ack), it is for the state this source holds, and the sink
\* would recover exactly that state if it were started now, unless its
\* marker was glued to a torn line.  It holds although earlier attempts that
\* timed out were also served.
AckMeansSaved ==
    ack # Nothing =>
        /\ ack = StateRoot(srcStore)
        /\ Unglued("sink") => Replays("sink") /\ ack = StateRoot(Recovered("sink"))

\* The store after the first n transactions.
FirstTxs(n) == ApplyAll(EmptyStore, SubSeq(DeterministicTxs, 1, n))

\* "kein Teilzustand" (receive_and_verify): whatever is refused, killed or
\* retried, the sink recovers the empty state or a state the source sent,
\* and the source all it applied, one transaction after the other.  A log in
\* which a record was glued to a torn line may lose records, and may not
\* open, but it gives no state that never was.
NoPartialState ==
    /\ Replays("sink") => Recovered("sink") \in sent \cup {EmptyStore}
    /\ Replays("source") => \E n \in 0..written : Recovered("source") = FirstTxs(n)
    /\ Unglued("source") => /\ Replays("source")
                            /\ Recovered("source") = FirstTxs(written)

\* Outside the window of persist_verified between the marker and the
\* snapshot, and while no record was glued to a torn line, what a SYNC-OK of
\* the source confirmed is never lost by the sink, and never replaced by an
\* older state of an abandoned attempt.
ConfirmedIsKept ==
    ~cutOff /\ ~InCheckpoint /\ Unglued("sink") /\ Unglued("source") =>
        confirmed \subseteq StateRoot(Recovered("sink"))

\* The same without the exception of that window: "Absturz eines Knotens
\* verliert nichts" (lib.rs, 9).
SinkLosesNothing ==
    snkPc = "off" /\ Unglued("sink") /\ Unglued("source") =>
        confirmed \subseteq StateRoot(Recovered("sink"))

\* "geordnetes Scheitern mit Retry": a started source ends, with SYNC-OK or
\* with its attempts used up, whatever the sink does; and no connection holds
\* the sink: it comes back to accept the next one, or it ends, whatever was
\* or was not sent on this one.
NobodyWaits ==
    /\ srcPc # "off" ~> srcPc = "off"
    /\ snkPc = "receive" ~> snkPc \in {"listen", "off"}
=============================================================================
