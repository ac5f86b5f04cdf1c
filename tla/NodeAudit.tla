------------------------------ MODULE NodeAudit ------------------------------
(***************************************************************************)
(* The audit log of the node daemon (kai-os/node/src/audit.rs): a file     *)
(* that one run of the daemon after the other appends to.  Writes may fail *)
(* and the daemon may be killed in the middle of one; main.rs and          *)
(* supervisor.rs drop the error record returns and go on.                  *)
(*                                                                         *)
(* SHA-256 is injective: the hash of an event is the list of details from  *)
(* the first event of its chain on.  writeln! writes the event and then    *)
(* the newline.  The system keeps running: what was written is in the file.*)
(***************************************************************************)
EXTENDS Naturals, Sequences, FiniteSets

CONSTANTS Details,        \* kind and detail of an event
          Broken,         \* a line that is no event
          MaxLines,       \* bound on lines
          MaxTornWrites   \* bound on writes that fail or are cut off

AuditEvent == [seq : Nat, detail : Details, prev_hash : Seq(Details)]

ASSUME AuditAssumption ==
    Broken \notin AuditEvent /\ MaxLines \in Nat /\ MaxTornWrites \in Nat

VARIABLES events,         \* AuditLogger.events of the run there is now
          lines,          \* the lines of the file
          unterminated,   \* the last line has no newline yet
          recorded,       \* history: events record returned, with their line
          tornWrites      \* counter for the bound

audit == <<events, lines, unterminated, recorded, tornWrites>>

GenesisHash == <<>>
Hash(event) == Append(event.prev_hash, event.detail)

AuditInit ==
    /\ events = <<>> /\ lines = <<>> /\ unterminated = FALSE
    /\ recorded = <<>>
    /\ tornWrites = 0

NextEvent(detail) ==
    [seq |-> Len(events) + 1, detail |-> detail,
     prev_hash |-> IF events = <<>> THEN GenesisHash ELSE Hash(events[Len(events)])]

\* What is written goes behind what is there: onto the last line, which
\* is no event then, or onto a line of its own.
Written(line) ==
    IF unterminated THEN [lines EXCEPT ![Len(lines)] = Broken] ELSE Append(lines, line)

Record(detail) ==
    /\ Len(lines) < MaxLines
    /\ lines' = Written(NextEvent(detail)) /\ unterminated' = FALSE
    /\ events' = Append(events, NextEvent(detail))
    /\ recorded' = Append(recorded, [event |-> NextEvent(detail), line |-> Len(lines')])
    /\ UNCHANGED tornWrites

\* A write that stops at the start, in the event, or before the newline.
TornWrite(detail) ==
    /\ Len(lines) < MaxLines /\ tornWrites < MaxTornWrites
    /\ \/ UNCHANGED <<lines, unterminated>>
       \/ \E line \in {Broken, NextEvent(detail)} :
              lines' = Written(line) /\ unterminated' = TRUE
    /\ tornWrites' = tornWrites + 1

\* Mutant: the event is pushed before it is written.
RecordFailsPushed(detail) ==
    /\ TornWrite(detail)
    /\ events' = Append(events, NextEvent(detail))
    /\ UNCHANGED recorded

\* record returns the error of open or writeln; the event is not pushed.
RecordFails(detail) ==
    /\ TornWrite(detail)
    /\ UNCHANGED <<events, recorded>>

\* The daemon is killed in record; the next run starts with to_file.
Killed(detail) ==
    /\ TornWrite(detail)
    /\ events' = <<>>
    /\ UNCHANGED recorded

\* The daemon ends; the next run starts with to_file.
ToFile ==
    /\ events' = <<>>
    /\ UNCHANGED <<lines, unterminated, recorded, tornWrites>>

AuditNext ==
    ToFile \/ \E detail \in Details : Record(detail) \/ RecordFails(detail) \/ Killed(detail)

AuditSpec == AuditInit /\ [][AuditNext]_audit
----------------------------------------------------------------------------
\* verify_chain
VerifyChain(es) ==
    \A i \in DOMAIN es :
        /\ es[i].seq = i
        /\ es[i].prev_hash = IF i = 1 THEN GenesisHash ELSE Hash(es[i - 1])

\* Type invariant.
AuditTypeOK ==
    /\ events \in Seq(AuditEvent)
    /\ lines \in Seq(AuditEvent \cup {Broken})
    /\ unterminated \in BOOLEAN
    /\ recorded \in Seq([event : AuditEvent, line : Nat])
    /\ tornWrites \in 0..MaxTornWrites

Whole == {n \in DOMAIN lines : lines[n] # Broken}
Terminated == IF unterminated THEN 1..Len(lines) - 1 ELSE DOMAIN lines

\* "Append-only Audit-Logger mit Integrity-Hash-Chain" (audit.rs, 1), over
\* all runs that share the file.  What a reader finds is a chain: each line
\* starts a run or continues the line before it, unless that one is broken.
\* Each event record returned has a line of its own, in their order, and
\* can be read there, but for one event after each torn write; no other
\* event is in the file, except as an unfinished last line.
AuditIsAChain ==
    /\ VerifyChain(events)
    /\ \A n \in Whole :
           \/ lines[n].seq = 1 /\ lines[n].prev_hash = GenesisHash
           \/ n > 1 /\ lines[n - 1] = Broken
           \/ n > 1 /\ lines[n].prev_hash = Hash(lines[n - 1])
                    /\ lines[n].seq = lines[n - 1].seq + 1
    /\ \A i, j \in DOMAIN recorded : i < j => recorded[i].line < recorded[j].line
    /\ \A i \in DOMAIN recorded :
           recorded[i].line \in Whole => lines[recorded[i].line] = recorded[i].event
    /\ Whole \cap Terminated \subseteq {recorded[i].line : i \in DOMAIN recorded}
    /\ Cardinality(DOMAIN lines \ Whole) <= tornWrites
=============================================================================
