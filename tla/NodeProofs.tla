----------------------------- MODULE NodeProofs -----------------------------
(***************************************************************************)
(* Proofs about the node daemon and its audit log, for any configuration   *)
(* and any number of records, faults and torn writes.                      *)
(***************************************************************************)
EXTENDS MCNode, FiniteSetTheorems, WellFoundedInduction, TLAPS

(* The audit log.  While the last line has its newline, it is the event    *)
(* this run recorded last, or broken; while it has none, it is nobody's    *)
(* record and will be broken.                                              *)

LastLineIsLast ==
    events # <<>> /\ ~unterminated =>
        lines # <<>> /\ lines[Len(lines)] \in {Broken, events[Len(events)]}

LinesChain ==
    \A n \in 1..Len(lines) : lines[n] # Broken =>
        \/ lines[n].seq = 1 /\ lines[n].prev_hash = GenesisHash
        \/ n > 1 /\ lines[n - 1] = Broken
        \/ n > 1 /\ lines[n].prev_hash = Hash(lines[n - 1])
                 /\ lines[n].seq = lines[n - 1].seq + 1

\* The line of a record is behind those of earlier records, and is not the
\* line without newline.
RecordsHaveLines ==
    /\ unterminated => lines # <<>>
    /\ \A i \in 1..Len(recorded) :
          /\ recorded[i].line \in 1..Len(lines)
          /\ unterminated => recorded[i].line < Len(lines)
          /\ lines[recorded[i].line] \in {Broken, recorded[i].event}
    /\ \A i, j \in 1..Len(recorded) : i < j => recorded[i].line < recorded[j].line

LinesHaveRecords ==
    \A n \in 1..Len(lines) :
        \/ lines[n] = Broken
        \/ unterminated /\ n = Len(lines)
        \/ \E i \in 1..Len(recorded) : recorded[i].line = n

\* Lines that are broken, or will be by the next write.
Torn == {n \in 1..Len(lines) : lines[n] = Broken \/ (unterminated /\ n = Len(lines))}

AuditInv ==
    /\ AuditTypeOK /\ VerifyChain(events)
    /\ LastLineIsLast /\ LinesChain /\ RecordsHaveLines /\ LinesHaveRecords
    /\ IsFiniteSet(Torn) /\ Cardinality(Torn) <= tornWrites

\* What record() would append next continues the chain of this run.
LEMMA NextEventContinues ==
    ASSUME AuditTypeOK, VerifyChain(events), NEW d \in Details
    PROVE  /\ NextEvent(d) \in AuditEvent
           /\ events = <<>> => NextEvent(d).seq = 1 /\ NextEvent(d).prev_hash = GenesisHash
           /\ events # <<>> => /\ events[Len(events)] \in AuditEvent
                               /\ NextEvent(d).prev_hash = Hash(events[Len(events)])
                               /\ NextEvent(d).seq = events[Len(events)].seq + 1
           /\ VerifyChain(Append(events, NextEvent(d)))
<1> DEFINE e == NextEvent(d)
<1>0. PICK k \in Nat : k = Len(events) /\ DOMAIN events = 1..k
  BY DEF AuditTypeOK
<1>1. e = [seq |-> k + 1, detail |-> d,
           prev_hash |-> IF events = <<>> THEN GenesisHash ELSE Hash(events[k])]
  BY <1>0 DEF NextEvent
<1>2. events \in Seq(AuditEvent) /\ (events = <<>> <=> k = 0)
  BY <1>0 DEF AuditTypeOK
<1>3. events # <<>> => k \in 1..k /\ events[k] \in AuditEvent /\ events[k].seq = k
                         /\ Hash(events[k]) \in Seq(Details)
  <2> SUFFICES ASSUME events # <<>>
               PROVE  k \in 1..k /\ events[k] \in AuditEvent /\ events[k].seq = k
                        /\ Hash(events[k]) \in Seq(Details)
    OBVIOUS
  <2>1. k \in 1..k /\ events[k] \in AuditEvent
    BY <1>0, <1>2
  <2>2. events[k].seq = k
    BY <1>0, <2>1 DEF VerifyChain
  <2>3. events[k].prev_hash \in Seq(Details) /\ events[k].detail \in Details
    BY <2>1 DEF AuditEvent
  <2>4. Hash(events[k]) \in Seq(Details)
    BY <2>3 DEF Hash
  <2> QED BY <2>1, <2>2, <2>4
<1>4. GenesisHash \in Seq(Details)
  BY DEF GenesisHash
<1>5. e \in AuditEvent
  BY <1>1, <1>3, <1>4 DEF AuditEvent
<1>6. /\ e.seq = k + 1
      /\ events = <<>> => e.prev_hash = GenesisHash
      /\ events # <<>> => e.prev_hash = Hash(events[k])
  BY <1>1
<1> HIDE DEF e
<1>7. VerifyChain(Append(events, e))
  <2> DEFINE es == Append(events, e)
  <2>1. /\ DOMAIN es = 1..k + 1 /\ es[k + 1] = e /\ \A i \in 1..k : es[i] = events[i]
    BY <1>0, <1>2, <1>5
  <2> HIDE DEF es
  <2>2. ASSUME NEW i \in 1..k + 1
        PROVE  es[i].seq = i /\ es[i].prev_hash = IF i = 1 THEN GenesisHash ELSE Hash(es[i - 1])
    <3>1. CASE i \in 1..k
      <4>1. i # 1 => i - 1 \in 1..k
        BY <3>1, <1>0
      <4>2. events[i].seq = i /\ events[i].prev_hash = IF i = 1 THEN GenesisHash ELSE Hash(events[i - 1])
        BY <3>1, <1>0 DEF VerifyChain
      <4> QED BY <3>1, <4>1, <4>2, <2>1
    <3>2. CASE i = k + 1
      <4>1. i = 1 <=> events = <<>>
        BY <3>2, <1>2, <1>0
      <4>2. i # 1 => i - 1 = k /\ k \in 1..k
        BY <3>2, <1>0
      <4> QED BY <3>2, <4>1, <4>2, <2>1, <1>6
    <3> QED BY <3>1, <3>2, <1>0
  <2>3. VerifyChain(es)
    BY <2>1, <2>2 DEF VerifyChain
  <2> QED BY <2>3 DEF es
<1> QED BY <1>0, <1>2, <1>3, <1>5, <1>6, <1>7 DEF e

\* A run starts with no events.
LEMMA NoEvents == VerifyChain(<<>>) /\ <<>> \in Seq(AuditEvent)
  BY DEF VerifyChain

\* The lines after a write of one line.
LEMMA WrittenLines ==
    ASSUME AuditTypeOK, unterminated => lines # <<>>,
           NEW x \in AuditEvent \cup {Broken}, NEW k \in Nat, k = Len(lines)
    PROVE  /\ Written(x) \in Seq(AuditEvent \cup {Broken})
           /\ unterminated => /\ k >= 1 /\ Len(Written(x)) = k /\ Written(x)[k] = Broken
                              /\ \A n \in 1..k - 1 : Written(x)[n] = lines[n]
           /\ ~unterminated => /\ Len(Written(x)) = k + 1 /\ Written(x)[k + 1] = x
                               /\ \A n \in 1..k : Written(x)[n] = lines[n]
<1>0. lines \in Seq(AuditEvent \cup {Broken}) /\ DOMAIN lines = 1..k
  BY DEF AuditTypeOK
<1>1. CASE unterminated
  <2>1. Written(x) = [lines EXCEPT ![k] = Broken] /\ k >= 1
    BY <1>0, <1>1 DEF Written
  <2>2. /\ Written(x) \in [1..k -> AuditEvent \cup {Broken}] /\ Written(x)[k] = Broken
        /\ \A n \in 1..k - 1 : Written(x)[n] = lines[n]
    BY <1>0, <2>1
  <2>3. Written(x) \in Seq(AuditEvent \cup {Broken}) /\ Len(Written(x)) = k
    BY <2>2
  <2> QED BY <1>1, <2>1, <2>2, <2>3
<1>2. CASE ~unterminated
  <2>1. Written(x) = Append(lines, x)
    BY <1>2 DEF Written
  <2> QED BY <1>0, <1>2, <2>1
<1> QED BY <1>1, <1>2

\* A write, whole or not, keeps the chain of the lines.
LEMMA WriteKeepsChain ==
    ASSUME AuditInv, NEW d \in Details, NEW x \in {Broken, NextEvent(d)}, lines' = Written(x)
    PROVE  LinesChain'
<1>t. AuditTypeOK /\ VerifyChain(events) /\ (unterminated => lines # <<>>)
  BY DEF AuditInv, RecordsHaveLines
<1>e. NextEvent(d) \in AuditEvent
  BY <1>t, NextEventContinues
<1>0. PICK k \in Nat : k = Len(lines)
  BY <1>t DEF AuditTypeOK
<1>w. /\ unterminated => /\ k >= 1 /\ Len(lines') = k /\ lines'[k] = Broken
                         /\ \A n \in 1..k - 1 : lines'[n] = lines[n]
      /\ ~unterminated => /\ Len(lines') = k + 1 /\ lines'[k + 1] = x
                          /\ \A n \in 1..k : lines'[n] = lines[n]
  BY <1>t, <1>e, <1>0, WrittenLines
<1> SUFFICES ASSUME NEW n \in 1..Len(lines'), lines'[n] # Broken
             PROVE  \/ lines'[n].seq = 1 /\ lines'[n].prev_hash = GenesisHash
                    \/ n > 1 /\ lines'[n - 1] = Broken
                    \/ n > 1 /\ lines'[n].prev_hash = Hash(lines'[n - 1])
                             /\ lines'[n].seq = lines'[n - 1].seq + 1
  BY DEF LinesChain
<1>1. CASE n \in 1..k /\ lines'[n] = lines[n] /\ (n > 1 => lines'[n - 1] = lines[n - 1])
  <2>1. \/ lines[n].seq = 1 /\ lines[n].prev_hash = GenesisHash
        \/ n > 1 /\ lines[n - 1] = Broken
        \/ n > 1 /\ lines[n].prev_hash = Hash(lines[n - 1]) /\ lines[n].seq = lines[n - 1].seq + 1
    BY <1>0, <1>1 DEF AuditInv, LinesChain
  <2> QED BY <1>1, <2>1
<1>2. CASE unterminated
  <2>1. n \in 1..k - 1
    BY <1>0, <1>w, <1>2
  <2>2. n > 1 => n - 1 \in 1..k - 1
    BY <2>1, <1>0
  <2> QED BY <2>1, <2>2, <1>0, <1>w, <1>1, <1>2
<1>3. CASE ~unterminated /\ n \in 1..k
  <2>2. n > 1 => n - 1 \in 1..k
    BY <1>3, <1>0
  <2> QED BY <2>2, <1>w, <1>1, <1>3
<1>4. CASE ~unterminated /\ n \notin 1..k
  <2>1. n = k + 1 /\ lines'[n] = x /\ x = NextEvent(d)
    BY <1>0, <1>w, <1>4
  <2>2. CASE events = <<>>
    BY <2>1, <2>2, <1>t, NextEventContinues
  <2>3. CASE events # <<>>
    <3>1. k # 0 /\ lines[k] \in {Broken, events[Len(events)]}
      BY <2>3, <1>0, <1>4 DEF AuditInv, LastLineIsLast
    <3>2. n > 1 /\ lines'[n - 1] = lines[k]
      BY <2>1, <3>1, <1>0, <1>w, <1>4
    <3>3. /\ NextEvent(d).prev_hash = Hash(events[Len(events)])
          /\ NextEvent(d).seq = events[Len(events)].seq + 1
      BY <2>3, <1>t, NextEventContinues
    <3> QED BY <2>1, <3>1, <3>2, <3>3
  <2> QED BY <2>2, <2>3
<1> QED BY <1>2, <1>3, <1>4

\* A write changes no line of a record.
LEMMA WriteKeepsRecords ==
    ASSUME AuditInv, NEW d \in Details, NEW x \in {Broken, NextEvent(d)}, lines' = Written(x),
           NEW i \in 1..Len(recorded)
    PROVE  /\ recorded[i].line \in 1..Len(lines')
           /\ lines'[recorded[i].line] = lines[recorded[i].line]
           /\ recorded[i].line < Len(lines')
<1>t. AuditTypeOK /\ VerifyChain(events) /\ (unterminated => lines # <<>>)
  BY DEF AuditInv, RecordsHaveLines
<1>0. PICK k \in Nat : k = Len(lines)
  BY <1>t DEF AuditTypeOK
<1>x. x \in AuditEvent \cup {Broken}
  BY <1>t, NextEventContinues
<1>w. /\ unterminated => /\ k >= 1 /\ Len(lines') = k /\ lines'[k] = Broken
                         /\ \A n \in 1..k - 1 : lines'[n] = lines[n]
      /\ ~unterminated => /\ Len(lines') = k + 1 /\ lines'[k + 1] = x
                          /\ \A n \in 1..k : lines'[n] = lines[n]
  BY <1>t, <1>x, <1>0, WrittenLines
<1>1. recorded[i].line \in 1..k /\ (unterminated => recorded[i].line < k)
  BY <1>0 DEF AuditInv, RecordsHaveLines
<1>2. CASE unterminated
  BY <1>1, <1>2, <1>0, <1>w
<1>3. CASE ~unterminated
  BY <1>1, <1>3, <1>0, <1>w
<1> QED BY <1>2, <1>3

LEMMA RecordStep ==
    ASSUME AuditInv, NEW d \in Details, Record(d) PROVE AuditInv'
<1> DEFINE x == NextEvent(d)
<1>t. AuditTypeOK /\ VerifyChain(events) /\ (unterminated => lines # <<>>)
      /\ events \in Seq(AuditEvent) /\ recorded \in Seq([event : AuditEvent, line : Nat])
  BY DEF AuditInv, RecordsHaveLines, AuditTypeOK
<1>e. x \in AuditEvent /\ x # Broken
  BY <1>t, NextEventContinues, AuditAssumption
<1>0. PICK k \in Nat, r \in Nat : k = Len(lines) /\ r = Len(recorded)
  BY <1>t DEF AuditTypeOK
<1>a. /\ lines' = Written(x) /\ unterminated' = FALSE /\ tornWrites' = tornWrites
      /\ events' = Append(events, x)
      /\ recorded' = Append(recorded, [event |-> x, line |-> Len(lines')])
  BY DEF Record
<1>w. /\ lines' \in Seq(AuditEvent \cup {Broken})
      /\ unterminated => /\ k >= 1 /\ Len(lines') = k /\ lines'[k] = Broken
                         /\ \A n \in 1..k - 1 : lines'[n] = lines[n]
      /\ ~unterminated => /\ Len(lines') = k + 1 /\ lines'[k + 1] = x
                          /\ \A n \in 1..k : lines'[n] = lines[n]
  <2> HIDE DEF x
  <2>1. x \in AuditEvent \cup {Broken}
    BY <1>e
  <2> QED BY <1>t, <1>0, <1>a, <2>1, WrittenLines
<1> HIDE DEF x
<1>l. PICK m \in Nat : m = Len(lines') /\ m >= 1 /\ lines'[m] \in {Broken, x}
  BY <1>w, <1>0
<1>r. /\ Len(recorded') = r + 1 /\ recorded'[r + 1] = [event |-> x, line |-> m]
      /\ \A i \in 1..r : recorded'[i] = recorded[i]
  BY <1>t, <1>0, <1>a, <1>e, <1>l
<1>1. AuditTypeOK'
  <2>1. events' \in Seq(AuditEvent)
    BY <1>t, <1>a, <1>e
  <2>2. recorded' \in Seq([event : AuditEvent, line : Nat])
    BY <1>t, <1>a, <1>e, <1>l
  <2> QED BY <1>t, <1>a, <1>w, <2>1, <2>2 DEF AuditTypeOK
<1>2. VerifyChain(events')
  BY <1>t, <1>a, NextEventContinues DEF x
<1>3. LastLineIsLast'
  <2>1. Len(events') \in Nat /\ events'[Len(events')] = x
    BY <1>t, <1>a, <1>e
  <2>2. lines' # <<>>
    BY <1>l, <1>w
  <2> QED BY <2>1, <2>2, <1>l DEF LastLineIsLast
<1>4. LinesChain'
  BY <1>a, WriteKeepsChain DEF x
<1>k. ASSUME NEW i \in 1..r
      PROVE  /\ recorded[i].line \in 1..m /\ recorded[i].line < m
             /\ lines'[recorded[i].line] = lines[recorded[i].line]
             /\ lines[recorded[i].line] \in {Broken, recorded[i].event}
  BY <1>0, <1>a, <1>l, WriteKeepsRecords DEF x, AuditInv, RecordsHaveLines
<1>5. RecordsHaveLines'
  <2>1. ASSUME NEW i \in 1..r + 1
        PROVE  /\ recorded'[i].line \in 1..m
               /\ lines'[recorded'[i].line] \in {Broken, recorded'[i].event}
    <3>1. CASE i \in 1..r
      BY <3>1, <1>k, <1>r
    <3>2. CASE i = r + 1
      BY <3>2, <1>r, <1>l
    <3> QED BY <3>1, <3>2, <1>0
  <2>2. ASSUME NEW i \in 1..r + 1, NEW j \in 1..r + 1, i < j
        PROVE  recorded'[i].line < recorded'[j].line
    <3>0. i \in 1..r
      BY <2>2, <1>0
    <3>1. CASE j \in 1..r
      <4>1. recorded[i].line < recorded[j].line
        BY <3>0, <3>1, <2>2, <1>0 DEF AuditInv, RecordsHaveLines
      <4> QED BY <3>0, <3>1, <4>1, <1>r
    <3>2. CASE j = r + 1
      BY <3>0, <3>2, <1>r, <1>k
    <3> QED BY <3>1, <3>2, <1>0
  <2> QED BY <1>a, <1>l, <1>r, <2>1, <2>2 DEF RecordsHaveLines
<1>6. LinesHaveRecords'
  <2> SUFFICES ASSUME NEW n \in 1..m, lines'[n] # Broken
               PROVE  \E i \in 1..r + 1 : recorded'[i].line = n
    BY <1>a, <1>l, <1>r DEF LinesHaveRecords
  <2>1. CASE n = m
    BY <2>1, <1>r, <1>0
  <2>2. CASE n # m
    <3>1. n \in 1..k /\ lines'[n] = lines[n] /\ ~(unterminated /\ n = k)
      BY <2>2, <1>0, <1>l, <1>w
    <3>2. PICK i \in 1..r : recorded[i].line = n
      BY <3>1, <1>0 DEF AuditInv, LinesHaveRecords
    <3> QED BY <3>2, <1>r, <1>0
  <2> QED BY <2>1, <2>2
<1>7. Torn' = Torn
  <2> SUFFICES ASSUME NEW n \in Nat \ {0} PROVE n \in Torn' <=> n \in Torn
    BY <1>0, <1>l DEF Torn
  <2>1. CASE unterminated
    <3>1. n \in Torn' <=> n \in 1..k /\ (n = k \/ lines[n] = Broken)
      <4>1. CASE n \in 1..k - 1
        BY <4>1, <2>1, <1>0, <1>w, <1>a DEF Torn
      <4>2. CASE n = k
        BY <4>2, <2>1, <1>0, <1>w, <1>a DEF Torn
      <4>3. CASE n > k
        BY <4>3, <2>1, <1>0, <1>w, <1>a DEF Torn
      <4> QED BY <4>1, <4>2, <4>3, <1>0
    <3>2. n \in Torn <=> n \in 1..k /\ (n = k \/ lines[n] = Broken)
      BY <2>1, <1>0 DEF Torn
    <3> QED BY <3>1, <3>2
  <2>2. CASE ~unterminated
    BY <2>2, <1>0, <1>w, <1>a, <1>e DEF Torn
  <2> QED BY <2>1, <2>2
<1> QED BY <1>1, <1>2, <1>3, <1>4, <1>5, <1>6, <1>7, <1>a DEF AuditInv

\* A torn write, whatever becomes of the events of this run.
LEMMA TornStep ==
    ASSUME AuditInv, NEW d \in Details, TornWrite(d), events' \in {events, <<>>},
           recorded' = recorded
    PROVE  AuditInv'
<1>t. /\ AuditTypeOK /\ VerifyChain(events) /\ (unterminated => lines # <<>>)
      /\ tornWrites \in 0..MaxTornWrites /\ MaxTornWrites \in Nat
  BY AuditAssumption DEF AuditInv, RecordsHaveLines, AuditTypeOK
<1>0. PICK k \in Nat, r \in Nat : k = Len(lines) /\ r = Len(recorded)
  BY <1>t DEF AuditTypeOK
<1>a. tornWrites' = tornWrites + 1 /\ tornWrites < MaxTornWrites
  BY DEF TornWrite
<1>v. VerifyChain(events') /\ events' \in Seq(AuditEvent)
  BY <1>t, NoEvents DEF AuditTypeOK
<1>n. Cardinality(Torn) \in Nat /\ IsFiniteSet(Torn) /\ Cardinality(Torn) <= tornWrites
  BY FS_CardinalityType DEF AuditInv
<1>1. CASE UNCHANGED <<lines, unterminated>>
  <2>1. AuditTypeOK'
    BY <1>1, <1>t, <1>a, <1>v DEF AuditTypeOK
  <2>2. LastLineIsLast' /\ LinesChain' /\ RecordsHaveLines' /\ LinesHaveRecords'
    BY <1>1 DEF AuditInv, LastLineIsLast, LinesChain, RecordsHaveLines, LinesHaveRecords
  <2>3. Torn' = Torn
    BY <1>1 DEF Torn
  <2>4. Cardinality(Torn) <= tornWrites + 1
    BY <1>n, <1>t
  <2> QED BY <2>1, <2>2, <2>3, <2>4, <1>a, <1>v, <1>n DEF AuditInv
<1>2. ASSUME NEW x \in {Broken, NextEvent(d)}, lines' = Written(x), unterminated' = TRUE
      PROVE  AuditInv'
  <2>e. x \in AuditEvent \cup {Broken}
    BY <1>t, NextEventContinues
  <2>w. /\ lines' \in Seq(AuditEvent \cup {Broken})
        /\ unterminated => /\ k >= 1 /\ Len(lines') = k /\ lines'[k] = Broken
                           /\ \A n \in 1..k - 1 : lines'[n] = lines[n]
        /\ ~unterminated => /\ Len(lines') = k + 1 /\ lines'[k + 1] = x
                            /\ \A n \in 1..k : lines'[n] = lines[n]
    BY <1>t, <2>e, <1>0, <1>2, WrittenLines
  <2>l. PICK m \in Nat : m = Len(lines') /\ m >= 1 /\ m = IF unterminated THEN k ELSE k + 1
    BY <2>w, <1>0
  <2>1. AuditTypeOK'
    BY <1>2, <1>t, <1>a, <1>v, <2>w DEF AuditTypeOK
  <2>2. LastLineIsLast'
    BY <1>2 DEF LastLineIsLast
  <2>3. LinesChain'
    BY <1>2, WriteKeepsChain
  <2>4. RecordsHaveLines'
    <3>0. Len(lines') >= 1
      BY <2>l
    <3>1. lines' # <<>>
      BY <3>0
    <3>2. ASSUME NEW i \in 1..r
          PROVE  /\ recorded[i].line \in 1..m /\ recorded[i].line < m
                 /\ lines'[recorded[i].line] \in {Broken, recorded[i].event}
      BY <1>0, <1>2, <2>l, WriteKeepsRecords DEF AuditInv, RecordsHaveLines
    <3>3. \A i, j \in 1..r : i < j => recorded[i].line < recorded[j].line
      BY <1>0 DEF AuditInv, RecordsHaveLines
    <3> QED BY <3>1, <3>2, <3>3, <1>0, <1>2, <2>l DEF RecordsHaveLines
  <2>5. LinesHaveRecords'
    <3> SUFFICES ASSUME NEW n \in 1..m, lines'[n] # Broken, n # m
                 PROVE  \E i \in 1..r : recorded[i].line = n
      BY <1>2, <1>0, <2>l DEF LinesHaveRecords
    <3>1. n \in 1..k /\ lines'[n] = lines[n] /\ ~(unterminated /\ n = k)
      BY <1>0, <2>l, <2>w
    <3> QED BY <3>1, <1>0 DEF AuditInv, LinesHaveRecords
  <2>6. Torn' = Torn \cup {m}
    <3> SUFFICES ASSUME NEW n \in Nat \ {0} PROVE n \in Torn' <=> n \in Torn \/ n = m
      BY <1>0, <2>l DEF Torn
    <3>1. CASE unterminated
      BY <3>1, <1>0, <1>2, <2>w, <2>l DEF Torn
    <3>2. CASE ~unterminated
      BY <3>2, <1>0, <1>2, <2>w, <2>l DEF Torn
    <3> QED BY <3>1, <3>2
  <2>7. IsFiniteSet(Torn') /\ Cardinality(Torn') <= Cardinality(Torn) + 1
    <3>1. /\ IsFiniteSet(Torn \cup {m})
          /\ Cardinality(Torn \cup {m}) = IF m \in Torn THEN Cardinality(Torn) ELSE Cardinality(Torn) + 1
      BY <1>n, FS_AddElement
    <3> QED BY <3>1, <2>6, <1>n
  <2>8. Cardinality(Torn') <= tornWrites'
    <3>1. Cardinality(Torn') \in Nat
      BY <2>7, FS_CardinalityType
    <3> QED BY <3>1, <2>7, <1>n, <1>a, <1>t
  <2> QED BY <2>1, <2>2, <2>3, <2>4, <2>5, <2>7, <2>8, <1>v DEF AuditInv
<1> QED BY <1>1, <1>2 DEF TornWrite

LEMMA AuditInvariance == AuditSpec => []AuditInv
<1>1. AuditInit => AuditInv
  <2> SUFFICES ASSUME AuditInit PROVE AuditInv
    OBVIOUS
  <2>1. AuditTypeOK
    <3>1. /\ <<>> \in Seq(AuditEvent) /\ <<>> \in Seq(AuditEvent \cup {Broken})
          /\ <<>> \in Seq([event : AuditEvent, line : Nat])
      OBVIOUS
    <3>2. 0 \in 0..MaxTornWrites
      BY AuditAssumption
    <3> QED BY <3>1, <3>2 DEF AuditInit, AuditTypeOK
  <2>2. Torn = {}
    BY DEF AuditInit, Torn
  <2>3. VerifyChain(events)
    BY DEF AuditInit, VerifyChain
  <2>4. LastLineIsLast /\ LinesChain /\ RecordsHaveLines /\ LinesHaveRecords
    BY DEF AuditInit, LastLineIsLast, LinesChain, RecordsHaveLines, LinesHaveRecords
  <2> QED BY <2>1, <2>2, <2>3, <2>4, FS_EmptySet DEF AuditInv, AuditInit
<1>2. AuditInv /\ [AuditNext]_audit => AuditInv'
  <2> SUFFICES ASSUME AuditInv, [AuditNext]_audit PROVE AuditInv'
    OBVIOUS
  <2>1. ASSUME NEW d \in Details, RecordFails(d) \/ Killed(d) PROVE AuditInv'
    BY <2>1, TornStep DEF RecordFails, Killed
  <2>2. ASSUME UNCHANGED <<lines, unterminated, recorded, tornWrites>>, events' \in {events, <<>>}
        PROVE  AuditInv'
    <3>0. VerifyChain(events') /\ events' \in Seq(AuditEvent)
      BY <2>2, NoEvents DEF AuditInv, AuditTypeOK
    <3>1. AuditTypeOK'
      BY <2>2, <3>0 DEF AuditInv, AuditTypeOK
    <3>2. LastLineIsLast'
      BY <2>2 DEF AuditInv, LastLineIsLast
    <3>3. LinesChain' /\ RecordsHaveLines' /\ LinesHaveRecords' /\ Torn' = Torn
      BY <2>2 DEF AuditInv, LinesChain, RecordsHaveLines, LinesHaveRecords, Torn
    <3> QED BY <2>2, <3>0, <3>1, <3>2, <3>3 DEF AuditInv
  <2>3. CASE ToFile
    BY <2>2, <2>3 DEF ToFile
  <2>4. CASE UNCHANGED audit
    BY <2>2, <2>4 DEF audit
  <2> QED BY <2>1, <2>3, <2>4, RecordStep DEF AuditNext
<1> QED BY <1>1, <1>2, PTL DEF AuditSpec

\* The log and its lines stay in their types.
THEOREM AuditTypeCorrect == AuditSpec => []AuditTypeOK
  BY AuditInvariance, PTL DEF AuditInv

\* Whatever runs, failing writes and kills share the file of audit.rs, what a
\* reader finds there is a chain of the recorded events, but for as many
\* broken lines as there were torn writes; for any number of events.
THEOREM AuditHolds == AuditSpec => []AuditIsAChain
<1>1. AuditInv => AuditIsAChain
  <2> SUFFICES ASSUME AuditInv PROVE AuditIsAChain
    OBVIOUS
  <2>0. PICK k \in Nat, r \in Nat : /\ k = Len(lines) /\ DOMAIN lines = 1..k
                                    /\ r = Len(recorded) /\ DOMAIN recorded = 1..r
    BY DEF AuditInv, AuditTypeOK
  <2>1. VerifyChain(events)
    BY DEF AuditInv
  <2>2. \A n \in Whole : \/ lines[n].seq = 1 /\ lines[n].prev_hash = GenesisHash
                         \/ n > 1 /\ lines[n - 1] = Broken
                         \/ n > 1 /\ lines[n].prev_hash = Hash(lines[n - 1])
                                  /\ lines[n].seq = lines[n - 1].seq + 1
    BY <2>0 DEF AuditInv, LinesChain, Whole
  <2>3. \A i, j \in DOMAIN recorded : i < j => recorded[i].line < recorded[j].line
    BY <2>0 DEF AuditInv, RecordsHaveLines
  <2>4. \A i \in DOMAIN recorded :
           recorded[i].line \in Whole => lines[recorded[i].line] = recorded[i].event
    BY <2>0 DEF AuditInv, RecordsHaveLines, Whole
  <2>5. Whole \cap Terminated \subseteq {recorded[i].line : i \in DOMAIN recorded}
    <3> SUFFICES ASSUME NEW n \in Whole \cap Terminated
                 PROVE  \E i \in 1..r : recorded[i].line = n
      BY <2>0
    <3>1. n \in 1..k /\ lines[n] # Broken /\ ~(unterminated /\ n = k)
      BY <2>0 DEF Whole, Terminated
    <3> QED BY <3>1, <2>0 DEF AuditInv, LinesHaveRecords
  <2>6. Cardinality(DOMAIN lines \ Whole) <= tornWrites
    <3>1. DOMAIN lines \ Whole \in SUBSET Torn
      BY <2>0 DEF Whole, Torn
    <3>2. IsFiniteSet(Torn) /\ Cardinality(Torn) <= tornWrites /\ tornWrites \in Nat
      BY AuditAssumption DEF AuditInv, AuditTypeOK
    <3>3. /\ Cardinality(DOMAIN lines \ Whole) <= Cardinality(Torn)
          /\ IsFiniteSet(DOMAIN lines \ Whole)
      BY <3>1, <3>2, FS_Subset
    <3>4. Cardinality(DOMAIN lines \ Whole) \in Nat /\ Cardinality(Torn) \in Nat
      BY <3>2, <3>3, FS_CardinalityType
    <3> QED BY <3>2, <3>3, <3>4
  <2> QED BY <2>1, <2>2, <2>3, <2>4, <2>5, <2>6 DEF AuditIsAChain
<1> QED BY <1>1, AuditInvariance, PTL
----------------------------------------------------------------------------
(* The daemon.  What its fields say of a subsystem depends on where run()  *)
(* is: during the boot exactly the entries before at run, in the loop an   *)
(* entry is supervised, given up or beyond stopping.                       *)

ByPhase ==
    /\ pc = "boot" =>
          /\ lc = "Boot" /\ stopped = <<>>
          /\ \A i \in Entry : (running[i] <=> i < at) /\ ~stuck[i]
    /\ pc \in {"loop", "tick"} => lc \in {"Running", "Degraded"} /\ stopped = <<>>
    /\ pc = "drain" => lc = "Shutdown"
    /\ pc = "exit" => lc = "Stopped" /\ \A i \in Entry : ~running[i]

\* A subsystem that is up is run by the supervisor or refused to stop.
Supervised == \A i \in Entry : up[i] => running[i] \/ stuck[i]

\* In the loop an entry that was given up and stopped is Unhealthy.
Judged ==
    pc \in {"loop", "tick"} =>
        \A i \in Entry : running[i] \/ stuck[i] \/ health[i] = "Unhealthy"

\* The names left to stop, matched by f with the entries left running.  When
\* a name is listed twice, f need not be the order they are stopped in.
Matches(f) ==
    /\ f \in [1..Len(order) -> Running]
    /\ \A i \in Running : \E j \in 1..Len(order) : f[j] = i
    /\ \A j, k \in 1..Len(order) : f[j] = f[k] => j = k
    /\ \A j \in 1..Len(order) : names[f[j]] = order[j]

\* When none is listed twice, it is: the one started last comes first, and
\* whatever was stopped had been started after all of them.
LastFirst(f) ==
    /\ \A j, k \in 1..Len(order) : j < k => f[j] > f[k]
    /\ \A k \in 1..Len(stopped), j \in 1..Len(order) : stopped[k] > f[j]

Draining ==
    pc = "drain" => \E f : Matches(f) /\ (IsInjective(names) => LastFirst(f))

StoppedOnce ==
    /\ stopped \in Seq(Entry)
    /\ \A k \in 1..Len(stopped) : ~running[stopped[k]]
    /\ IsInjective(stopped)
    /\ IsInjective(names) => ReverseOrder

ConfigOK == names \in Configs /\ order \in Seq(STRING)

NodeInv ==
    /\ ConfigOK /\ TypeOK /\ ByPhase /\ Supervised /\ Judged
    /\ NodeStateIsHonest /\ Draining /\ StoppedOnce

\* The entries are numbered in start order; there is at least one.
LEMMA Entries ==
    ASSUME names \in Configs
    PROVE  /\ names \in Seq(STRING) /\ Len(names) \in Nat \ {0}
           /\ Entry = 1..Len(names) /\ IsFiniteSet(Entry)
<1>1. names \in Seq(STRING) /\ names # <<>>
  BY ConfigAssumption
<1>2. Len(names) \in Nat \ {0} /\ Entry = 1..Len(names)
  BY <1>1 DEF Entry
<1>3. IsFiniteSet(1..Len(names))
  BY <1>2, FS_Interval
<1> QED BY <1>1, <1>2, <1>3

\* The transitions the daemon makes are legal ones, so each of them is made.
LEMMA LegalTransitions ==
    /\ Transition("Init", "Boot") = "Boot"
    /\ Transition("Boot", "Running") = "Running"
    /\ Transition(Transition("Boot", "Shutdown"), "Stopped") = "Stopped"
    /\ Transition("Running", "Degraded") = "Degraded"
    /\ Transition("Degraded", "Running") = "Running"
    /\ Transition("Running", "Shutdown") = "Shutdown"
    /\ Transition("Degraded", "Shutdown") = "Shutdown"
    /\ Transition("Shutdown", "Stopped") = "Stopped"
BY DEF Transition, CanTransition

\* A nonempty set of natural numbers has a least element.
LEMMA LeastElement ==
    ASSUME NEW S \in SUBSET Nat, S # {}
    PROVE  Min(S) \in S
<1>1. \E x \in S : \A y \in S : ~(<<y, x>> \in OpToRel(<, Nat))
  BY NatLessThanWellFounded, WFMin
<1>2. PICK x \in S : \A y \in S : ~(<<y, x>> \in OpToRel(<, Nat))
  BY <1>1
<1>3. \A y \in S : x <= y
  <2> SUFFICES ASSUME NEW y \in S, y < x PROVE FALSE
    OBVIOUS
  <2>1. <<y, x>> \in OpToRel(<, Nat)
    BY DEF OpToRel
  <2> QED BY <1>2, <2>1
<1> QED BY <1>3 DEF Min

\* Place numbers the running entries from 1, the one started last first.
LEMMA Places ==
    ASSUME names \in Configs
    PROVE  /\ IsFiniteSet(Running) /\ Cardinality(Running) \in Nat
           /\ \A i \in Running : Place(i) \in 1..Cardinality(Running)
           /\ \A i, k \in Running : i < k => Place(k) < Place(i)
           /\ \A j \in 1..Cardinality(Running) : \E i \in Running : Place(i) = j
<1> DEFINE Above(i) == {k \in Running : k >= i}
           n == Cardinality(Running)
<1>1. IsFiniteSet(Running) /\ n \in Nat /\ Running \subseteq Nat
  BY Entries, FS_Subset, FS_CardinalityType DEF Running
<1>2. \A i \in Running : /\ Above(i) \in SUBSET Running /\ i \in Above(i)
                         /\ IsFiniteSet(Above(i)) /\ Place(i) = Cardinality(Above(i))
  BY <1>1, FS_Subset DEF Place
<1>3. \A i \in Running : Place(i) \in 1..n
  <2> SUFFICES ASSUME NEW i \in Running PROVE Place(i) \in 1..n
    OBVIOUS
  <2>1. Place(i) \in Nat
    BY <1>2, FS_CardinalityType
  <2> HIDE DEF Above
  <2>2. Place(i) <= n
    BY <1>1, <1>2, FS_Subset
  <2>3. Place(i) # 0
    BY <1>2, FS_EmptySet
  <2> QED BY <1>1, <2>1, <2>2, <2>3
<1>4. \A i, k \in Running : i < k => Place(k) < Place(i)
  <2> SUFFICES ASSUME NEW i \in Running, NEW k \in Running, i < k
               PROVE  Place(k) < Place(i)
    OBVIOUS
  <2>1. Above(k) \in SUBSET Above(i) /\ i \notin Above(k)
    <3>1. i \in Nat /\ k \in Nat /\ \A m \in Running : m \in Nat
      BY <1>1
    <3>2. \A m \in Running : m >= k => m >= i
      BY <3>1
    <3>3. ~(i >= k)
      BY <3>1
    <3> QED BY <3>2, <3>3
  <2> HIDE DEF Above
  <2>2. Place(k) <= Place(i) /\ Place(k) # Place(i)
    BY <1>2, <2>1, FS_Subset
  <2> QED BY <1>3, <1>1, <2>2
<1>5. \A j \in 1..n : \E i \in Running : Place(i) = j
  <2> DEFINE p == [i \in Running |-> Place(i)]
  <2>1. p \in [Running -> 1..n]
    BY <1>3
  <2>2. \A i, k \in Running : p[i] = p[k] => i = k
    <3> SUFFICES ASSUME NEW i \in Running, NEW k \in Running, i # k
                 PROVE  Place(i) # Place(k)
      OBVIOUS
    <3>1. i < k \/ k < i
      BY <1>1
    <3> QED BY <3>1, <1>4, <1>3, <1>1
  <2>3. p \in Injection(Running, 1..n)
    BY <2>1, <2>2 DEF Injection, IsInjective
  <2>4. IsFiniteSet(1..n) /\ Cardinality(1..n) = n
    BY <1>1, FS_Interval
  <2>5. p \in Surjection(Running, 1..n)
    BY <2>3, <2>4, FS_Injection
  <2>6. \A j \in 1..n : \E i \in Running : p[i] = j
    BY <2>5 DEF Surjection
  <2> QED BY <2>6
<1> QED BY <1>1, <1>3, <1>4, <1>5

\* What shutdown_order returns matches the running entries, last first.
LEMMA ShutdownOrderMatches ==
    ASSUME names \in Configs, stopped = <<>>, order' = ShutdownOrder,
           UNCHANGED <<names, running, stopped>>
    PROVE  \E f : Matches(f)' /\ LastFirst(f)' /\ order' \in Seq(STRING)
<1>0. PICK n \in Nat : n = Cardinality(Running)
  BY Places
<1>1. /\ \A i \in Running : Place(i) \in 1..n
      /\ \A i, k \in Running : i < k => Place(k) < Place(i)
      /\ \A j \in 1..n : \E i \in Running : Place(i) = j
  BY Places, <1>0
<1>2. names \in Seq(STRING) /\ Running \subseteq 1..Len(names) /\ Len(names) \in Nat
  BY Entries DEF Running
<1>3. PICK f : f = [j \in 1..n |-> CHOOSE i \in Running : Place(i) = j]
  OBVIOUS
<1>4. \A j \in 1..n : f[j] \in Running /\ Place(f[j]) = j
  BY <1>1, <1>3
<1>5. f \in [1..n -> Running] /\ order' = [j \in 1..n |-> names[f[j]]]
  BY <1>0, <1>3, <1>4 DEF ShutdownOrder
<1>6. order' \in Seq(STRING) /\ Len(order') = n
  <2>0. \A k \in 1..Len(names) : names[k] \in STRING
    BY <1>2
  <2>1. \A j \in 1..n : names[f[j]] \in STRING
    <3>1. \A j \in 1..n : f[j] \in 1..Len(names)
      BY <1>2, <1>4
    <3> QED BY <2>0, <3>1
  <2>2. PICK r : r = [j \in 1..n |-> names[f[j]]]
    OBVIOUS
  <2>3. r \in Seq(STRING) /\ Len(r) = n
    BY <2>1, <2>2
  <2> QED BY <1>5, <2>2, <2>3
<1>7. names' = names /\ Running' = Running /\ stopped' = <<>>
  BY DEF Running, Entry
<1>8. Matches(f)'
  <2>1. \A j, k \in 1..n : f[j] = f[k] => j = k
    BY <1>4
  <2>2. \A i \in Running : \E j \in 1..n : f[j] = i
    <3> SUFFICES ASSUME NEW i \in Running PROVE f[Place(i)] = i
      BY <1>1
    <3>1. PICK j \in 1..n : j = Place(i)
      BY <1>1
    <3>2. PICK k \in Running : k = f[j] /\ Place(k) = j
      BY <1>4
    <3>3. k \in Nat /\ i \in Nat
      BY <1>2
    <3>4. ~(i < k) /\ ~(k < i)
      BY <1>1, <3>1, <3>2
    <3> QED BY <3>1, <3>2, <3>3, <3>4
  <2>3. \A j \in 1..n : names[f[j]] = order'[j]
    BY <1>5
  <2> QED BY <1>5, <1>6, <1>7, <2>1, <2>2, <2>3 DEF Matches
<1>9. LastFirst(f)'
  <2>1. ASSUME NEW j \in 1..n, NEW k \in 1..n, j < k
        PROVE  f[j] > f[k]
    <3>1. PICK a \in Running : a = f[j] /\ Place(a) = j
      BY <1>4
    <3>2. PICK b \in Running : b = f[k] /\ Place(b) = k
      BY <1>4
    <3>3. a \in Nat /\ b \in Nat
      BY <1>2
    <3>4. a # b /\ ~(a < b)
      BY <1>1, <2>1, <3>1, <3>2
    <3> QED BY <3>1, <3>2, <3>3, <3>4
  <2> QED BY <2>1, <1>6, <1>7 DEF LastFirst
<1> QED BY <1>6, <1>8, <1>9

\* stop_subsystem finds an entry to stop for the name that is next.
LEMMA VictimRuns ==
    ASSUME ConfigOK, order # <<>>, NEW f, Matches(f)
    PROVE  /\ Victim(Head(order)) \in Running
           /\ names[Victim(Head(order))] = Head(order)
           /\ IsInjective(names) => Victim(Head(order)) = f[1]
<1> DEFINE S == {i \in Entry : names[i] = Head(order) /\ running[i]}
<1>1. 1 \in 1..Len(order) /\ Head(order) = order[1]
  BY DEF ConfigOK
<1>2. f[1] \in Running /\ names[f[1]] = Head(order)
  BY <1>1 DEF Matches
<1>3. f[1] \in S /\ S \in SUBSET Nat
  BY <1>2, Entries DEF Running, ConfigOK
<1>4. Min(S) \in S
  <2> HIDE DEF S
  <2> QED BY <1>3, LeastElement
<1>5. Victim(Head(order)) \in S
  BY <1>4 DEF Victim
<1> QED BY <1>2, <1>5 DEF Running, IsInjective, Entry

\* The matching that is left when the victim v of the name at the head is
\* stopped: the entry matched with the head takes the place of v.
LEMMA StopKeepsMatching ==
    ASSUME ConfigOK, TypeOK, order # <<>>, NEW f, Matches(f), NEW v \in Running,
           names[v] = Head(order), IsInjective(names) => LastFirst(f) /\ v = f[1],
           stopped \in Seq(Entry), names' = names, order' = Tail(order),
           running' = [running EXCEPT ![v] = FALSE], stopped' = Append(stopped, v)
    PROVE  \E g : Matches(g)' /\ (IsInjective(names) => LastFirst(g))'
<1>0. PICK n \in Nat \ {0} : n = Len(order)
  BY DEF ConfigOK
<1>1. /\ Len(order') = n - 1 /\ Head(order) = order[1]
      /\ \A j \in 1..(n - 1) : j + 1 \in 1..n /\ order'[j] = order[j + 1]
  BY <1>0 DEF ConfigOK
<1>2. Running' = Running \ {v}
  BY DEF Running, Entry, TypeOK
<1>3. /\ f \in [1..n -> Running]
      /\ \A i \in Running : \E j \in 1..n : f[j] = i
      /\ \A j, k \in 1..n : f[j] = f[k] => j = k
      /\ \A j \in 1..n : names[f[j]] = order[j]
  BY <1>0 DEF Matches
<1>4. PICK g : g = [j \in 1..(n - 1) |-> IF f[j + 1] = v THEN f[1] ELSE f[j + 1]]
  OBVIOUS
<1>6. \A j \in 1..(n - 1) : g[j] \in Running /\ g[j] # v
  <2> SUFFICES ASSUME NEW j \in 1..(n - 1) PROVE g[j] \in Running /\ g[j] # v
    OBVIOUS
  <2>1. 1 \in 1..n /\ j + 1 \in 1..n /\ j + 1 # 1
    BY <1>1
  <2> QED BY <1>3, <1>4, <2>1
<1>7. \A j, k \in 1..(n - 1) : g[j] = g[k] => j = k
  <2> SUFFICES ASSUME NEW j \in 1..(n - 1), NEW k \in 1..(n - 1), g[j] = g[k]
               PROVE  j + 1 = k + 1
    BY <1>1
  <2>1. /\ 1 \in 1..n /\ j + 1 \in 1..n /\ j + 1 # 1
        /\ k + 1 \in 1..n /\ k + 1 # 1
    BY <1>1
  <2> QED BY <1>3, <1>4, <2>1
<1>8. \A i \in Running \ {v} : \E j \in 1..(n - 1) : g[j] = i
  <2> SUFFICES ASSUME NEW i \in Running, i # v
               PROVE  \E j \in 1..(n - 1) : g[j] = i
    OBVIOUS
  <2>1. PICK k \in 1..n : f[k] = i
    BY <1>3
  <2>2. CASE k = 1
    <3>1. PICK m \in 1..n : f[m] = v
      BY <1>3
    <3>2. m - 1 \in 1..(n - 1) /\ (m - 1) + 1 = m
      BY <1>1, <2>1, <2>2, <3>1
    <3> QED BY <1>4, <2>1, <2>2, <3>1, <3>2
  <2>3. CASE k # 1
    <3>1. k - 1 \in 1..(n - 1) /\ (k - 1) + 1 = k
      BY <1>1, <2>3
    <3> QED BY <1>4, <2>1, <3>1
  <2> QED BY <2>2, <2>3
<1>9. \A j \in 1..(n - 1) : names[g[j]] = order'[j]
  <2> SUFFICES ASSUME NEW j \in 1..(n - 1) PROVE names[g[j]] = order'[j]
    OBVIOUS
  <2>1. 1 \in 1..n /\ j + 1 \in 1..n /\ order'[j] = order[j + 1]
    BY <1>1
  <2>2. CASE f[j + 1] = v
    BY <1>1, <1>3, <1>4, <2>1, <2>2
  <2>3. CASE f[j + 1] # v
    BY <1>3, <1>4, <2>1, <2>3
  <2> QED BY <2>2, <2>3
<1>10. Matches(g)'
  <2>1. g \in [1..(n - 1) -> Running \ {v}]
    BY <1>4, <1>6
  <2> QED BY <1>1, <1>2, <1>7, <1>8, <1>9, <2>1 DEF Matches
<1>11. ASSUME IsInjective(names) PROVE LastFirst(g)'
  <2>1. /\ v = f[1]
        /\ \A j, k \in 1..n : j < k => f[j] > f[k]
        /\ \A k \in 1..Len(stopped), j \in 1..n : stopped[k] > f[j]
    BY <1>0, <1>11 DEF LastFirst
  <2>2. \A j \in 1..(n - 1) : j + 1 \in 1..n /\ g[j] = f[j + 1] /\ f[1] > f[j + 1]
    <3> SUFFICES ASSUME NEW j \in 1..(n - 1)
                 PROVE  j + 1 \in 1..n /\ g[j] = f[j + 1] /\ f[1] > f[j + 1]
      OBVIOUS
    <3>1. 1 \in 1..n /\ j + 1 \in 1..n /\ 1 < j + 1
      BY <1>1
    <3>2. f[1] # f[j + 1]
      BY <1>3, <3>1
    <3> QED BY <1>4, <2>1, <3>1, <3>2
  <2>3. \A j, k \in 1..(n - 1) : j < k => g[j] > g[k]
    BY <1>1, <2>1, <2>2
  <2>4. ASSUME NEW k \in 1..Len(stopped'), NEW j \in 1..(n - 1)
        PROVE  stopped'[k] > g[j]
    <3>1. CASE k \in 1..Len(stopped)
      BY <2>1, <2>2, <3>1
    <3>2. CASE k \notin 1..Len(stopped)
      BY <2>1, <2>2, <3>2
    <3> QED BY <3>1, <3>2
  <2> QED BY <1>1, <2>3, <2>4 DEF LastFirst
<1> QED BY <1>10, <1>11

\* Before the drain nothing has been stopped.
LEMMA NothingStopped ==
    /\ stopped = <<>> => StoppedOnce
    /\ stopped' = <<>> => StoppedOnce'
<1>1. stopped = <<>> => StoppedOnce
  BY DEF StoppedOnce, IsInjective, ReverseOrder
<1>2. stopped' = <<>> => StoppedOnce'
  BY DEF StoppedOnce, IsInjective, ReverseOrder
<1> QED BY <1>1, <1>2

\* The health an entry is given is that of a subsystem that is up or not.
LEMMA HealthTypes ==
    /\ \A b \in BOOLEAN : HealthOf(b) \subseteq {"Healthy", "Degraded", "Unhealthy"}
    /\ HealthOf(FALSE) = {"Unhealthy"}
BY DEF HealthOf

LEMMA FailStaysInBound ==
    ASSUME NEW n \in Nat, faults \in 0..MaxFaults, Fail(n)
    PROVE  faults' \in 0..MaxFaults
BY ConfigAssumption DEF Fail

\* The boot: an entry is started, or all are rolled back, or all run.
LEMMA BootSteps ==
    ASSUME NodeInv, StartOk \/ StartFails \/ BootDone
    PROVE  NodeInv'
<1>0. /\ pc = "boot" /\ names' = names /\ Entry' = Entry /\ ConfigOK'
      /\ stopped' = <<>> /\ lc = "Boot"
      /\ \A i \in Entry : (running[i] <=> i < at) /\ ~stuck[i]
  BY DEF NodeInv, ConfigOK, ByPhase, StartOk, StartFails, BootDone, Entry
<1>1. StoppedOnce'
  BY <1>0, NothingStopped
<1>2. Len(names) \in Nat \ {0} /\ Entry = 1..Len(names) /\ IsFiniteSet(Entry)
  BY Entries DEF NodeInv, ConfigOK
<1>3. TypeOK /\ Supervised
  BY DEF NodeInv
<1>4. CASE StartOk
  <2>1. TypeOK'
    <3>1. PICK h \in HealthOf(TRUE) : health' = [health EXCEPT ![at] = h]
      BY <1>4 DEF StartOk
    <3>2. h \in {"Healthy", "Degraded", "Unhealthy"}
      BY HealthTypes
    <3>3. at' \in 1..Len(names') + 1
      BY <1>0, <1>2, <1>4 DEF StartOk
    <3> QED BY <1>0, <1>3, <1>4, <3>1, <3>2, <3>3 DEF TypeOK, StartOk
  <2>2. ByPhase'
    <3>1. \A i \in Entry : running'[i] <=> i < at'
      BY <1>0, <1>2, <1>3, <1>4 DEF TypeOK, StartOk
    <3> QED BY <1>0, <1>4, <3>1 DEF ByPhase, StartOk
  <2>3. Supervised'
    BY <1>0, <1>3, <1>4 DEF Supervised, TypeOK, StartOk
  <2>4. Judged' /\ NodeStateIsHonest' /\ Draining'
    BY <1>0, <1>4 DEF Judged, NodeStateIsHonest, Draining, StartOk
  <2> QED BY <1>0, <1>1, <2>1, <2>2, <2>3, <2>4 DEF NodeInv
<1>5. CASE StartFails
  <2>1. PICK u \in SUBSET {i \in Entry : running[i]} :
            /\ Fail(1 + Cardinality(u))
            /\ up' = [i \in Entry |-> i \in u] /\ stuck' = [i \in Entry |-> i \in u]
    BY <1>5 DEF StartFails
  <2>2. faults' \in 0..MaxFaults
    <3>1. u \in SUBSET Entry
      OBVIOUS
    <3>2. Cardinality(u) \in Nat
      BY <1>2, <3>1, FS_Subset, FS_CardinalityType
    <3>3. 1 + Cardinality(u) \in Nat
      BY <3>2
    <3> QED BY <1>3, <2>1, <3>3, FailStaysInBound DEF TypeOK
  <2>3. lc' = "Stopped" /\ pc' = "exit" /\ \A i \in Entry : ~running'[i]
    BY <1>0, <1>5, LegalTransitions DEF StartFails
  <2>4. TypeOK'
    <3>1. up' \in [Entry -> BOOLEAN] /\ stuck' \in [Entry -> BOOLEAN]
      BY <2>1
    <3>2. /\ running' \in [Entry -> BOOLEAN] /\ at' = at /\ restarts' = restarts
          /\ health' \in [Entry -> {"Healthy", "Degraded", "Unhealthy"}]
          /\ requested' = requested
      BY <1>3, <1>5 DEF TypeOK, StartFails
    <3> QED BY <1>0, <1>3, <2>2, <2>3, <3>1, <3>2 DEF TypeOK
  <2>5. ByPhase' /\ Judged' /\ NodeStateIsHonest' /\ Draining'
    BY <1>0, <2>3 DEF ByPhase, Judged, NodeStateIsHonest, Draining
  <2>6. Supervised'
    BY <1>0, <2>1 DEF Supervised
  <2> QED BY <1>0, <1>1, <2>4, <2>5, <2>6 DEF NodeInv
<1>6. CASE BootDone
  <2>1. lc' = "Running" /\ pc' = "loop" /\ UNCHANGED <<at, entries, requested, faults>>
    BY <1>0, <1>6, LegalTransitions DEF BootDone
  <2>2. \A i \in Entry : running[i]
    BY <1>0, <1>2, <1>3, <1>6 DEF BootDone, TypeOK
  <2>3. TypeOK'
    BY <1>0, <1>3, <2>1 DEF TypeOK, entries
  <2>4. ByPhase' /\ Judged' /\ NodeStateIsHonest' /\ Draining' /\ Supervised'
    BY <1>0, <1>3, <2>1, <2>2
       DEF ByPhase, Judged, NodeStateIsHonest, Draining, Supervised, entries
  <2> QED BY <1>0, <1>1, <2>3, <2>4 DEF NodeInv
<1> QED BY <1>4, <1>5, <1>6

\* A failed tick: an entry that is up stays supervised or is stuck.
LEMMA ReplaceStep ==
    ASSUME NodeInv, pc = "tick", at \in Entry,
           NEW isUp \in BOOLEAN, NEW isRunning \in BOOLEAN, NEW isStuck \in BOOLEAN,
           NEW count \in 0..MaxRestarts, isUp <=> isRunning \/ isStuck,
           Replace(isUp, isRunning, isStuck, count), faults' \in 0..MaxFaults
    PROVE  NodeInv'
<1>0. /\ names' = names /\ Entry' = Entry /\ ConfigOK' /\ pc' = "tick" /\ lc' = lc
      /\ stopped' = <<>> /\ lc \in {"Running", "Degraded"}
  BY DEF NodeInv, ConfigOK, ByPhase, Replace, Entry
<1>1. StoppedOnce'
  BY <1>0, NothingStopped
<1>2. Len(names) \in Nat \ {0} /\ Entry = 1..Len(names)
  BY Entries DEF NodeInv, ConfigOK
<1>3. TypeOK /\ Supervised /\ Judged
  BY DEF NodeInv
<1>4. PICK h \in HealthOf(isUp) : health' = [health EXCEPT ![at] = h]
  BY DEF Replace
<1>5. h \in {"Healthy", "Degraded", "Unhealthy"} /\ (~isUp => h = "Unhealthy")
  BY HealthTypes
<1>6. TypeOK'
  <2>1. at' \in 1..Len(names') + 1
    BY <1>0, <1>2 DEF Replace
  <2> QED BY <1>0, <1>3, <1>4, <1>5, <2>1 DEF TypeOK, Replace
<1>7. Supervised'
  BY <1>0, <1>3 DEF Supervised, TypeOK, Replace
<1>8. Judged'
  BY <1>0, <1>3, <1>4, <1>5 DEF Judged, TypeOK, Replace
<1>9. ByPhase' /\ NodeStateIsHonest' /\ Draining'
  BY <1>0 DEF ByPhase, NodeStateIsHonest, Draining
<1> QED BY <1>0, <1>1, <1>6, <1>7, <1>8, <1>9 DEF NodeInv

\* The tick loop.
LEMMA LoopSteps ==
    ASSUME NodeInv,
           BeginTick \/ TickSkip \/ TickOk \/ TickRestart \/ TickGiveUp \/ EndTick
    PROVE  NodeInv'
<1>0. /\ names' = names /\ Entry' = Entry /\ ConfigOK' /\ stopped' = <<>>
      /\ pc \in {"loop", "tick"} /\ lc \in {"Running", "Degraded"}
  <2>1. names' = names /\ order' = order /\ stopped' = stopped /\ pc \in {"loop", "tick"}
    BY DEF BeginTick, TickSkip, TickOk, TickRestart, TickGiveUp, EndTick, Replace
  <2> QED BY <2>1 DEF NodeInv, ConfigOK, ByPhase, Entry
<1>1. StoppedOnce'
  BY <1>0, NothingStopped
<1>2. Len(names) \in Nat \ {0} /\ Entry = 1..Len(names)
  BY Entries DEF NodeInv, ConfigOK
<1>3. TypeOK /\ Supervised /\ Judged
  BY DEF NodeInv
<1>4. CASE BeginTick \/ TickSkip
  <2>1. /\ pc' = "tick" /\ UNCHANGED <<lc, entries, requested, faults>>
        /\ at' \in 1..Len(names) + 1
    BY <1>2, <1>3, <1>4 DEF BeginTick, TickSkip, TypeOK
  <2>2. TypeOK'
    BY <1>0, <1>3, <2>1 DEF TypeOK, entries
  <2>3. ByPhase' /\ Supervised' /\ Judged' /\ NodeStateIsHonest' /\ Draining'
    BY <1>0, <1>3, <2>1
       DEF ByPhase, Supervised, Judged, NodeStateIsHonest, Draining, entries
  <2> QED BY <1>0, <1>1, <2>2, <2>3 DEF NodeInv
<1>5. CASE TickOk
  <2>1. PICK h \in HealthOf(up[at]) : health' = [health EXCEPT ![at] = h]
    BY <1>5 DEF TickOk
  <2>2. h \in {"Healthy", "Degraded", "Unhealthy"} /\ at \in Entry /\ running[at]
    BY <1>3, <1>5, HealthTypes DEF TypeOK, TickOk
  <2>3. /\ pc' = "tick" /\ UNCHANGED <<lc, running, restarts, up, stuck, requested, faults>>
        /\ at' \in 1..Len(names) + 1
    BY <1>2, <1>3, <1>5 DEF TickOk, TypeOK
  <2>4. TypeOK'
    BY <1>0, <1>3, <2>1, <2>2, <2>3 DEF TypeOK
  <2>5. Judged'
    BY <1>0, <1>3, <2>1, <2>2, <2>3 DEF Judged, TypeOK
  <2>6. ByPhase' /\ Supervised' /\ NodeStateIsHonest' /\ Draining'
    BY <1>0, <1>3, <2>3 DEF ByPhase, Supervised, NodeStateIsHonest, Draining
  <2> QED BY <1>0, <1>1, <2>4, <2>5, <2>6 DEF NodeInv
<1>6. CASE TickRestart
  <2>1. PICK stopOk \in BOOLEAN, startOk \in BOOLEAN :
            /\ Fail(1 + (IF stopOk THEN 0 ELSE 1) + (IF startOk THEN 0 ELSE 1))
            /\ Replace(startOk \/ ~stopOk, startOk, ~stopOk /\ ~startOk,
                       restarts[at] + 1)
    BY <1>6 DEF TickRestart
  <2>2. pc = "tick" /\ at \in Entry /\ restarts[at] + 1 \in 0..MaxRestarts
    BY <1>3, <1>6, ConfigAssumption DEF TickRestart, TypeOK
  <2>3. faults' \in 0..MaxFaults
    <3>1. PICK n \in Nat : n = 1 + (IF stopOk THEN 0 ELSE 1) + (IF startOk THEN 0 ELSE 1)
      OBVIOUS
    <3> QED BY <1>3, <2>1, <3>1, FailStaysInBound DEF TypeOK
  <2>4. PICK isUp \in BOOLEAN, isStuck \in BOOLEAN, count \in 0..MaxRestarts :
            /\ isUp = (startOk \/ ~stopOk) /\ isStuck = (~stopOk /\ ~startOk)
            /\ count = restarts[at] + 1
    BY <2>2
  <2>5. Replace(isUp, startOk, isStuck, count) /\ (isUp <=> startOk \/ isStuck)
    BY <2>1, <2>4
  <2> QED BY <2>2, <2>3, <2>5, ReplaceStep
<1>7. CASE TickGiveUp
  <2>1. PICK stopOk \in BOOLEAN :
            /\ Fail(IF stopOk THEN 1 ELSE 2)
            /\ Replace(~stopOk, FALSE, ~stopOk, restarts[at])
    BY <1>7 DEF TickGiveUp
  <2>2. pc = "tick" /\ at \in Entry /\ restarts[at] \in 0..MaxRestarts
    BY <1>3, <1>7 DEF TickGiveUp, TypeOK
  <2>3. faults' \in 0..MaxFaults
    <3>1. PICK n \in Nat : n = IF stopOk THEN 1 ELSE 2
      OBVIOUS
    <3> QED BY <1>3, <2>1, <3>1, FailStaysInBound DEF TypeOK
  <2>4. PICK isUp \in BOOLEAN, count \in 0..MaxRestarts :
            isUp = ~stopOk /\ count = restarts[at]
    BY <2>2
  <2>5. Replace(isUp, FALSE, isUp, count)
    BY <2>1, <2>4
  <2> QED BY <2>2, <2>3, <2>5, ReplaceStep
<1>8. CASE EndTick
  <2> DEFINE status == Overall({health[i] : i \in Entry})
  <2>1. /\ pc' = "loop" /\ UNCHANGED <<at, entries, requested, faults>>
        /\ lc' = AfterTick(status)
    BY <1>8 DEF EndTick
  <2>2. /\ status = "Healthy" => \A i \in Entry : health[i] # "Unhealthy"
        /\ status # "Healthy" => \E i \in Entry : health[i] # "Healthy"
    BY DEF Overall
  <2> HIDE DEF status
  <2>3. /\ lc' \in {"Running", "Degraded"}
        /\ lc' = "Running" => status = "Healthy"
        /\ lc' = "Degraded" => status # "Healthy"
    BY <1>0, <2>1, LegalTransitions DEF AfterTick
  <2>4. TypeOK'
    BY <1>0, <1>3, <2>1, <2>3 DEF TypeOK, entries
  <2>5. NodeStateIsHonest'
    BY <1>0, <1>3, <2>1, <2>2, <2>3 DEF NodeStateIsHonest, Judged, entries
  <2>6. ByPhase' /\ Supervised' /\ Judged' /\ Draining'
    BY <1>0, <1>3, <2>1, <2>3 DEF ByPhase, Supervised, Judged, Draining, entries
  <2> QED BY <1>0, <1>1, <2>4, <2>5, <2>6 DEF NodeInv
<1> QED BY <1>4, <1>5, <1>6, <1>7, <1>8

\* The drain, and the signal that leads to it.
LEMMA DrainSteps ==
    ASSUME NodeInv, BeginShutdown \/ StopNext \/ EndShutdown \/ Signal
    PROVE  NodeInv'
<1>0. names' = names /\ Entry' = Entry
  BY DEF BeginShutdown, StopNext, EndShutdown, Signal, Entry
<1>1. Len(names) \in Nat \ {0} /\ Entry = 1..Len(names)
  BY Entries DEF NodeInv, ConfigOK
<1>2. /\ ConfigOK /\ TypeOK /\ ByPhase /\ Supervised /\ Judged
      /\ NodeStateIsHonest /\ Draining /\ StoppedOnce
  BY DEF NodeInv
<1>3. CASE BeginShutdown
  <2>1. /\ pc = "loop" /\ pc' = "drain" /\ order' = ShutdownOrder
        /\ UNCHANGED <<names, at, entries, requested, stopped, faults>>
        /\ lc' = "Shutdown" /\ stopped = <<>>
    BY <1>2, <1>3, LegalTransitions DEF BeginShutdown, ByPhase
  <2>2. PICK f : Matches(f)' /\ LastFirst(f)' /\ order' \in Seq(STRING)
    <3>1. UNCHANGED <<names, running, stopped>>
      BY <2>1 DEF entries
    <3> QED BY <1>2, <2>1, <3>1, ShutdownOrderMatches DEF ConfigOK
  <2>3. ConfigOK' /\ StoppedOnce'
    BY <1>0, <1>2, <2>1, <2>2, NothingStopped DEF ConfigOK
  <2>4. TypeOK'
    BY <1>0, <1>2, <2>1 DEF TypeOK, entries
  <2>5. ByPhase' /\ Supervised' /\ Judged' /\ NodeStateIsHonest'
    BY <1>0, <1>2, <2>1 DEF ByPhase, Supervised, Judged, NodeStateIsHonest, entries
  <2>6. Draining'
    BY <2>2 DEF Draining
  <2> QED BY <2>3, <2>4, <2>5, <2>6 DEF NodeInv
<1>4. CASE StopNext
  <2>1. PICK f : Matches(f) /\ (IsInjective(names) => LastFirst(f))
    BY <1>2, <1>4 DEF StopNext, Draining
  <2>2. order # <<>> /\ pc = "drain" /\ lc = "Shutdown"
    BY <1>2, <1>4 DEF StopNext, ByPhase
  <2>3. PICK v : v = Victim(Head(order))
    OBVIOUS
  <2>4. /\ v \in Running /\ names[v] = Head(order)
        /\ IsInjective(names) => v = f[1]
    BY <1>2, <2>1, <2>2, <2>3, VictimRuns
  <2>5. PICK ok \in BOOLEAN : /\ Fail(IF ok THEN 0 ELSE 1)
                              /\ up' = [up EXCEPT ![v] = ~ok]
                              /\ stuck' = [stuck EXCEPT ![v] = ~ok]
    BY <1>4, <2>3 DEF StopNext
  <2>6. /\ running' = [running EXCEPT ![v] = FALSE]
        /\ stopped' = Append(stopped, v) /\ order' = Tail(order)
        /\ UNCHANGED <<names, lc, pc, at, restarts, health, requested>>
    BY <1>4, <2>3 DEF StopNext
  <2>7. v \in Entry /\ running[v] /\ stopped \in Seq(Entry)
    BY <1>2, <2>4 DEF Running, StoppedOnce
  <2>8. ConfigOK'
    BY <1>0, <1>2, <2>2, <2>6 DEF ConfigOK
  <2>9. faults' \in 0..MaxFaults
    <3>1. PICK n \in Nat : n = IF ok THEN 0 ELSE 1
      OBVIOUS
    <3> QED BY <1>2, <2>5, <3>1, FailStaysInBound DEF TypeOK
  <2>10. TypeOK'
    BY <1>0, <1>2, <2>5, <2>6, <2>7, <2>9 DEF TypeOK
  <2>11. Supervised'
    BY <1>0, <1>2, <2>5, <2>6, <2>7 DEF Supervised, TypeOK
  <2>12. ByPhase' /\ Judged' /\ NodeStateIsHonest'
    BY <2>2, <2>6 DEF ByPhase, Judged, NodeStateIsHonest
  <2>13. Draining'
    BY <1>2, <2>1, <2>2, <2>4, <2>6, <2>7, StopKeepsMatching DEF Draining
  <2>14. StoppedOnce'
    <3>1. PICK n \in Nat : n = Len(stopped)
      BY <2>7
    <3>2. /\ stopped' \in Seq(Entry) /\ Len(stopped') = n + 1 /\ stopped'[n + 1] = v
          /\ \A k \in 1..n : stopped'[k] = stopped[k] /\ stopped[k] \in Entry
          /\ DOMAIN stopped = 1..n /\ DOMAIN stopped' = 1..(n + 1)
      BY <2>6, <2>7, <3>1
    <3>3. \A k \in 1..n : ~running[stopped[k]] /\ stopped[k] # v
      BY <1>2, <2>7, <3>1 DEF StoppedOnce
    <3>4. \A k \in 1..(n + 1) : ~running'[stopped'[k]]
      <4> SUFFICES ASSUME NEW k \in 1..(n + 1) PROVE ~running'[stopped'[k]]
        OBVIOUS
      <4>1. CASE k \in 1..n
        BY <1>2, <2>6, <3>2, <3>3, <4>1 DEF TypeOK
      <4>2. CASE k = n + 1
        BY <1>2, <2>6, <2>7, <3>2, <4>2 DEF TypeOK
      <4> QED BY <4>1, <4>2
    <3>5. IsInjective(stopped')
      <4> SUFFICES ASSUME NEW a \in 1..(n + 1), NEW b \in 1..(n + 1),
                          stopped'[a] = stopped'[b]
                   PROVE  a = b
        BY <3>2 DEF IsInjective
      <4>1. \A c, d \in 1..n : stopped[c] = stopped[d] => c = d
        BY <1>2, <3>2 DEF StoppedOnce, IsInjective
      <4>2. (a \in 1..n \/ a = n + 1) /\ (b \in 1..n \/ b = n + 1)
        OBVIOUS
      <4> QED BY <3>2, <3>3, <4>1, <4>2
    <3>6. ASSUME IsInjective(names) PROVE ReverseOrder'
      <4>1. \A k \in 1..n : stopped[k] > v
        <5>1. 1 \in 1..Len(order)
          BY <1>2, <2>2 DEF ConfigOK
        <5> QED BY <2>1, <2>4, <3>1, <3>6, <5>1 DEF LastFirst
      <4>2. \A a, b \in 1..n : a < b => stopped[a] > stopped[b]
        BY <1>2, <3>2, <3>6 DEF StoppedOnce, ReverseOrder
      <4>3. ASSUME NEW a \in 1..(n + 1), NEW b \in 1..(n + 1), a < b
            PROVE  stopped'[a] > stopped'[b]
        <5>1. a \in 1..n /\ (b \in 1..n \/ b = n + 1)
          BY <4>3
        <5> QED BY <3>2, <4>1, <4>2, <4>3, <5>1
      <4> QED BY <3>2, <4>3 DEF ReverseOrder
    <3> QED BY <1>0, <3>2, <3>4, <3>5, <3>6 DEF StoppedOnce
  <2> QED BY <2>8, <2>10, <2>11, <2>12, <2>13, <2>14 DEF NodeInv
<1>5. CASE EndShutdown
  <2>1. /\ pc = "drain" /\ order = <<>> /\ pc' = "exit" /\ lc' = "Stopped"
        /\ UNCHANGED <<names, at, entries, requested, order, stopped, faults>>
    BY <1>2, <1>5, LegalTransitions DEF EndShutdown, ByPhase
  <2>2. \A i \in Entry : ~running[i]
    <3>1. PICK f : Matches(f)
      BY <1>2, <2>1 DEF Draining
    <3>2. Running = {}
      BY <2>1, <3>1 DEF Matches
    <3> QED BY <3>2 DEF Running
  <2>3. ConfigOK' /\ TypeOK'
    BY <1>0, <1>2, <2>1 DEF ConfigOK, TypeOK, entries
  <2>4. ByPhase' /\ Supervised' /\ Judged' /\ NodeStateIsHonest' /\ Draining'
    BY <1>0, <1>2, <2>1, <2>2
       DEF ByPhase, Supervised, Judged, NodeStateIsHonest, Draining, entries
  <2>5. StoppedOnce'
    BY <1>0, <1>2, <2>1 DEF StoppedOnce, ReverseOrder, entries
  <2> QED BY <2>3, <2>4, <2>5 DEF NodeInv
<1>6. CASE Signal
  <2>1. /\ requested' = TRUE
        /\ UNCHANGED <<names, lc, pc, at, entries, order, stopped, faults>>
    BY <1>6 DEF Signal
  <2>2. ConfigOK' /\ TypeOK'
    BY <1>0, <1>2, <2>1 DEF ConfigOK, TypeOK, entries
  <2>3. ByPhase' /\ Supervised' /\ Judged' /\ NodeStateIsHonest'
    BY <1>0, <1>2, <2>1 DEF ByPhase, Supervised, Judged, NodeStateIsHonest, entries
  <2>4. Draining' /\ StoppedOnce'
    BY <1>0, <1>2, <2>1
       DEF Draining, Matches, LastFirst, Running, StoppedOnce, ReverseOrder, entries
  <2> QED BY <2>2, <2>3, <2>4 DEF NodeInv
<1> QED BY <1>3, <1>4, <1>5, <1>6

LEMMA NodeInvariance == Init /\ [][Next]_vars => []NodeInv
<1>1. Init => NodeInv
  <2> SUFFICES ASSUME Init PROVE NodeInv
    OBVIOUS
  <2>1. names \in Configs
    BY DEF Init
  <2>2. Len(names) \in Nat \ {0} /\ Entry = 1..Len(names)
    BY <2>1, Entries
  <2>3. ConfigOK
    BY <2>1 DEF Init, ConfigOK
  <2>4. TypeOK
    <3>1. lc = "Boot" /\ pc = "boot" /\ at \in 1..Len(names) + 1 /\ faults \in 0..MaxFaults
      BY <2>2, LegalTransitions, ConfigAssumption DEF Init
    <3>2. 0 \in 0..MaxRestarts
      BY ConfigAssumption
    <3>3. /\ running \in [Entry -> BOOLEAN] /\ up \in [Entry -> BOOLEAN]
          /\ stuck \in [Entry -> BOOLEAN] /\ requested \in BOOLEAN
      BY DEF Init
    <3>4. /\ restarts \in [Entry -> 0..MaxRestarts]
          /\ health \in [Entry -> {"Healthy", "Degraded", "Unhealthy"}]
      BY <3>2 DEF Init
    <3> QED BY <3>1, <3>3, <3>4 DEF TypeOK
  <2>5. ByPhase /\ Supervised /\ Judged /\ NodeStateIsHonest /\ Draining
    BY <2>2, LegalTransitions
       DEF Init, ByPhase, Supervised, Judged, NodeStateIsHonest, Draining
  <2>6. StoppedOnce
    BY NothingStopped DEF Init
  <2> QED BY <2>3, <2>4, <2>5, <2>6 DEF NodeInv
<1>2. NodeInv /\ [Next]_vars => NodeInv'
  <2> SUFFICES ASSUME NodeInv, [Next]_vars PROVE NodeInv'
    OBVIOUS
  <2>1. CASE UNCHANGED vars
    <3>1. /\ UNCHANGED <<names, lc, pc, at, running, restarts, health, up, stuck,
                         requested, order, stopped, faults>>
          /\ Entry' = Entry /\ Running' = Running
      BY <2>1 DEF vars, entries, Entry, Running
    <3>2. ConfigOK' /\ TypeOK'
      BY <3>1 DEF NodeInv, ConfigOK, TypeOK
    <3>3. ByPhase' /\ Supervised' /\ Judged' /\ NodeStateIsHonest'
      BY <3>1 DEF NodeInv, ByPhase, Supervised, Judged, NodeStateIsHonest
    <3>4. Draining'
      BY <3>1 DEF NodeInv, Draining, Matches, LastFirst
    <3>5. StoppedOnce'
      BY <3>1 DEF NodeInv, StoppedOnce, ReverseOrder
    <3> QED BY <3>2, <3>3, <3>4, <3>5 DEF NodeInv
  <2> QED BY <2>1, BootSteps, LoopSteps, DrainSteps DEF Next, DaemonStep
<1> QED BY <1>1, <1>2, PTL

\* The daemon's fields keep their types: in particular no subsystem is
\* restarted more often than max_restarts, and a tick never leaves the
\* entries, for every configuration, also one that lists a name twice.
THEOREM DaemonTypeCorrect == Spec => []TypeOK
<1>1. NodeInv => TypeOK
  BY DEF NodeInv
<1> QED BY <1>1, NodeInvariance, PTL DEF Spec

\* However the daemon ends, it ends in Stopped and every subsystem that is
\* still up refused its last stop: the rollback of a failed start_all, the
\* restarts of tick_all and shutdown_all leave none behind.
THEOREM NothingIsLeftUp == Spec => []NothingLeftUp
<1>1. NodeInv => NothingLeftUp
  BY DEF NodeInv, ByPhase, Supervised, NothingLeftUp
<1> QED BY <1>1, NodeInvariance, PTL DEF Spec

\* Between ticks the node's reported state is that of its subsystems: what
\* run() makes of the overall health of tick_all does not go stale.
THEOREM NodeReportsItsState == Spec => []NodeStateIsHonest
<1>1. NodeInv => NodeStateIsHonest
  BY DEF NodeInv
<1> QED BY <1>1, NodeInvariance, PTL DEF Spec

\* shutdown_all stops every running entry, each once, and in the reverse
\* of the start order unless a subsystem is configured twice.
THEOREM DrainStopsAll == Spec => []DrainIsComplete
<1>1. NodeInv => DrainIsComplete
  BY DEF NodeInv, ByPhase, StoppedOnce, DrainIsComplete, TypeOK
<1> QED BY <1>1, NodeInvariance, PTL DEF Spec

-----------------------------------------------------------------------------
(* The daemon and its log side by side, as the run composes them.          *)

\* Neither the daemon nor its log depends on the steps of the other: both
\* keep their types (supervisor.rs, lifecycle.rs, audit.rs).
THEOREM NodeTypesHold == NodeSpec => []NodeTypeOK
<1>1. NodeInit => Init /\ AuditInit
  BY DEF NodeInit
<1>2. [NodeNext]_<<part, vars, audit>> => [Next]_vars /\ [AuditNext]_audit
  BY DEF NodeNext
<1>3. NodeInv /\ AuditTypeOK => NodeTypeOK
  BY DEF NodeInv, NodeTypeOK
<1> QED BY <1>1, <1>2, <1>3, NodeInvariance, AuditTypeCorrect, PTL DEF NodeSpec, AuditSpec
=============================================================================
