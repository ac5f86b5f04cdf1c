--------------------------- MODULE InMemoryProofs ---------------------------
(***************************************************************************)
(* Proofs about the components that keep their state in memory only: the   *)
(* runtime, the health layer, the AI runtime, the package manager, the     *)
(* boot of most of them, and all of them together.                         *)
(*                                                                         *)
(* For every number of sandboxes, capabilities, amounts and registrations  *)
(* nobody starves and no quota is exceeded as long as no sum of a quota    *)
(* and an amount leaves the range of u64.  The watchdog's judgement is     *)
(* exact for any services, tolerances and width of the integers, and what  *)
(* nodes hold of each other's observations is the newest that reached      *)
(* them.  For all agents, message types, proposals and models: the         *)
(* receipts of the gateway, the audit trail of the proposals, what the     *)
(* verified cache serves and the order it keeps its entries in; and for    *)
(* any packages, versions and dependencies, that the resolver's plan is    *)
(* sound and its error has a cause.                                        *)
(***************************************************************************)
EXTENDS MCInMemory, StateStoreLemmas, FiniteSetTheorems, SequenceTheorems, TLAPS
-----------------------------------------------------------------------------
(* The scheduler.  NobodyStarves is not inductive: how long a place may    *)
(* have waited depends on how far it is from the cursor, which InTurn      *)
(* says.                                                                   *)

\* Turns until place i has its turn, plus those it has waited, stay below
\* the number of registrations.
InTurn ==
    \A i \in 1..Len(order) :
        IF i <= cursor THEN waits[i] + i <= cursor
                       ELSE waits[i] + (i - 1 - cursor) < Len(order)

ScheduleInv == ScheduleTypeOK /\ InTurn

\* No sandbox is registered at the start (SandboxScheduler::new).
LEMMA InitScheduleInv == SchedulerInit => ScheduleInv
  BY DEF SchedulerInit, ScheduleInv, ScheduleTypeOK, InTurn

\* register puts a sandbox at the end of the order: whoever waits, waits on.
LEMMA RegisterScheduleInv ==
    ASSUME ScheduleInv, NEW id \in Ids, Enlist(id)
    PROVE  ScheduleInv'
<1> USE DEF ScheduleInv
<1>1. /\ Len(order') = Len(order) + 1 /\ Len(waits') = Len(waits) + 1
      /\ order' \in Seq(Ids) /\ waits' \in Seq(Nat) /\ order' # <<>>
  BY DEF Enlist, ScheduleTypeOK
<1>2. ScheduleTypeOK'
  BY <1>1 DEF Enlist, ScheduleTypeOK
<1>3. ASSUME NEW i \in 1..Len(order')
      PROVE  IF i <= cursor' THEN waits'[i] + i <= cursor'
                             ELSE waits'[i] + (i - 1 - cursor') < Len(order')
  <2>1. CASE i \in 1..Len(order)
    BY <2>1, <1>1 DEF Enlist, ScheduleTypeOK, InTurn
  <2>2. CASE i = Len(order) + 1
    BY <2>2, <1>1 DEF Enlist, ScheduleTypeOK
  <2> QED BY <2>1, <2>2, <1>1 DEF ScheduleTypeOK
<1> QED BY <1>2, <1>3 DEF InTurn

\* next moves the cursor on by one place, round the end of the order.
LEMMA NextTurnScheduleInv ==
    ASSUME ScheduleInv, NextTurn
    PROVE  ScheduleInv'
<1> USE DEF ScheduleInv
<1>1. /\ Len(order) \in Nat \ {0} /\ cursor \in 0..Len(order) - 1
      /\ cursor % Len(order) = cursor /\ Turn = cursor + 1
  <2>1. Len(order) \in Nat \ {0} /\ cursor \in 0..Len(order) - 1
    BY EmptySeq DEF NextTurn, ScheduleTypeOK
  <2>2. cursor % Len(order) = cursor
    BY <2>1
  <2> QED BY <2>1, <2>2 DEF Turn
<1>2. cursor' = IF cursor + 1 = Len(order) THEN 0 ELSE cursor + 1
  BY <1>1 DEF NextTurn, Advance
<1>3. /\ waits' \in Seq(Nat) /\ Len(waits') = Len(order) /\ order' = order
      /\ \A i \in 1..Len(order) :
             waits'[i] = IF i = cursor + 1 THEN 0 ELSE waits[i] + 1
  BY <1>1 DEF NextTurn, ScheduleTypeOK
<1>4. ScheduleTypeOK'
  BY <1>1, <1>2, <1>3 DEF ScheduleTypeOK, NextTurn
<1>5. InTurn'
  <2> SUFFICES ASSUME NEW i \in 1..Len(order)
               PROVE  IF i <= cursor' THEN waits'[i] + i <= cursor'
                      ELSE waits'[i] + (i - 1 - cursor') < Len(order)
    BY <1>3 DEF InTurn
  <2>1. waits[i] \in Nat /\ waits'[i] \in Nat
    BY <1>3 DEF ScheduleTypeOK
  <2>2. IF i <= cursor THEN waits[i] + i <= cursor
                       ELSE waits[i] + (i - 1 - cursor) < Len(order)
    BY DEF InTurn
  <2>3. waits'[i] = IF i = cursor + 1 THEN 0 ELSE waits[i] + 1
    BY <1>3
  <2>4. CASE i = cursor + 1
    BY <2>3, <2>4, <1>1, <1>2
  <2>5. CASE i <= cursor
    <3>1. waits[i] + i <= cursor /\ waits'[i] = waits[i] + 1
      BY <2>1, <2>2, <2>3, <2>5, <1>1
    <3>2. CASE cursor' = 0 /\ cursor + 1 = Len(order)
      BY <3>1, <3>2, <2>1, <2>5, <1>1
    <3>3. CASE cursor' = cursor + 1
      BY <3>1, <3>3, <2>1, <2>5, <1>1
    <3> QED BY <3>2, <3>3, <1>2
  <2>6. CASE i > cursor + 1
    BY <2>1, <2>2, <2>3, <2>6, <1>1, <1>2
  <2> QED BY <2>4, <2>5, <2>6, <1>1
<1> QED BY <1>4, <1>5

\* The scheduler's inductive invariant.
LEMMA Invariance == SchedulerSpec => []ScheduleInv
<1>1. ScheduleInv /\ [SchedulerNext]_schedule => ScheduleInv'
  <2> SUFFICES ASSUME ScheduleInv, [SchedulerNext]_schedule PROVE ScheduleInv'
    OBVIOUS
  <2>1. CASE UNCHANGED schedule
    BY <2>1 DEF schedule, ScheduleInv, ScheduleTypeOK, InTurn
  <2> QED BY <2>1, RegisterScheduleInv, NextTurnScheduleInv DEF SchedulerNext
<1> QED BY <1>1, InitScheduleInv, PTL DEF SchedulerSpec

\* The cursor of scheduler.rs always points into the vector.
THEOREM ScheduleTypeCorrect == SchedulerSpec => []ScheduleTypeOK
  BY Invariance, PTL DEF ScheduleInv

\* No registration waits for as many turns as there are registrations.
THEOREM RoundRobin == SchedulerSpec => []NobodyStarves
<1>1. ScheduleInv => NobodyStarves
  BY DEF ScheduleInv, ScheduleTypeOK, InTurn, NobodyStarves
<1> QED BY <1>1, Invariance, PTL

-----------------------------------------------------------------------------
(* Sandboxes.  A counter is what was granted, less a multiple of 2^64.     *)

\* What a counter says of what was granted.
Books(used, total, limit) ==
    used <= limit /\ \E n \in Nat : total = used + n * UsageModulus

BookedIsGranted ==
    \A s \in Sandboxes, q \in Quotas :
        Books(usage[s][q], granted[s][q], capability[s].limit[q])

QuotaInv == SandboxTypeOK /\ BookedIsGranted

\* Multiples of a positive number.
LEMMA Multiples ==
    ASSUME NEW m \in Nat \ {0}, NEW n \in Nat
    PROVE  /\ n * m \in Nat /\ n <= n * m /\ (n + 1) * m = n * m + m
           /\ n # 0 => m <= n * m
<1>1. n * m \in Nat
  OBVIOUS
<1>2. n <= n * m
  OBVIOUS
<1>3. (n + 1) * m = n * m + m
  OBVIOUS
<1>4. ASSUME n # 0 PROVE m <= n * m
  BY <1>4
<1> QED BY <1>1, <1>2, <1>3, <1>4

\* A wrapped sum is in the range of u64, and the sum itself if that fits.
LEMMA PlusType ==
    ASSUME NEW a \in 0..UsageModulus - 1, NEW b \in 0..UsageModulus - 1
    PROVE  /\ Plus(a, b) \in 0..UsageModulus - 1
           /\ a + b < UsageModulus => Plus(a, b) = a + b
           /\ a + b >= UsageModulus => Plus(a, b) = a + b - UsageModulus
<1>1. UsageModulus \in Nat \ {0}
  BY RuntimeAssumption
<1>2. PICK c \in Nat : c = a + b
  BY <1>1
<1>3. c % UsageModulus \in 0..UsageModulus - 1
  BY <1>1
<1>4. c < UsageModulus => c % UsageModulus = c
  BY <1>1
<1>5. c >= UsageModulus => c % UsageModulus = c - UsageModulus
  <2> SUFFICES ASSUME c >= UsageModulus PROVE c % UsageModulus = c - UsageModulus
    OBVIOUS
  <2>1. c < 2 * UsageModulus
    BY <1>1, <1>2
  <2> QED BY <1>1, <2>1
<1> QED BY <1>1, <1>2, <1>3, <1>4, <1>5 DEF Plus

\* Limits and amounts are u64.
LEMMA QuotaTypes ==
    ASSUME SandboxTypeOK, NEW s \in Sandboxes
    PROVE  /\ \A q \in Quotas : capability[s].limit[q] \in 0..UsageModulus - 1
           /\ \A r \in Quotas \cup Directions : usage[s][r] \in 0..UsageModulus - 1
           /\ \A q \in Quotas : granted[s][q] \in Int
           /\ capability[s] \in Capabilities
<1>1. capability[s] \in CapabilitySet /\ capability[s] \in Capabilities
  BY RuntimeAssumption DEF SandboxTypeOK
<1>2. capability[s].limit \in [Quotas -> 0..UsageModulus - 1]
  BY <1>1 DEF CapabilitySet
<1>3. usage[s] \in [Quotas \cup Directions -> 0..UsageModulus - 1]
      /\ granted[s] \in [Quotas -> Int]
  BY DEF SandboxTypeOK, ResourceUsage
<1> QED BY <1>1, <1>2, <1>3

\* The counters stay in the range of u64, whatever is booked.
LEMMA SandboxTypeStep == SandboxTypeOK /\ [SandboxNext]_sandboxes => SandboxTypeOK'
<1> SUFFICES ASSUME SandboxTypeOK, [SandboxNext]_sandboxes PROVE SandboxTypeOK'
  OBVIOUS
<1>0. /\ UsageModulus \in Nat \ {0} /\ Amounts \subseteq 0..UsageModulus - 1
      /\ usage \in [Sandboxes -> [Quotas \cup Directions -> 0..UsageModulus - 1]]
      /\ granted \in [Sandboxes -> [Quotas -> Int]]
      /\ capability \in [Sandboxes -> Capabilities]
  BY RuntimeAssumption DEF SandboxTypeOK, ResourceUsage
<1>1. ASSUME NEW s \in Sandboxes, NEW q \in Quotas, NEW a \in Amounts, Consume(s, q, a)
      PROVE  SandboxTypeOK'
  <2>1. Plus(usage[s][q], a) \in 0..UsageModulus - 1
    BY <1>0, PlusType
  <2>2. usage' \in [Sandboxes -> [Quotas \cup Directions -> 0..UsageModulus - 1]]
    BY <1>0, <1>1, <2>1 DEF Consume
  <2>3. granted' \in [Sandboxes -> [Quotas -> Int]]
    <3>1. granted[s][q] + a \in Int
      BY <1>0
    <3> QED BY <1>0, <1>1, <3>1 DEF Consume
  <2> QED BY <1>0, <1>1, <2>2, <2>3 DEF Consume, SandboxTypeOK, ResourceUsage
<1>2. ASSUME NEW s \in Sandboxes, NEW a \in Amounts, Free(s, a) PROVE SandboxTypeOK'
  <2>0. "memory" \in Quotas
    BY DEF Quotas
  <2>1. usage[s]["memory"] - a \in 0..UsageModulus - 1
    <3>1. usage[s]["memory"] \in 0..UsageModulus - 1 /\ a \in 0..UsageModulus - 1
      BY <1>0, <2>0
    <3> QED BY <1>0, <1>2, <3>1 DEF Free
  <2>2. usage' \in [Sandboxes -> [Quotas \cup Directions -> 0..UsageModulus - 1]]
    BY <1>0, <1>2, <2>0, <2>1 DEF Free
  <2>3. granted' \in [Sandboxes -> [Quotas -> Int]]
    <3>1. granted[s]["memory"] - a \in Int
      BY <1>0, <2>0
    <3> QED BY <1>0, <1>2, <2>0, <3>1 DEF Free
  <2> QED BY <1>0, <1>2, <2>2, <2>3 DEF Free, SandboxTypeOK, ResourceUsage
<1>3. ASSUME NEW s \in Sandboxes, NEW d \in Directions, NEW p \in Ports, NEW a \in Amounts,
             Network(s, d, p, a)
      PROVE  SandboxTypeOK'
  <2>1. Plus(usage[s][d], a) \in 0..UsageModulus - 1
    BY <1>0, PlusType
  <2>2. usage' \in [Sandboxes -> [Quotas \cup Directions -> 0..UsageModulus - 1]]
    BY <1>0, <1>3, <2>1 DEF Network
  <2> QED BY <1>0, <1>3, <2>2 DEF Network, SandboxTypeOK, ResourceUsage
<1>4. CASE ResetTick
  <2>0. "cpu" \in Quotas /\ 0 \in 0..UsageModulus - 1
    BY <1>0 DEF Quotas
  <2>1. usage' \in [Sandboxes -> [Quotas \cup Directions -> 0..UsageModulus - 1]]
    BY <1>0, <1>4, <2>0 DEF ResetTick
  <2>2. granted' \in [Sandboxes -> [Quotas -> Int]]
    BY <1>0, <1>4, <2>0 DEF ResetTick
  <2> QED BY <1>0, <1>4, <2>1, <2>2 DEF ResetTick, SandboxTypeOK, ResourceUsage
<1>5. CASE UNCHANGED sandboxes
  BY <1>5 DEF sandboxes, SandboxTypeOK
<1> QED BY <1>1, <1>2, <1>3, <1>4, <1>5 DEF SandboxNext

\* A new sandbox has used nothing.
LEMMA SandboxTypeInit == SandboxInit => SandboxTypeOK
<1> SUFFICES ASSUME SandboxInit PROVE SandboxTypeOK
  OBVIOUS
<1>1. 0 \in 0..UsageModulus - 1
  BY RuntimeAssumption
<1>2. usage \in [Sandboxes -> [Quotas \cup Directions -> 0..UsageModulus - 1]]
  BY <1>1 DEF SandboxInit
<1>3. granted \in [Sandboxes -> [Quotas -> Int]]
  BY DEF SandboxInit
<1>4. capability \in [Sandboxes -> Capabilities]
  BY DEF SandboxInit
<1> QED BY <1>2, <1>3, <1>4 DEF SandboxTypeOK, ResourceUsage

\* The ResourceManager's counters are u64 values, even where a sum wraps.
THEOREM CountersStayInRange == SandboxSpec => []SandboxTypeOK
  BY SandboxTypeInit, SandboxTypeStep, PTL DEF SandboxSpec

\* What is booked and what is granted grow together, also when a sum wraps.
LEMMA BooksConsume ==
    ASSUME NEW used \in 0..UsageModulus - 1, NEW total \in Int, NEW limit \in 0..UsageModulus - 1,
           NEW a \in 0..UsageModulus - 1, Books(used, total, limit), Fits(used, a, limit)
    PROVE  Books(Plus(used, a), total + a, limit)
<1>1. PICK n \in Nat : total = used + n * UsageModulus
  BY DEF Books
<1>2. UsageModulus \in Nat \ {0}
  BY RuntimeAssumption
<1>3. PICK m \in Nat, up \in Nat : m = n * UsageModulus /\ up = (n + 1) * UsageModulus
                                   /\ up = m + UsageModulus
  BY <1>2, Multiples
<1>4. CASE used + a < UsageModulus
  <2>1. Plus(used, a) = used + a
    BY <1>4, PlusType
  <2>2. total + a = Plus(used, a) + n * UsageModulus
    BY <1>1, <1>3, <2>1, <1>2
  <2> QED BY <2>2 DEF Books, Fits
<1>5. CASE used + a >= UsageModulus
  <2>1. Plus(used, a) = used + a - UsageModulus
    BY <1>5, PlusType
  <2>2. total + a = Plus(used, a) + (n + 1) * UsageModulus
    BY <1>1, <1>3, <2>1, <1>2
  <2>3. n + 1 \in Nat
    OBVIOUS
  <2> QED BY <2>2, <2>3 DEF Books, Fits
<1> QED BY <1>2, <1>4, <1>5

\* What is freed goes from both; free takes no more than is booked.
LEMMA BooksFree ==
    ASSUME NEW used \in 0..UsageModulus - 1, NEW total \in Int, NEW limit \in 0..UsageModulus - 1,
           NEW a \in 0..UsageModulus - 1, Books(used, total, limit)
    PROVE  Books(used - a, total - a, limit)
<1>1. PICK n \in Nat : total = used + n * UsageModulus
  BY DEF Books
<1>2. UsageModulus \in Nat \ {0}
  BY RuntimeAssumption
<1>3. PICK m \in Nat : m = n * UsageModulus
  BY <1>2, Multiples
<1>4. total - a = (used - a) + n * UsageModulus
  BY <1>1, <1>2, <1>3
<1>5. used - a <= limit
  BY <1>2 DEF Books
<1> QED BY <1>4, <1>5 DEF Books

\* A counter at zero has nothing granted.
LEMMA BooksNothing ==
    ASSUME NEW limit \in 0..UsageModulus - 1 PROVE Books(0, 0, limit)
<1>1. UsageModulus \in Nat \ {0}
  BY RuntimeAssumption
<1>2. 0 = 0 + 0 * UsageModulus /\ 0 <= limit
  BY <1>1
<1> QED BY <1>2 DEF Books

\* Every operation books what it grants.
LEMMA BookedStep ==
    ASSUME QuotaInv, [SandboxNext]_sandboxes
    PROVE  BookedIsGranted'
<1>0. /\ SandboxTypeOK /\ BookedIsGranted
      /\ UsageModulus \in Nat \ {0} /\ Amounts \subseteq 0..UsageModulus - 1
      /\ usage \in [Sandboxes -> [Quotas \cup Directions -> 0..UsageModulus - 1]]
      /\ granted \in [Sandboxes -> [Quotas -> Int]]
  BY RuntimeAssumption DEF QuotaInv, SandboxTypeOK, ResourceUsage
<1> SUFFICES ASSUME NEW s \in Sandboxes, NEW q \in Quotas
             PROVE  Books(usage'[s][q], granted'[s][q], capability'[s].limit[q])
  BY DEF BookedIsGranted
<1> DEFINE limit == capability[s].limit[q]
<1>b. /\ Books(usage[s][q], granted[s][q], limit)
      /\ usage[s][q] \in 0..UsageModulus - 1 /\ limit \in 0..UsageModulus - 1
      /\ granted[s][q] \in Int
  BY <1>0, QuotaTypes DEF BookedIsGranted
<1>1. ASSUME NEW r \in Sandboxes, NEW p \in Quotas, NEW a \in Amounts, Consume(r, p, a)
      PROVE  Books(usage'[s][q], granted'[s][q], limit)
  <2>1. CASE r = s /\ p = q
    <3>1. usage'[s][q] = Plus(usage[s][q], a) /\ granted'[s][q] = granted[s][q] + a
      BY <1>0, <1>1, <2>1 DEF Consume
    <3>2. Fits(usage[s][q], a, limit)
      BY <1>1, <2>1 DEF Consume
    <3>3. a \in 0..UsageModulus - 1
      BY <1>0
    <3>4. Books(Plus(usage[s][q], a), granted[s][q] + a, limit)
      BY <1>b, <3>2, <3>3, BooksConsume
    <3> QED BY <3>1, <3>4
  <2>2. CASE ~(r = s /\ p = q)
    <3>1. usage'[s][q] = usage[s][q] /\ granted'[s][q] = granted[s][q]
      BY <1>0, <1>1, <2>2 DEF Consume
    <3> QED BY <3>1, <1>b
  <2> QED BY <2>1, <2>2
<1>2. ASSUME NEW r \in Sandboxes, NEW a \in Amounts, Free(r, a)
      PROVE  Books(usage'[s][q], granted'[s][q], limit)
  <2>1. CASE r = s /\ q = "memory"
    <3>1. /\ usage'[s][q] = usage[s][q] - a
          /\ granted'[s][q] = granted[s][q] - a
      BY <1>0, <1>2, <2>1 DEF Free
    <3>2. a \in 0..UsageModulus - 1
      BY <1>0
    <3>3. Books(usage[s][q] - a, granted[s][q] - a, limit)
      BY <1>b, <3>2, BooksFree
    <3> QED BY <3>1, <3>3
  <2>2. CASE ~(r = s /\ q = "memory")
    <3>1. usage'[s][q] = usage[s][q] /\ granted'[s][q] = granted[s][q]
      BY <1>0, <1>2, <2>2 DEF Free
    <3> QED BY <3>1, <1>b
  <2> QED BY <2>1, <2>2
<1>3. ASSUME NEW r \in Sandboxes, NEW d \in Directions, NEW p \in Ports, NEW a \in Amounts,
             Network(r, d, p, a)
      PROVE  Books(usage'[s][q], granted'[s][q], limit)
  <2>1. q # d
    BY DEF Quotas, Directions
  <2>2. usage'[s][q] = usage[s][q] /\ granted'[s][q] = granted[s][q]
    BY <1>0, <1>3, <2>1 DEF Network
  <2> QED BY <2>2, <1>b
<1>4. ASSUME ResetTick
      PROVE  Books(usage'[s][q], granted'[s][q], limit)
  <2>1. CASE q = "cpu"
    <3>1. usage'[s][q] = 0 /\ granted'[s][q] = 0
      BY <1>0, <1>4, <2>1 DEF ResetTick
    <3>2. Books(0, 0, limit)
      BY <1>b, BooksNothing
    <3> QED BY <3>1, <3>2
  <2>2. CASE q # "cpu"
    <3>1. usage'[s][q] = usage[s][q] /\ granted'[s][q] = granted[s][q]
      BY <1>0, <1>4, <2>2 DEF ResetTick
    <3> QED BY <3>1, <1>b
  <2> QED BY <2>1, <2>2
<1>5. ASSUME UNCHANGED sandboxes
      PROVE  Books(usage'[s][q], granted'[s][q], limit)
  BY <1>5, <1>b DEF sandboxes
<1>6. capability' = capability
  BY DEF SandboxNext, sandboxes, Consume, Free, Network, ResetTick
<1> QED BY <1>1, <1>2, <1>3, <1>4, <1>5, <1>6 DEF SandboxNext

\* What a sandbox was granted stays within its quota, for all quotas and
\* amounts, until a sum wraps: only by then being granted 2^64 or more does
\* it pass the check of resources.rs, whose counter stays below the limit
\* and forgets nothing but multiples of 2^64.
THEOREM QuotasHold == SandboxSpec => []QuotaRespected
<1>1. SandboxInit => QuotaInv
  <2> SUFFICES ASSUME SandboxInit PROVE BookedIsGranted
    BY SandboxTypeInit DEF QuotaInv
  <2> SUFFICES ASSUME NEW s \in Sandboxes, NEW q \in Quotas
               PROVE  Books(usage[s][q], granted[s][q], capability[s].limit[q])
    BY DEF BookedIsGranted
  <2>1. usage[s][q] = 0 /\ granted[s][q] = 0
    BY DEF SandboxInit
  <2>2. capability[s].limit[q] \in 0..UsageModulus - 1
    BY SandboxTypeInit, QuotaTypes
  <2>3. Books(0, 0, capability[s].limit[q])
    BY <2>2, BooksNothing
  <2> QED BY <2>1, <2>3
<1>2. QuotaInv /\ [SandboxNext]_sandboxes => QuotaInv'
  BY SandboxTypeStep, BookedStep DEF QuotaInv
<1>3. QuotaInv => QuotaRespected
  <2> SUFFICES ASSUME QuotaInv, NEW s \in Sandboxes, NEW q \in Quotas
               PROVE  /\ granted[s][q] \in 0..capability[s].limit[q]
                           \/ granted[s][q] >= UsageModulus
                      /\ usage[s][q] <= capability[s].limit[q]
                      /\ \E wraps \in 0..granted[s][q] :
                            granted[s][q] = usage[s][q] + wraps * UsageModulus
    BY DEF QuotaRespected
  <2>1. PICK used \in Nat, total \in Int, limit \in Nat :
            used = usage[s][q] /\ total = granted[s][q] /\ limit = capability[s].limit[q]
    BY QuotaTypes, RuntimeAssumption DEF QuotaInv
  <2>2. Books(used, total, limit)
    BY <2>1 DEF QuotaInv, BookedIsGranted
  <2>3. PICK n \in Nat : total = used + n * UsageModulus
    BY <2>2 DEF Books
  <2>4. UsageModulus \in Nat \ {0}
    BY RuntimeAssumption
  <2>5. PICK m \in Nat : m = n * UsageModulus /\ n <= m /\ (n # 0 => UsageModulus <= m)
    BY <2>4, Multiples
  <2>6. total = used + m /\ used <= limit
    BY <2>2, <2>3, <2>5 DEF Books
  <2>7. n \in 0..total
    BY <2>5, <2>6
  <2>8. total \in 0..limit \/ total >= UsageModulus
    <3>1. CASE n = 0
      <4>1. m = 0
        BY <2>4, <2>5, <3>1
      <4> QED BY <4>1, <2>6
    <3>2. CASE n # 0
      BY <3>2, <2>4, <2>5, <2>6
    <3> QED BY <3>1, <3>2
  <2> QED BY <2>1, <2>3, <2>6, <2>7, <2>8
<1> QED BY <1>1, <1>2, <1>3, PTL DEF SandboxSpec

-----------------------------------------------------------------------------
(* The watchdog.  StateIsExactBelowOverflow is inductive together with     *)
(* TypeOK: a state that was exact one tick ago is still exact, or is moved *)
(* by tick().                                                              *)

WatchdogInv == TypeOK /\ StateIsExactBelowOverflow

\* The sum of two tolerances that fit is not changed by the wrap.
LEMMA NoWrap ==
    ASSUME NEW a \in Nat, NEW m \in Nat, a < m
    PROVE  a % m = a
  OBVIOUS

\* One tick later, tick() makes of the exact state the exact state.
LEMMA JudgeIsExact ==
    ASSUME NEW t \in Tolerances, NEW missed \in Nat,
           t.stale_after + t.dead_after < Modulus
    PROVE  Judge(Expected(missed, t), missed + 1, t) = Expected(missed + 1, t)
  <1>1. t.stale_after \in Nat /\ t.dead_after \in Nat
    BY WidthAssumption
  <1>2. DeadLimit(t) = t.stale_after + t.dead_after
    BY <1>1, NoWrap, WidthAssumption DEF DeadLimit
  <1> QED
    BY <1>1, <1>2 DEF Judge, Expected

\* tick() leaves every field but the state alone.
LEMMA JudgeType ==
    ASSUME NEW e \in ServiceEntry, NEW now \in Nat
    PROVE  /\ JudgeAt(now, e) \in ServiceEntry
           /\ JudgeAt(now, e).last_heartbeat = e.last_heartbeat
           /\ JudgeAt(now, e).tolerance = e.tolerance
           /\ JudgeAt(now, e).restarts = e.restarts
           /\ JudgeAt(now, e).state =
                  Judge(e.state, now - e.last_heartbeat, e.tolerance)
  <1>1. Judge(e.state, now - e.last_heartbeat, e.tolerance) \in ServiceState
    BY DEF Judge, ServiceEntry, ServiceState
  <1> QED
    BY <1>1 DEF JudgeAt, ServiceEntry

\* No service is registered at the start (Watchdog::new).
LEMMA InitWatchdogInv == Init => WatchdogInv
  BY UnknownAssumption DEF Init, WatchdogInv, TypeOK, StateIsExactBelowOverflow, Registered

\* Every call of the watchdog leaves a judged state that its tick explains.
LEMMA NextWatchdogInv == WatchdogInv /\ [Next]_vars => WatchdogInv'
  <1> SUFFICES ASSUME WatchdogInv, [Next]_vars PROVE WatchdogInv'
    OBVIOUS
  <1> USE DEF WatchdogInv
  <1>t. \A s \in Registered :
            /\ services[s] \in ServiceEntry
            /\ services[s].tolerance \in Tolerances
            /\ services[s].last_heartbeat \in 0..now_tick
    BY DEF TypeOK, Registered, ServiceEntry
  <1>z. \A t \in Tolerances : t.stale_after \in Nat /\ t.dead_after \in Nat
    BY WidthAssumption
  <1>1. ASSUME NEW s \in Services, NEW t \in Tolerances, Register(s, t) PROVE WatchdogInv'
    <2> DEFINE e == [state |-> "Running", last_heartbeat |-> now_tick,
                     restarts |-> 0, tolerance |-> t]
    <2>1. e \in ServiceEntry
      BY DEF TypeOK, ServiceEntry, ServiceState
    <2>2. services' = [services EXCEPT ![s] = e] /\ now_tick' = now_tick
      BY <1>1 DEF Register
    <2>3. TypeOK'
      BY <2>1, <2>2, UnknownAssumption DEF TypeOK, Registered
    <2>4. \A r \in Registered' : r = s \/ (r \in Registered /\ services'[r] = services[r])
      BY <2>2 DEF Registered, TypeOK
    <2>5. services'[s] = e
      BY <2>2 DEF TypeOK
    <2>6. Expected(0, t) = "Running"
      BY <1>z DEF Expected
    <2> QED
      BY <2>2, <2>3, <2>4, <2>5, <2>6
      DEF StateIsExactBelowOverflow, Missed, TypeOK
  <1>2. ASSUME NEW s \in Services, Heartbeat(s) \/ Restart(s) PROVE WatchdogInv'
    <2>1. s \in Registered /\ now_tick' = now_tick
      BY <1>2 DEF Heartbeat, Restart
    <2>2. PICK n \in Nat : services' = [services EXCEPT ![s] =
              [services[s] EXCEPT !.state = "Running", !.last_heartbeat = now_tick,
                                  !.restarts = n]]
      <3>1. services[s].restarts \in Nat
        BY <1>t, <2>1 DEF ServiceEntry
      <3>2. CASE Heartbeat(s)
        <4>1. services' = [services EXCEPT ![s] =
                  [services[s] EXCEPT !.state = "Running", !.last_heartbeat = now_tick,
                                      !.restarts = services[s].restarts]]
          BY <3>2, <1>t, <2>1 DEF Heartbeat, TypeOK, ServiceEntry
        <4> WITNESS services[s].restarts \in Nat
        <4> QED BY <4>1
      <3>3. CASE Restart(s)
        <4>1. services' = [services EXCEPT ![s] =
                  [services[s] EXCEPT !.state = "Running", !.last_heartbeat = now_tick,
                                      !.restarts = services[s].restarts + 1]]
          BY <3>3, <1>t, <2>1 DEF Restart, TypeOK, ServiceEntry
        <4>2. services[s].restarts + 1 \in Nat
          BY <3>1
        <4> WITNESS services[s].restarts + 1 \in Nat
        <4> QED BY <4>1
      <3> QED BY <1>2, <3>2, <3>3
    <2> DEFINE e == [services[s] EXCEPT !.state = "Running", !.last_heartbeat = now_tick,
                                        !.restarts = n]
    <2>3. /\ e \in ServiceEntry /\ e.state = "Running"
          /\ e.last_heartbeat = now_tick /\ e.tolerance = services[s].tolerance
      BY <1>t, <2>1 DEF TypeOK, ServiceEntry, ServiceState
    <2>4. services'[s] = e
      BY <2>2 DEF TypeOK
    <2>5. \A r \in Services \ {s} : services'[r] = services[r]
      BY <2>2 DEF TypeOK
    <2> HIDE DEF e
    <2>6. TypeOK'
      BY <2>1, <2>2, <2>3, <2>4, <2>5 DEF TypeOK, Registered, e
    <2>7. Expected(0, e.tolerance) = "Running"
      BY <1>t, <1>z, <2>1, <2>3 DEF Expected
    <2>8. \A r \in Registered' : r = s \/ (r \in Registered /\ services'[r] = services[r])
      BY <2>5 DEF Registered
    <2> QED
      BY <2>1, <2>3, <2>4, <2>6, <2>7, <2>8
      DEF StateIsExactBelowOverflow, Missed, TypeOK
  <1>3. ASSUME Tick PROVE WatchdogInv'
    <2>1. now_tick' = now_tick + 1 /\ now_tick \in Nat
      BY <1>3 DEF Tick, TypeOK
    <2>2. \A s \in Registered : services'[s] = JudgeAt(now_tick + 1, services[s])
      BY <1>3 DEF Tick, Registered
    <2>3. Registered' = Registered /\ services' \in [Services -> ServiceEntry \cup {Unknown}]
      BY <1>3, <1>t, <2>1, JudgeType, UnknownAssumption DEF Tick, Registered
    <2>4. TypeOK'
      BY <1>t, <2>1, <2>2, <2>3, JudgeType DEF TypeOK
    <2>5. StateIsExactBelowOverflow'
      <3> SUFFICES ASSUME NEW s \in Registered,
                          services'[s].tolerance.stale_after
                              + services'[s].tolerance.dead_after < Modulus
                   PROVE  services'[s].state = Expected(Missed(s)', services'[s].tolerance)
        BY <2>3 DEF StateIsExactBelowOverflow
      <3> DEFINE t == services[s].tolerance
      <3>0. PICK n \in Nat : n = now_tick + 1
        BY <2>1
      <3>1. /\ services'[s].tolerance = t
            /\ services'[s].last_heartbeat = services[s].last_heartbeat
            /\ services'[s].state =
                   Judge(services[s].state, n - services[s].last_heartbeat, t)
        <4>1. services'[s] = JudgeAt(n, services[s])
          BY <2>2, <3>0
        <4>2. /\ JudgeAt(n, services[s]).tolerance = t
              /\ JudgeAt(n, services[s]).last_heartbeat = services[s].last_heartbeat
              /\ JudgeAt(n, services[s]).state =
                     Judge(services[s].state, n - services[s].last_heartbeat, t)
          BY <1>t, JudgeType, Zenon
        <4> QED BY <4>1, <4>2, Zenon
      <3>2. services[s].state = Expected(Missed(s), t)
        BY <3>1 DEF StateIsExactBelowOverflow
      <3>3. /\ Missed(s) \in Nat /\ Missed(s)' = Missed(s) + 1
            /\ n - services[s].last_heartbeat = Missed(s) + 1
        BY <1>t, <2>1, <3>0, <3>1 DEF Missed
      <3> QED
        BY <1>t, <3>1, <3>2, <3>3, JudgeIsExact
    <2> QED BY <2>4, <2>5
  <1>4. CASE UNCHANGED vars
    BY <1>4 DEF vars, TypeOK, StateIsExactBelowOverflow, Registered, Missed
  <1> QED
    BY <1>1, <1>2, <1>3, <1>4 DEF Next

\* The type invariant holds for every set of services and tolerances.
THEOREM WatchdogTypeCorrect == Spec => []TypeOK
  <1>1. WatchdogInv => TypeOK
    BY DEF WatchdogInv
  <1> QED BY <1>1, InitWatchdogInv, NextWatchdogInv, PTL DEF Spec

\* A service is Running, Stale or DeclaredDead exactly when its last
\* heartbeat says so, unless the sum of its tolerances overflows.
THEOREM JudgementIsExact == Spec => []StateIsExactBelowOverflow
  <1>1. WatchdogInv => StateIsExactBelowOverflow
    BY DEF WatchdogInv
  <1> QED BY <1>1, InitWatchdogInv, NextWatchdogInv, PTL DEF Spec

\* Time never heals a service, and a DeclaredDead one returns only through a
\* counted restart, whatever the tolerances.
THEOREM NeverHeals == Spec => NeverHealsItself
  <1> DEFINE Step == \A s \in Registered : HealsOnlyByAction(s)
  <1>1. TypeOK /\ [Next]_vars => [Step]_vars
    <2> SUFFICES ASSUME TypeOK, Next, NEW s \in Registered PROVE HealsOnlyByAction(s)
      BY DEF vars
    <2>t. services[s] \in ServiceEntry /\ now_tick \in Nat
      BY DEF TypeOK, Registered
    <2>1. ASSUME NEW r \in Services, NEW t \in Tolerances, Register(r, t)
          PROVE  HealsOnlyByAction(s)
      <3>1. services'[s] = services[s] /\ now_tick' = now_tick
        BY <2>1 DEF Register, Registered, TypeOK
      <3> QED BY <3>1 DEF HealsOnlyByAction
    <2>2. ASSUME NEW r \in Services, Heartbeat(r) PROVE HealsOnlyByAction(s)
      <3>1. services[s].state = "DeclaredDead" => services'[s] = services[s]
        BY <2>2 DEF Heartbeat, Registered, TypeOK
      <3>2. now_tick' = now_tick
        BY <2>2 DEF Heartbeat
      <3> QED BY <3>1, <3>2 DEF HealsOnlyByAction
    <2>3. ASSUME NEW r \in Services, Restart(r) PROVE HealsOnlyByAction(s)
      <3>1. s # r => services'[s] = services[s]
        BY <2>3 DEF Restart, Registered, TypeOK
      <3>2. s = r => services'[s].restarts = services[s].restarts + 1
        BY <2>3, <2>t DEF Restart, Registered, TypeOK, ServiceEntry
      <3>3. now_tick' = now_tick
        BY <2>3 DEF Restart
      <3> QED BY <3>1, <3>2, <3>3 DEF HealsOnlyByAction
    <2>4. ASSUME Tick PROVE HealsOnlyByAction(s)
      <3>0. PICK n \in Nat : n = now_tick + 1
        BY <2>t
      <3>1. services'[s] = JudgeAt(n, services[s])
        BY <2>4, <3>0 DEF Tick, Registered
      <3> DEFINE m == n - services[s].last_heartbeat
      <3> DEFINE t == services[s].tolerance
      <3>2. JudgeAt(n, services[s]).state = Judge(services[s].state, m, t)
        BY <2>t, JudgeType, Zenon
      <3> HIDE DEF m, t
      <3>3. /\ StateSeverity(Judge(services[s].state, m, t)) >= StateSeverity(services[s].state)
            /\ services[s].state = "DeclaredDead" =>
                   Judge(services[s].state, m, t) = "DeclaredDead"
        BY <2>t DEF Judge, StateSeverity, ServiceEntry, ServiceState
      <3> QED BY <3>1, <3>2, <3>3 DEF HealsOnlyByAction
    <2> QED BY <2>1, <2>2, <2>3, <2>4 DEF Next
  <1> QED BY <1>1, WatchdogTypeCorrect, PTL DEF Spec, NeverHealsItself

-----------------------------------------------------------------------------
(* Gossip.  Besides HeldIsNewest the invariant says that an observer's own *)
(* map is ahead of every copy of it, in the maps of others, on the wire and *)
(* in what was merged.                                                     *)

Copies == NodeHealth \cup {None}

\* e is what o said of t at some time, or nothing.
BehindOwn(o, t, e) ==
    LET own == observations[o][o][t] IN
    e # None =>
        /\ own # None
        /\ e.tick <= own.tick
        /\ e.tick = own.tick => e = own \/ <<o, t>> \in repeated

\* All copies of what o said of t: held, on the wire, or merged.
Said(o, t) ==
    {observations[n][o][t] : n \in Nodes}
      \cup {snap.entries[t] : snap \in {w \in wire : w.observer = o}}
      \cup UNION {MergedBy(n, o, t) : n \in Nodes}

OwnIsAhead ==
    \A o \in Nodes, t \in Targets :
        /\ observations[o][o][t] # None => observations[o][o][t].tick <= tick[o]
        /\ \A e \in Said(o, t) : BehindOwn(o, t, e)

MergedTypeOK ==
    received \in [Nodes -> SUBSET (Nodes \X Targets \X NodeHealth)]

GossipInv == GossipTypeOK /\ MergedTypeOK /\ HeldIsNewest /\ OwnIsAhead

\* Merging keeps the entry with the higher tick.
LEMMA AdoptsNewer ==
    ASSUME NEW local \in Copies, NEW remote \in Copies
    PROVE  /\ Adopt(local, remote) \in Copies
           /\ Adopt(local, remote) \in {local, remote}
           /\ remote = None => Adopt(local, remote) = local
           /\ local = None => Adopt(local, remote) = remote
           /\ remote # None =>
                 /\ Adopt(local, remote) # None
                 /\ remote.tick <= Adopt(local, remote).tick
           /\ local # None =>
                 /\ Adopt(local, remote) # None
                 /\ local.tick <= Adopt(local, remote).tick
                 /\ Adopt(local, remote) # local =>
                       local.tick < Adopt(local, remote).tick
<1>1. /\ local # None => local.tick \in Nat
      /\ remote # None => remote.tick \in Nat
  BY GossipAssumption DEF Copies, NodeHealth
<1> QED BY <1>1 DEF Adopt

\* What was merged of o and t, in a set of merged triples.
LEMMA Triples ==
    ASSUME NEW R \in SUBSET (Nodes \X Targets \X NodeHealth), NEW o, NEW t, NEW e
    PROVE  e \in {r[3] : r \in {q \in R : q[1] = o /\ q[2] = t}} <=> <<o, t, e>> \in R
<1>1. ASSUME e \in {r[3] : r \in {q \in R : q[1] = o /\ q[2] = t}} PROVE <<o, t, e>> \in R
  <2>1. PICK r \in R : r[1] = o /\ r[2] = t /\ r[3] = e
    BY <1>1
  <2>2. r = <<r[1], r[2], r[3]>>
    OBVIOUS
  <2> QED BY <2>1, <2>2
<1>2. ASSUME <<o, t, e>> \in R PROVE e \in {r[3] : r \in {q \in R : q[1] = o /\ q[2] = t}}
  BY <1>2
<1> QED BY <1>1, <1>2

\* What a node has merged, as triples of observer, target and entry.
LEMMA MergedTriples ==
    ASSUME MergedTypeOK, NEW n \in Nodes, NEW o, NEW t, NEW e
    PROVE  /\ e \in MergedBy(n, o, t) <=> <<o, t, e>> \in received[n]
           /\ e \in MergedBy(n, o, t) => e \in NodeHealth
<1>1. received[n] \in SUBSET (Nodes \X Targets \X NodeHealth)
  BY DEF MergedTypeOK
<1>2. e \in MergedBy(n, o, t) <=> <<o, t, e>> \in received[n]
  BY <1>1, Triples DEF MergedBy
<1> QED BY <1>1, <1>2

\* The same after a step.
LEMMA MergedTriplesNext ==
    ASSUME MergedTypeOK', NEW n \in Nodes, NEW o, NEW t, NEW e
    PROVE  e \in MergedBy(n, o, t)' <=> <<o, t, e>> \in received'[n]
<1>1. received'[n] \in SUBSET (Nodes \X Targets \X NodeHealth)
  BY DEF MergedTypeOK
<1> QED BY <1>1, Triples DEF MergedBy

\* Every node's map and every snapshot holds entries or nothing.
LEMMA GossipTypes ==
    ASSUME GossipTypeOK
    PROVE  /\ observations \in [Nodes -> [Nodes -> [Targets -> Copies]]]
           /\ \A snap \in wire : snap.observer \in Nodes
                                   /\ snap.entries \in [Targets -> Copies]
BY DEF GossipTypeOK, Copies

\* The types of the maps and of the snapshots on the wire.
LEMMA GossipTypeStep ==
    ASSUME GossipTypeOK, MergedTypeOK, [GossipNext]_gossip
    PROVE  GossipTypeOK' /\ MergedTypeOK'
<1>0. /\ MaxGossipTick \in Nat \ {0}
      /\ observations \in [Nodes -> [Nodes -> [Targets -> Copies]]]
      /\ tick \in [Nodes -> 1..MaxGossipTick]
      /\ wire \subseteq [observer : Nodes, entries : [Targets -> Copies]]
      /\ received \in [Nodes -> SUBSET (Nodes \X Targets \X NodeHealth)]
  BY GossipAssumption DEF GossipTypeOK, Copies, MergedTypeOK
<1> DEFINE Goal == /\ observations' \in [Nodes -> [Nodes -> [Targets -> Copies]]]
                   /\ tick' \in [Nodes -> 1..MaxGossipTick]
                   /\ wire' \subseteq [observer : Nodes, entries : [Targets -> Copies]]
                   /\ received' \in [Nodes -> SUBSET (Nodes \X Targets \X NodeHealth)]
<1> SUFFICES Goal
  BY DEF GossipTypeOK, Copies, MergedTypeOK
<1>1. ASSUME NEW n \in Nodes, TickOnce(n) PROVE Goal
  BY <1>0, <1>1 DEF TickOnce
<1>2. ASSUME NEW n \in Nodes, NEW t \in Targets, NEW s \in HealthStatus, Observe(n, t, s)
      PROVE  Goal
  <2>1. [status |-> s, tick |-> tick[n]] \in Copies
    BY <1>0 DEF Copies, NodeHealth
  <2>2. observations' = [observations EXCEPT ![n][n][t] = [status |-> s, tick |-> tick[n]]]
    BY <1>2 DEF Observe
  <2>3. observations' \in [Nodes -> [Nodes -> [Targets -> Copies]]]
    BY <1>0, <2>1, <2>2
  <2> QED BY <1>0, <1>2, <2>3 DEF Observe
<1>3. ASSUME NEW n \in Nodes, NEW o \in Nodes, SendSnapshot(n, o) PROVE Goal
  <2>1. [observer |-> o, entries |-> observations[n][o]]
          \in [observer : Nodes, entries : [Targets -> Copies]]
    BY <1>0
  <2> QED BY <1>0, <1>3, <2>1 DEF SendSnapshot
<1>4. ASSUME NEW n \in Nodes, NEW snap \in wire, Merge(n, snap) PROVE Goal
  <2>0. snap.observer \in Nodes /\ snap.entries \in [Targets -> Copies]
    BY <1>0
  <2>1. observations' = [observations EXCEPT ![n][snap.observer] =
             [t \in Targets |-> Adopt(observations[n][snap.observer][t], snap.entries[t])]]
    BY <1>0, <1>4, <2>0 DEF Merge
  <2>2. [t \in Targets |-> Adopt(observations[n][snap.observer][t], snap.entries[t])]
          \in [Targets -> Copies]
    BY <1>0, <2>0, AdoptsNewer
  <2>3. observations' \in [Nodes -> [Nodes -> [Targets -> Copies]]]
    BY <1>0, <2>0, <2>1, <2>2
  <2> DEFINE new == {<<snap.observer, t, snap.entries[t]>> :
                         t \in {u \in Targets : snap.entries[u] # None}}
  <2>4. new \subseteq Nodes \X Targets \X NodeHealth
    BY <2>0 DEF Copies
  <2>5. received' = [received EXCEPT ![n] = @ \cup new]
    BY <1>4 DEF Merge
  <2> HIDE DEF new
  <2>6. received' \in [Nodes -> SUBSET (Nodes \X Targets \X NodeHealth)]
    BY <1>0, <2>4, <2>5
  <2> QED BY <1>0, <1>4, <2>3, <2>6 DEF Merge
<1>5. CASE UNCHANGED gossip
  BY <1>0, <1>5 DEF gossip
<1> QED BY <1>1, <1>2, <1>3, <1>4, <1>5 DEF GossipNext

\* Merging a snapshot of the own map changes nothing, and nobody else writes
\* a node's own map, so what was behind it stays behind it.
LEMMA OwnStep ==
    ASSUME GossipInv, [GossipNext]_gossip, NEW o \in Nodes, NEW t \in Targets
    PROVE  /\ observations'[o][o][t] # None => observations'[o][o][t].tick <= tick'[o]
           /\ \A e \in Copies : BehindOwn(o, t, e) => BehindOwn(o, t, e)'
<1> DEFINE own == observations[o][o][t]
<1> DEFINE new == observations'[o][o][t]
<1>0. /\ observations \in [Nodes -> [Nodes -> [Targets -> Copies]]]
      /\ tick \in [Nodes -> 1..MaxGossipTick] /\ MaxGossipTick \in Nat
      /\ own # None => own.tick <= tick[o]
  BY GossipTypes, GossipAssumption DEF GossipInv, GossipTypeOK, OwnIsAhead
<1>k. /\ own \in Copies /\ tick[o] \in Nat
      /\ \A e \in Copies : e # None =>
             e.tick \in Nat /\ e = [status |-> e.status, tick |-> e.tick]
  BY <1>0, GossipAssumption DEF Copies, NodeHealth
<1>q. ASSUME new = own, tick'[o] \in Nat, tick[o] <= tick'[o], repeated \subseteq repeated'
      PROVE  /\ new # None => new.tick <= tick'[o]
             /\ \A e \in Copies : BehindOwn(o, t, e) => BehindOwn(o, t, e)'
  <2>1. new # None => new.tick <= tick'[o]
    BY <1>q, <1>0, <1>k
  <2>2. \A e \in Copies : BehindOwn(o, t, e) => BehindOwn(o, t, e)'
    BY <1>q DEF BehindOwn
  <2> QED BY <2>1, <2>2
<1>1. ASSUME NEW n \in Nodes, TickOnce(n)
      PROVE  new = own /\ tick'[o] \in Nat /\ tick[o] <= tick'[o] /\ repeated \subseteq repeated'
  BY <1>0, <1>1, <1>k DEF TickOnce
<1>2. ASSUME NEW n \in Nodes, NEW u \in Targets, NEW s \in HealthStatus, Observe(n, u, s)
      PROVE  /\ new # None => new.tick <= tick'[o]
             /\ \A e \in Copies : BehindOwn(o, t, e) => BehindOwn(o, t, e)'
  <2>1. CASE ~(n = o /\ u = t)
    <3>1. new = own
      BY <1>0, <1>2, <2>1 DEF Observe
    <3>2. tick' = tick /\ repeated \subseteq repeated'
      BY <1>2 DEF Observe
    <3> QED BY <1>q, <1>k, <3>1, <3>2
  <2>2. CASE n = o /\ u = t
    <3>1. new = [status |-> s, tick |-> tick[o]] /\ tick' = tick /\ repeated \subseteq repeated'
      BY <1>0, <1>2, <2>2 DEF Observe
    <3>2. own # None /\ own.tick = tick[o] /\ own.status # s => <<o, t>> \in repeated'
      BY <1>2, <2>2 DEF Observe
    <3>3. new # None /\ new.tick = tick[o] /\ new.tick <= tick'[o]
      <4>1. new \in NodeHealth
        BY <1>0, <3>1 DEF NodeHealth
      <4> QED BY <4>1, <3>1, <1>k, GossipAssumption
    <3>4. ASSUME NEW e \in Copies, BehindOwn(o, t, e) PROVE BehindOwn(o, t, e)'
      <4> SUFFICES ASSUME e # None
                   PROVE  /\ e.tick <= new.tick
                          /\ e.tick = new.tick => e = new \/ <<o, t>> \in repeated'
        BY <3>3 DEF BehindOwn
      <4>1. /\ own # None /\ e.tick <= own.tick
            /\ e.tick = own.tick => e = own \/ <<o, t>> \in repeated
        BY <3>4 DEF BehindOwn
      <4>2. own.tick \in Nat /\ e.tick \in Nat /\ own = [status |-> own.status, tick |-> own.tick]
        BY <1>k, <4>1
      <4>3. e.tick <= new.tick
        BY <4>1, <4>2, <1>0, <1>k, <3>3
      <4>4. ASSUME e.tick = new.tick PROVE e = new \/ <<o, t>> \in repeated'
        <5>0. own.tick = tick[o] /\ e.tick = own.tick
          <6>1. e.tick = tick[o] /\ e.tick <= own.tick /\ own.tick <= tick[o]
            BY <4>1, <4>4, <1>0, <3>3
          <6> QED BY <6>1, <4>2, <1>k
        <5>1. own.tick = tick[o] /\ (e = own \/ <<o, t>> \in repeated)
          BY <5>0, <4>1
        <5>2. own.status = s => own = new
          BY <5>1, <4>2, <3>1
        <5> QED BY <5>1, <5>2, <4>1, <3>1, <3>2
      <4> QED BY <4>3, <4>4
    <3> QED BY <3>3, <3>4
  <2> QED BY <2>1, <2>2
<1>3. ASSUME NEW n \in Nodes, NEW p \in Nodes, SendSnapshot(n, p)
      PROVE  new = own /\ tick'[o] \in Nat /\ tick[o] <= tick'[o] /\ repeated \subseteq repeated'
  BY <1>3, <1>k DEF SendSnapshot
<1>4. ASSUME NEW n \in Nodes, NEW snap \in wire, Merge(n, snap)
      PROVE  new = own /\ tick'[o] \in Nat /\ tick[o] <= tick'[o] /\ repeated \subseteq repeated'
  <2>0. snap.observer \in Nodes /\ snap.entries \in [Targets -> Copies]
    BY GossipTypes DEF GossipInv
  <2>1. CASE ~(n = o /\ snap.observer = o)
    BY <1>0, <1>4, <1>k, <2>0, <2>1 DEF Merge
  <2>2. CASE n = o /\ snap.observer = o
    <3>1. new = Adopt(own, snap.entries[t])
      BY <1>0, <1>4, <2>0, <2>2 DEF Merge
    <3>2. BehindOwn(o, t, snap.entries[t])
      BY <2>2 DEF GossipInv, OwnIsAhead, Said
    <3>3. new = own
      <4>1. CASE snap.entries[t] = None
        BY <4>1, <3>1 DEF Adopt
      <4>2. CASE snap.entries[t] # None
        <5>1. own # None /\ snap.entries[t].tick <= own.tick
          BY <4>2, <3>2 DEF BehindOwn
        <5>2. own.tick \in Nat /\ snap.entries[t].tick \in Nat
          BY <5>1, <4>2, <1>k, <2>0
        <5>3. own.tick >= snap.entries[t].tick
          BY <5>1, <5>2
        <5> QED BY <5>1, <5>3, <3>1, <4>2 DEF Adopt
      <4> QED BY <4>1, <4>2
    <3> QED BY <3>3, <1>4, <1>k DEF Merge
  <2> QED BY <2>1, <2>2
<1>5. ASSUME UNCHANGED gossip
      PROVE  new = own /\ tick'[o] \in Nat /\ tick[o] <= tick'[o] /\ repeated \subseteq repeated'
  BY <1>5, <1>k DEF gossip
<1> HIDE DEF own, new
<1>6. /\ new # None => new.tick <= tick'[o]
      /\ \A e \in Copies : BehindOwn(o, t, e) => BehindOwn(o, t, e)'
  BY <1>q, <1>1, <1>2, <1>3, <1>4, <1>5 DEF GossipNext
<1> QED BY <1>6 DEF new

\* A step makes no copy except of a copy, or of what is newly observed.
LEMMA SaidStep ==
    ASSUME GossipInv, MergedTypeOK', [GossipNext]_gossip,
           NEW o \in Nodes, NEW t \in Targets, NEW e \in Said(o, t)'
    PROVE  e \in Said(o, t) \/ e = observations'[o][o][t]
<1>0. /\ observations \in [Nodes -> [Nodes -> [Targets -> Copies]]]
      /\ \A snap \in wire : snap.observer \in Nodes /\ snap.entries \in [Targets -> Copies]
      /\ MergedTypeOK /\ received \in [Nodes -> SUBSET (Nodes \X Targets \X NodeHealth)]
  BY GossipTypes DEF GossipInv, MergedTypeOK
<1>s. /\ \A n \in Nodes : observations[n][o][t] \in Said(o, t)
      /\ \A snap \in wire : snap.observer = o => snap.entries[t] \in Said(o, t)
      /\ \A n \in Nodes : <<o, t, e>> \in received[n] => e \in Said(o, t)
  <2>1. \A n \in Nodes : <<o, t, e>> \in received[n] => e \in MergedBy(n, o, t)
    BY <1>0, MergedTriples
  <2> QED BY <2>1 DEF Said
<1>c. \/ \E m \in Nodes : e = observations'[m][o][t]
      \/ \E snap \in wire' : snap.observer = o /\ e = snap.entries[t]
      \/ \E m \in Nodes : <<o, t, e>> \in received'[m]
  BY MergedTriplesNext DEF Said
<1>q. ASSUME observations' = observations, wire' = wire, received' = received
      PROVE  e \in Said(o, t)
  BY <1>q, <1>c, <1>s
<1>1. ASSUME NEW n \in Nodes, TickOnce(n) PROVE e \in Said(o, t)
  BY <1>q, <1>1 DEF TickOnce
<1>2. ASSUME NEW n \in Nodes, NEW u \in Targets, NEW st \in HealthStatus, Observe(n, u, st)
      PROVE  e \in Said(o, t) \/ e = observations'[o][o][t]
  <2>1. \A m \in Nodes : m # o => observations'[m][o][t] = observations[m][o][t]
    BY <1>0, <1>2 DEF Observe
  <2>2. wire' = wire /\ received' = received
    BY <1>2 DEF Observe
  <2> QED BY <1>c, <1>s, <2>1, <2>2
<1>3. ASSUME NEW n \in Nodes, NEW p \in Nodes, SendSnapshot(n, p) PROVE e \in Said(o, t)
  <2>1. observations' = observations /\ received' = received
    BY <1>3 DEF SendSnapshot
  <2>2. ASSUME NEW snap \in wire', snap.observer = o, e = snap.entries[t] PROVE e \in Said(o, t)
    <3>1. CASE snap \in wire
      BY <3>1, <2>2, <1>s
    <3>2. CASE snap = [observer |-> p, entries |-> observations[n][p]]
      BY <3>2, <2>2, <1>s
    <3> QED BY <1>3, <3>1, <3>2 DEF SendSnapshot
  <2> QED BY <1>c, <1>s, <2>1, <2>2
<1>4. ASSUME NEW n \in Nodes, NEW snap \in wire, Merge(n, snap) PROVE e \in Said(o, t)
  <2>1. ASSUME NEW m \in Nodes PROVE observations'[m][o][t] \in Said(o, t)
    <3>1. CASE m = n /\ snap.observer = o
      <4>1. observations'[m][o][t] = Adopt(observations[m][o][t], snap.entries[t])
        BY <1>0, <1>4, <3>1 DEF Merge
      <4>2. observations'[m][o][t] \in {observations[m][o][t], snap.entries[t]}
        BY <1>0, <4>1, AdoptsNewer
      <4> QED BY <4>2, <3>1, <1>s
    <3>2. CASE ~(m = n /\ snap.observer = o)
      <4>1. observations'[m][o][t] = observations[m][o][t]
        BY <1>0, <1>4, <3>2 DEF Merge
      <4> QED BY <4>1, <1>s
    <3> QED BY <3>1, <3>2
  <2>2. ASSUME NEW m \in Nodes, <<o, t, e>> \in received'[m] PROVE e \in Said(o, t)
    <3>1. <<o, t, e>> \in received[m] \/ (snap.observer = o /\ e = snap.entries[t])
      BY <1>0, <1>4, <2>2 DEF Merge
    <3> QED BY <3>1, <1>s
  <2>3. wire' = wire
    BY <1>4 DEF Merge
  <2> QED BY <1>c, <1>s, <2>1, <2>2, <2>3
<1>5. ASSUME UNCHANGED gossip PROVE e \in Said(o, t)
  BY <1>q, <1>5 DEF gossip
<1> QED BY <1>1, <1>2, <1>3, <1>4, <1>5 DEF GossipNext

\* held is an entry of the highest tick among those merged.
NewestOf(held, merged) ==
    IF merged = {} THEN held = None
    ELSE held \in merged /\ \A e \in merged : e.tick <= held.tick

\* Merging one more entry keeps it so.
LEMMA NewestMerge ==
    ASSUME NEW held \in Copies, NEW merged \in SUBSET NodeHealth, NEW remote \in Copies,
           NEW more, \A e : e \in more <=> e \in merged \/ (remote # None /\ e = remote),
           NewestOf(held, merged)
    PROVE  NewestOf(Adopt(held, remote), more)
<1>0. \A e \in NodeHealth : e.tick \in Nat /\ e # None
  BY GossipAssumption DEF NodeHealth
<1>1. CASE remote = None
  <2>1. more = merged /\ Adopt(held, remote) = held
    BY <1>1, AdoptsNewer
  <2> QED BY <2>1
<1>2. CASE remote # None
  <2> DEFINE new == Adopt(held, remote)
  <2>0. more # {} /\ remote \in NodeHealth
    BY <1>2 DEF Copies
  <2>1. CASE merged = {}
    <3>1. new = remote
      BY <2>1, AdoptsNewer DEF NewestOf
    <3>2. \A e \in more : e = remote
      BY <2>1
    <3> QED BY <3>1, <3>2, <2>0, <1>0, <1>2 DEF NewestOf
  <2>2. CASE merged # {}
    <3>1. held \in merged /\ \A e \in merged : e.tick <= held.tick
      BY <2>2 DEF NewestOf
    <3>2. held # None /\ held.tick \in Nat
      BY <3>1, <1>0
    <3>3. /\ new \in {held, remote} /\ remote.tick <= new.tick /\ held.tick <= new.tick
      <4>1. remote.tick \in Nat
        BY <2>0, <1>0
      <4> QED BY <4>1, <1>2, <3>2 DEF Adopt
    <3> HIDE DEF new
    <3>4. new \in more /\ new.tick \in Nat
      BY <3>1, <3>3, <1>0, <1>2, <2>0
    <3>5. ASSUME NEW e \in more PROVE e.tick <= new.tick
      <4>1. CASE e \in merged
        <5>1. e.tick \in Nat /\ e.tick <= held.tick
          BY <4>1, <3>1, <1>0
        <5> QED BY <5>1, <3>2, <3>3, <3>4
      <4>2. CASE e = remote
        BY <4>2, <3>3
      <4> QED BY <4>1, <4>2
    <3>6. NewestOf(new, more)
      BY <2>0, <3>4, <3>5 DEF NewestOf
    <3> QED BY <3>6 DEF new
  <2> QED BY <2>1, <2>2
<1> QED BY <1>1, <1>2

\* observe, snapshot and merge leave the newest entry that reached a node.
LEMMA HeldStep ==
    ASSUME GossipInv, MergedTypeOK', [GossipNext]_gossip
    PROVE  HeldIsNewest'
<1> SUFFICES ASSUME NEW n \in Nodes, NEW o \in Nodes \ {n}, NEW t \in Targets
             PROVE  NewestOf(observations'[n][o][t], MergedBy(n, o, t)')
  BY DEF HeldIsNewest, NewestOf
<1>0. /\ observations \in [Nodes -> [Nodes -> [Targets -> Copies]]]
      /\ \A snap \in wire : snap.observer \in Nodes /\ snap.entries \in [Targets -> Copies]
      /\ MergedTypeOK /\ received \in [Nodes -> SUBSET (Nodes \X Targets \X NodeHealth)]
      /\ NewestOf(observations[n][o][t], MergedBy(n, o, t))
  BY GossipTypes DEF GossipInv, MergedTypeOK, HeldIsNewest, NewestOf
<1>q. ASSUME observations'[n][o][t] = observations[n][o][t], received'[n] = received[n]
      PROVE  NewestOf(observations'[n][o][t], MergedBy(n, o, t)')
  <2>1. MergedBy(n, o, t)' = MergedBy(n, o, t)
    BY <1>q DEF MergedBy
  <2> QED BY <2>1, <1>q, <1>0
<1>1. ASSUME NEW m \in Nodes, TickOnce(m)
      PROVE  observations'[n][o][t] = observations[n][o][t] /\ received'[n] = received[n]
  BY <1>1 DEF TickOnce
<1>2. ASSUME NEW m \in Nodes, NEW u \in Targets, NEW st \in HealthStatus, Observe(m, u, st)
      PROVE  observations'[n][o][t] = observations[n][o][t] /\ received'[n] = received[n]
  BY <1>0, <1>2 DEF Observe
<1>3. ASSUME NEW m \in Nodes, NEW p \in Nodes, SendSnapshot(m, p)
      PROVE  observations'[n][o][t] = observations[n][o][t] /\ received'[n] = received[n]
  BY <1>3 DEF SendSnapshot
<1>4. ASSUME NEW m \in Nodes, NEW snap \in wire, Merge(m, snap)
      PROVE  NewestOf(observations'[n][o][t], MergedBy(n, o, t)')
  <2>1. CASE m = n /\ snap.observer = o
    <3>1. observations'[n][o][t] = Adopt(observations[n][o][t], snap.entries[t])
      BY <1>0, <1>4, <2>1 DEF Merge
    <3>2. \A e : <<o, t, e>> \in received'[n] <=>
                     \/ <<o, t, e>> \in received[n]
                     \/ snap.entries[t] # None /\ e = snap.entries[t]
      BY <1>0, <1>4, <2>1 DEF Merge
    <3>3. \A e : e \in MergedBy(n, o, t)' <=>
                     \/ e \in MergedBy(n, o, t)
                     \/ snap.entries[t] # None /\ e = snap.entries[t]
      <4>1. \A e : e \in MergedBy(n, o, t)' <=> <<o, t, e>> \in received'[n]
        BY MergedTriplesNext
      <4>2. \A e : e \in MergedBy(n, o, t) <=> <<o, t, e>> \in received[n]
        BY <1>0, MergedTriples
      <4> QED BY <4>1, <4>2, <3>2
    <3>4. PICK more : more = MergedBy(n, o, t)'
      OBVIOUS
    <3>5. MergedBy(n, o, t) \in SUBSET NodeHealth
      <4> SUFFICES ASSUME NEW e \in MergedBy(n, o, t) PROVE e \in NodeHealth
        OBVIOUS
      <4> QED BY <1>0, MergedTriples
    <3>6. \A e : e \in more <=> \/ e \in MergedBy(n, o, t)
                                \/ snap.entries[t] # None /\ e = snap.entries[t]
      BY <3>3, <3>4
    <3>7. observations[n][o][t] \in Copies /\ snap.entries[t] \in Copies
      BY <1>0
    <3>8. NewestOf(Adopt(observations[n][o][t], snap.entries[t]), more)
      <4> DEFINE held == observations[n][o][t]
      <4> DEFINE merged == MergedBy(n, o, t)
      <4> DEFINE remote == snap.entries[t]
      <4>1. /\ held \in Copies /\ remote \in Copies /\ merged \in SUBSET NodeHealth
            /\ NewestOf(held, merged)
            /\ \A e : e \in more <=> e \in merged \/ (remote # None /\ e = remote)
        BY <1>0, <3>5, <3>6, <3>7
      <4> HIDE DEF held, merged, remote
      <4>2. NewestOf(Adopt(held, remote), more)
        BY <4>1, NewestMerge
      <4> QED BY <4>2 DEF held, remote
    <3> QED BY <3>1, <3>4, <3>8
  <2>2. CASE ~(m = n /\ snap.observer = o)
    <3>1. observations'[n][o][t] = observations[n][o][t]
      BY <1>0, <1>4, <2>2 DEF Merge
    <3>2. \A e : <<o, t, e>> \in received'[n] <=> <<o, t, e>> \in received[n]
      BY <1>0, <1>4, <2>2 DEF Merge
    <3>3. \A e : e \in MergedBy(n, o, t)' <=> e \in MergedBy(n, o, t)
      BY <1>0, <3>2, MergedTriples, MergedTriplesNext
    <3>4. MergedBy(n, o, t)' = MergedBy(n, o, t)
      BY <3>3
    <3> QED BY <3>1, <3>4, <1>0
  <2> QED BY <2>1, <2>2
<1>5. ASSUME UNCHANGED gossip
      PROVE  observations'[n][o][t] = observations[n][o][t] /\ received'[n] = received[n]
  BY <1>5 DEF gossip
<1> QED BY <1>q, <1>1, <1>2, <1>3, <1>4, <1>5 DEF GossipNext

\* The inductive invariant of the gossip.
LEMMA GossipInvariance == GossipSpec => []GossipInv
<1>1. GossipInit => GossipInv
  <2> SUFFICES ASSUME GossipInit PROVE GossipInv
    OBVIOUS
  <2>1. GossipTypeOK /\ MergedTypeOK
    BY GossipAssumption DEF GossipInit, GossipTypeOK, MergedTypeOK
  <2>2. \A n, o \in Nodes, t \in Targets : observations[n][o][t] = None
    BY DEF GossipInit
  <2>3. \A n \in Nodes : \A o, t : MergedBy(n, o, t) = {}
    BY DEF GossipInit, MergedBy
  <2>4. HeldIsNewest
    BY <2>2, <2>3 DEF HeldIsNewest
  <2>5. ASSUME NEW o \in Nodes, NEW t \in Targets, NEW e \in Said(o, t) PROVE e = None
    BY <2>2, <2>3 DEF Said, GossipInit
  <2>6. OwnIsAhead
    BY <2>2, <2>5 DEF OwnIsAhead, BehindOwn
  <2> QED BY <2>1, <2>4, <2>6 DEF GossipInv
<1>2. GossipInv /\ [GossipNext]_gossip => GossipInv'
  <2> SUFFICES ASSUME GossipInv, [GossipNext]_gossip PROVE GossipInv'
    OBVIOUS
  <2>1. GossipTypeOK' /\ MergedTypeOK'
    BY GossipTypeStep DEF GossipInv
  <2>2. HeldIsNewest'
    BY <2>1, HeldStep
  <2>3. OwnIsAhead'
    <3> SUFFICES ASSUME NEW o \in Nodes, NEW t \in Targets
                 PROVE  /\ observations'[o][o][t] # None => observations'[o][o][t].tick <= tick'[o]
                        /\ \A e \in Said(o, t)' : BehindOwn(o, t, e)'
      BY DEF OwnIsAhead
    <3>1. ASSUME NEW e \in Said(o, t)' PROVE BehindOwn(o, t, e)'
      <4>1. CASE e \in Said(o, t)
        <5>1. BehindOwn(o, t, e)
          BY <4>1 DEF GossipInv, OwnIsAhead
        <5>2. e \in Copies
          <6>1. \A n \in Nodes : MergedBy(n, o, t) \subseteq NodeHealth
            BY MergedTriples DEF GossipInv
          <6> QED BY <4>1, <6>1, GossipTypes DEF GossipInv, Said, Copies
        <5> QED BY <5>1, <5>2, OwnStep
      <4>2. CASE e = observations'[o][o][t]
        <5>1. e # None => e.tick \in Nat
          <6>1. observations' \in [Nodes -> [Nodes -> [Targets -> NodeHealth \cup {None}]]]
            BY <2>1 DEF GossipTypeOK
          <6>2. e \in NodeHealth \cup {None}
            BY <6>1, <4>2
          <6> QED BY <6>2, GossipAssumption DEF NodeHealth
        <5> QED BY <5>1, <4>2 DEF BehindOwn
      <4> QED BY <2>1, <4>1, <4>2, SaidStep
    <3> QED BY <3>1, OwnStep
  <2> QED BY <2>1, <2>2, <2>3 DEF GossipInv
<1> QED BY <1>1, <1>2, PTL DEF GossipSpec

\* The maps and snapshots keep their types.
THEOREM GossipTypeCorrect == GossipSpec => []GossipTypeOK
  BY GossipInvariance, PTL DEF GossipInv

\* A node holds an entry of the highest tick that reached it, for any number
\* of nodes and in whatever order snapshots arrive at merge().
THEOREM NewestWins == GossipSpec => []HeldIsNewest
  BY GossipInvariance, PTL DEF GossipInv

\* A node that everything has reached holds what every observer now says,
\* unless that observer changed its mind within one tick.
LEMMA UpToDateHoldsOwn ==
    ASSUME GossipInv, NEW n \in Nodes, NEW t \in Targets, UpToDate(n, t),
           NEW o \in Nodes, <<o, t>> \notin repeated
    PROVE  observations[n][o][t] = observations[o][o][t]
<1> DEFINE own == observations[o][o][t]
<1> DEFINE held == observations[n][o][t]
<1>1. CASE n = o
  BY <1>1
<1>2. CASE n # o
  <2>1. BehindOwn(o, t, held)
    BY DEF GossipInv, OwnIsAhead, Said
  <2>2. NewestOf(held, MergedBy(n, o, t))
    BY <1>2 DEF GossipInv, HeldIsNewest, NewestOf
  <2>3. own \in MergedBy(n, o, t) \cup {None}
    BY <1>2 DEF UpToDate
  <2>4. CASE own = None
    BY <2>1, <2>4 DEF BehindOwn
  <2>5. CASE own # None
    <3>1. own \in MergedBy(n, o, t)
      BY <2>3, <2>5
    <3>2. held \in MergedBy(n, o, t) /\ own.tick <= held.tick
      BY <2>2, <3>1 DEF NewestOf
    <3>3. held \in NodeHealth /\ own \in NodeHealth
      BY <3>1, <3>2, MergedTriples DEF GossipInv
    <3>4. held # None /\ held.tick \in Nat /\ own.tick \in Nat
      BY <3>3, GossipAssumption DEF NodeHealth
    <3>5. held.tick <= own.tick /\ (held.tick = own.tick => held = own)
      BY <2>1, <3>4 DEF BehindOwn
    <3> HIDE DEF held, own
    <3>6. held.tick = own.tick
      BY <3>2, <3>4, <3>5
    <3>7. held = own
      BY <3>5, <3>6
    <3> QED BY <3>7 DEF held, own
  <2> QED BY <2>4, <2>5
<1> QED BY <1>1, <1>2

\* consensus_view is the same on all nodes that everything has reached, for
\* any number of nodes, whatever order it arrived in.
THEOREM ConsensusIsShared == GossipSpec => []ViewsAgree
<1>1. GossipInv => ViewsAgree
  <2> SUFFICES ASSUME GossipInv, NEW m \in Nodes, NEW n \in Nodes, NEW t \in Targets,
                      UpToDate(m, t), UpToDate(n, t),
                      \A o \in Nodes : <<o, t>> \notin repeated
               PROVE  ConsensusView(m, t) = ConsensusView(n, t)
    BY DEF ViewsAgree
  <2>1. \A o \in Nodes : observations[m][o][t] = observations[n][o][t]
    <3> SUFFICES ASSUME NEW o \in Nodes PROVE observations[m][o][t] = observations[n][o][t]
      OBVIOUS
    <3>1. observations[m][o][t] = observations[o][o][t]
      BY UpToDateHoldsOwn
    <3>2. observations[n][o][t] = observations[o][o][t]
      BY UpToDateHoldsOwn
    <3> QED BY <3>1, <3>2
  <2>2. {observations[m][o][t] : o \in Nodes} = {observations[n][o][t] : o \in Nodes}
    BY <2>1
  <2> DEFINE View(all) == IF all \ {None} = {} THEN None
                           ELSE CHOOSE e \in all \ {None} : \A f \in all \ {None} : ~Worse(f, e)
  <2>3. /\ ConsensusView(m, t) = View({observations[m][o][t] : o \in Nodes})
        /\ ConsensusView(n, t) = View({observations[n][o][t] : o \in Nodes})
    BY Zenon DEF ConsensusView
  <2> HIDE DEF View
  <2> QED BY <2>2, <2>3
<1> QED BY <1>1, GossipInvariance, PTL

-----------------------------------------------------------------------------
(* The gateway.  The invariant adds that last_seq is above every receipt   *)
(* of the agent, over registrations too, and that receipts point into the  *)
(* audit.                                                                  *)

Receipt == [msg : IpcMessage, audit_seq : Nat]
AuditKinds == MsgTypes \cup {"agent_registered", "rejected_unknown_agent",
                             "rejected_capability", "rejected_replay", "rejected_schema"}
AuditEvent == [actor : Agents \cup {"ipc-gateway"}, kind : AuditKinds]

ReceiptsInv ==
    \A i \in DOMAIN receipts :
        /\ receipts[i].msg.seq <= last_seq[receipts[i].msg.from_agent]
        /\ receipts[i].audit_seq \in DOMAIN audit

GatewayInv ==
    /\ GatewayTypeOK
    /\ capabilities \in [Agents -> (SUBSET MsgTypes) \cup {Unregistered}]
    /\ ReceiptsInv
    /\ ReceiptsAreUnique

\* An event of the gateway itself leaves what receipts say untouched.
LEMMA GatewayEvent ==
    ASSUME GatewayInv, NEW kind \in AuditKinds, Record("ipc-gateway", kind),
           UNCHANGED <<last_seq, receipts>>
    PROVE  ReceiptsInv' /\ ReceiptsAreUnique' /\ audit' \in Seq(AuditEvent)
<1> DEFINE e == [actor |-> "ipc-gateway", kind |-> kind]
<1>1. audit \in Seq(AuditEvent) /\ e \in AuditEvent /\ e.actor \notin Agents
  BY GatewayAssumption DEF GatewayInv, GatewayTypeOK, AuditEvent, AuditKinds
<1>2. audit' = Append(audit, e)
  BY DEF Record
<1> HIDE DEF e
<1>3. /\ audit' \in Seq(AuditEvent) /\ DOMAIN audit = 1..Len(audit) /\ Len(audit) \in Nat
      /\ DOMAIN audit' = 1..(Len(audit) + 1) /\ audit'[Len(audit) + 1] = e
      /\ \A i \in 1..Len(audit) : audit'[i] = audit[i]
  BY <1>1, <1>2
<1>4. ReceiptsInv'
  BY <1>3 DEF GatewayInv, ReceiptsInv
<1>5. {n \in DOMAIN audit' : audit'[n].actor \in Agents}
        = {n \in DOMAIN audit : audit[n].actor \in Agents}
  BY <1>1, <1>3
<1>6. \A i \in DOMAIN receipts :
        audit'[receipts[i].audit_seq] = audit[receipts[i].audit_seq]
  BY <1>3 DEF GatewayInv, ReceiptsInv
<1>7. ReceiptsAreUnique'
  BY <1>5, <1>6 DEF GatewayInv, ReceiptsAreUnique
<1> QED BY <1>3, <1>4, <1>7

\* A message that is delivered is newer than every receipt of its agent, and
\* its event is the one its receipt names (ipc.rs, 119-172).
LEMMA Delivered ==
    ASSUME GatewayInv, NEW msg \in IpcMessage, Deliver(msg)
    PROVE  GatewayInv'
<1> DEFINE e == [actor |-> msg.from_agent, kind |-> msg.msg_type]
           r == [msg |-> msg, audit_seq |-> Len(audit) + 1]
           a == msg.from_agent
           n == Len(receipts)
<1>t. /\ msg.from_agent \in Agents /\ msg.msg_type \in MsgTypes
      /\ msg.seq \in 0..MaxMsgSeq
  BY DEF IpcMessage
<1>0. MaxMsgSeq \in Nat
  BY GatewayAssumption
<1>1. /\ audit \in Seq(AuditEvent) /\ receipts \in Seq(Receipt)
      /\ last_seq \in [Agents -> 0..MaxMsgSeq]
      /\ ReceiptsInv /\ ReceiptsAreUnique
  BY DEF GatewayInv, GatewayTypeOK, AuditEvent, AuditKinds, Receipt
<1>2. last_seq[a] < msg.seq
  BY <1>0, <1>1, <1>t DEF Deliver, Verdict
<1>3. /\ audit' = Append(audit, e) /\ receipts' = Append(receipts, r)
      /\ last_seq' = [last_seq EXCEPT ![a] = msg.seq] /\ capabilities' = capabilities
  BY DEF Deliver, Record
<1>4. e \in AuditEvent /\ e.actor = a /\ r \in Receipt /\ r.msg = msg
      /\ r.audit_seq = Len(audit) + 1
  BY <1>1, <1>t DEF AuditEvent, AuditKinds, Receipt
<1> HIDE DEF r, e
<1>5. /\ DOMAIN audit = 1..Len(audit) /\ Len(audit) \in Nat /\ audit' \in Seq(AuditEvent)
      /\ DOMAIN audit' = 1..(Len(audit) + 1) /\ audit'[Len(audit) + 1] = e
      /\ \A i \in 1..Len(audit) : audit'[i] = audit[i]
  BY <1>1, <1>3, <1>4
<1>6. /\ DOMAIN receipts = 1..n /\ n \in Nat /\ receipts' \in Seq(Receipt)
      /\ DOMAIN receipts' = 1..(n + 1) /\ receipts'[n + 1] = r
      /\ \A i \in 1..n : receipts'[i] = receipts[i]
      /\ \A i \in 1..n : receipts[i] \in Receipt
  BY <1>1, <1>3, <1>4
<1>7. \A b \in Agents : last_seq'[b] = IF b = a THEN msg.seq ELSE last_seq[b]
  BY <1>1, <1>3, <1>t
<1>8. ASSUME NEW i \in 1..n
      PROVE  /\ receipts[i].msg.from_agent \in Agents /\ receipts[i].msg.seq \in Nat
             /\ receipts[i].msg.seq <= last_seq[receipts[i].msg.from_agent]
             /\ receipts[i].msg.seq <= last_seq'[receipts[i].msg.from_agent]
             /\ receipts[i].audit_seq \in DOMAIN audit
  <2>1. receipts[i].msg.from_agent \in Agents /\ receipts[i].msg.seq \in 0..MaxMsgSeq
    BY <1>6 DEF Receipt, IpcMessage
  <2>2. /\ receipts[i].msg.seq <= last_seq[receipts[i].msg.from_agent]
        /\ receipts[i].audit_seq \in DOMAIN audit
    BY <1>1, <1>6 DEF ReceiptsInv
  <2>3. PICK b \in Agents : b = receipts[i].msg.from_agent
    BY <2>1
  <2>4. last_seq[b] \in Nat /\ last_seq[b] <= last_seq'[b] /\ last_seq'[b] \in Nat
    BY <1>0, <1>1, <1>2, <1>7, <1>t
  <2>5. receipts[i].msg.seq \in Nat /\ receipts[i].msg.seq <= last_seq'[b]
    BY <2>1, <2>2, <2>3, <2>4
  <2> QED BY <2>1, <2>2, <2>3, <2>5
<1>9. ReceiptsInv'
  <2>1. ASSUME NEW i \in 1..(n + 1)
        PROVE  /\ receipts'[i].msg.seq <= last_seq'[receipts'[i].msg.from_agent]
               /\ receipts'[i].audit_seq \in DOMAIN audit'
    <3>1. CASE i = n + 1
      BY <1>0, <1>4, <1>5, <1>6, <1>7, <1>t, <3>1
    <3>2. CASE i \in 1..n
      BY <1>5, <1>6, <1>8, <3>2
    <3> QED BY <1>6, <3>1, <3>2
  <2> QED BY <1>6, <2>1 DEF ReceiptsInv
<1>10. ASSUME NEW i \in DOMAIN receipts', NEW j \in DOMAIN receipts', i < j,
              receipts'[i].msg.from_agent = receipts'[j].msg.from_agent
       PROVE  receipts'[i].msg.seq < receipts'[j].msg.seq
  <2>1. i \in 1..n /\ receipts'[i] = receipts[i]
    BY <1>6, <1>10
  <2>2. CASE j = n + 1
    <3>1. receipts'[j].msg = msg
      BY <1>4, <1>6, <2>2
    <3>2. receipts[i].msg.seq <= last_seq[a] /\ receipts[i].msg.seq \in Nat
      BY <1>8, <1>10, <2>1, <3>1
    <3>3. last_seq[a] \in Nat /\ msg.seq \in Nat
      BY <1>0, <1>1, <1>t
    <3> QED BY <1>2, <2>1, <3>1, <3>2, <3>3
  <2>3. CASE j \in 1..n
    BY <1>1, <1>6, <1>10, <2>1, <2>3 DEF ReceiptsAreUnique
  <2> QED BY <1>6, <2>2, <2>3
<1>11. ASSUME NEW i \in DOMAIN receipts'
       PROVE  audit'[receipts'[i].audit_seq] =
                [actor |-> receipts'[i].msg.from_agent, kind |-> receipts'[i].msg.msg_type]
  <2>1. CASE i = n + 1
    BY <1>4, <1>5, <1>6, <2>1 DEF e
  <2>2. CASE i \in 1..n
    BY <1>1, <1>5, <1>6, <1>8, <2>2 DEF ReceiptsAreUnique
  <2> QED BY <1>6, <2>1, <2>2
<1>12. {k \in DOMAIN audit' : audit'[k].actor \in Agents}
         = {receipts'[i].audit_seq : i \in DOMAIN receipts'}
  <2>1. {k \in DOMAIN audit' : audit'[k].actor \in Agents}
          = {k \in DOMAIN audit : audit[k].actor \in Agents} \cup {Len(audit) + 1}
    BY <1>4, <1>5, <1>t
  <2>2. {receipts'[i].audit_seq : i \in DOMAIN receipts'}
          = {receipts[i].audit_seq : i \in DOMAIN receipts} \cup {Len(audit) + 1}
    BY <1>4, <1>6
  <2> QED BY <1>1, <2>1, <2>2 DEF ReceiptsAreUnique
<1>13. ReceiptsAreUnique'
  BY <1>10, <1>11, <1>12 DEF ReceiptsAreUnique
<1>14. last_seq' \in [Agents -> 0..MaxMsgSeq]
  BY <1>1, <1>3, <1>t
<1>15. GatewayTypeOK'
  BY <1>3, <1>5, <1>6, <1>14 DEF GatewayTypeOK, GatewayInv, AuditEvent, AuditKinds, Receipt
<1> QED BY <1>3, <1>9, <1>13, <1>15 DEF GatewayInv

\* The invariant of the gateway holds throughout.
LEMMA GatewayInvariance == GatewaySpec => []GatewayInv
<1>1. GatewayInit => GatewayInv
  BY GatewayAssumption DEF GatewayInit, GatewayInv, GatewayTypeOK, ReceiptsInv,
     ReceiptsAreUnique
<1>2. GatewayInv /\ [GatewayNext]_gateway => GatewayInv'
  <2> SUFFICES ASSUME GatewayInv, [GatewayNext]_gateway PROVE GatewayInv'
    OBVIOUS
  <2>1. ASSUME NEW a \in Agents, NEW types \in SUBSET MsgTypes, RegisterAgent(a, types)
        PROVE  GatewayInv'
    <3>1. "agent_registered" \in AuditKinds
      BY DEF AuditKinds
    <3>2. ReceiptsInv' /\ ReceiptsAreUnique' /\ audit' \in Seq(AuditEvent)
      BY <2>1, <3>1, GatewayEvent DEF RegisterAgent
    <3>3. capabilities' \in [Agents -> (SUBSET MsgTypes) \cup {Unregistered}]
      BY <2>1 DEF RegisterAgent, GatewayInv
    <3>4. GatewayTypeOK'
      BY <2>1, <3>2, <3>3 DEF RegisterAgent, GatewayInv, GatewayTypeOK, AuditEvent, AuditKinds
    <3> QED BY <3>2, <3>3, <3>4 DEF GatewayInv
  <2>2. ASSUME NEW msg \in IpcMessage, Reject(msg) PROVE GatewayInv'
    <3>1. Verdict(msg) \in AuditKinds
      BY <2>2 DEF Reject, Verdict, AuditKinds
    <3>2. ReceiptsInv' /\ ReceiptsAreUnique' /\ audit' \in Seq(AuditEvent)
      BY <2>2, <3>1, GatewayEvent DEF Reject
    <3>3. GatewayTypeOK'
      BY <2>2, <3>2 DEF Reject, GatewayInv, GatewayTypeOK, AuditEvent, AuditKinds
    <3> QED BY <2>2, <3>2, <3>3 DEF GatewayInv, Reject
  <2>3. ASSUME NEW msg \in IpcMessage, Deliver(msg) PROVE GatewayInv'
    BY <2>3, Delivered
  <2>4. CASE UNCHANGED gateway
    BY <2>4 DEF gateway, GatewayInv, GatewayTypeOK, ReceiptsInv, ReceiptsAreUnique
  <2> QED BY <2>1, <2>2, <2>3, <2>4 DEF GatewayNext
<1> QED BY <1>1, <1>2, PTL DEF GatewaySpec

\* "Replay-Schutz: strikt monoton pro Agent" and "jeder Schritt auditierbar"
\* (ipc.rs, 140 and 117): no message gets a second receipt, none one after a
\* later message of its agent, and the audit's events of agents are the
\* receipts.
THEOREM NoReplayIsDelivered == GatewaySpec => [](GatewayTypeOK /\ ReceiptsAreUnique)
<1>1. GatewayInv => GatewayTypeOK /\ ReceiptsAreUnique
  BY DEF GatewayInv
<1> QED BY <1>1, GatewayInvariance, PTL

-----------------------------------------------------------------------------
(* The proposals.  The trail and the states are inductive together.        *)

Kinds == {"proposal_submitted", "proposal_specified", "proposal_handed_to_vm"}
TrailEvent == [kind : Kinds, id : ProposalIds]

ProposalsInv == ProposalsTypeOK /\ TrailIsLifecycle

\* A step that moves a proposal one stage on extends its trail by that stage
\* (proposal.rs, 89-150).
LEMMA MovedOn ==
    ASSUME ProposalsInv, NEW id \in ProposalIds, NEW kind \in Kinds,
           NEW to \in {"Proposed", "Specified", "HandedToVM"}, Moves(id, to, kind),
           Stage(kind) = Reached(state[id]) + 1, Reached(to) = Stage(kind)
    PROVE  /\ state' \in [ProposalIds -> {NoProposal, "Proposed", "Specified", "HandedToVM"}]
           /\ trail' \in Seq(TrailEvent)
           /\ TrailIsLifecycle'
<1> DEFINE e == [kind |-> kind, id |-> id]
           n == Len(trail)
           Stages(t, x) == {Stage(t[i].kind) : i \in {j \in DOMAIN t : t[j].id = x}}
<1>1. /\ trail \in Seq(TrailEvent) /\ e \in TrailEvent /\ e.kind = kind /\ e.id = id
      /\ state \in [ProposalIds -> {NoProposal, "Proposed", "Specified", "HandedToVM"}]
  BY DEF ProposalsInv, ProposalsTypeOK, TrailEvent, Kinds
<1>2. trail' = Append(trail, e) /\ state' = [state EXCEPT ![id] = to]
  BY DEF Moves
<1> HIDE DEF e
<1>3. /\ trail' \in Seq(TrailEvent) /\ n \in Nat /\ DOMAIN trail = 1..n
      /\ DOMAIN trail' = 1..(n + 1) /\ trail'[n + 1] = e
      /\ \A i \in 1..n : trail'[i] = trail[i]
  BY <1>1, <1>2
<1>4. \A x \in ProposalIds : Stages(trail, x) = 1..Reached(state[x])
  BY DEF ProposalsInv, TrailIsLifecycle
<1>5. \A x \in ProposalIds : Reached(state[x]) \in 0..3
  BY DEF Reached
<1>6. \A x \in Kinds : Stage(x) \in 1..3
  BY DEF Stage
<1>7. ASSUME NEW i \in DOMAIN trail', NEW j \in DOMAIN trail', i < j,
             trail'[i].id = trail'[j].id
      PROVE  Stage(trail'[i].kind) < Stage(trail'[j].kind)
  <2>1. i \in 1..n /\ trail'[i] = trail[i]
    BY <1>3, <1>7
  <2>2. CASE j \in 1..n
    BY <1>3, <1>7, <2>1, <2>2 DEF ProposalsInv, TrailIsLifecycle
  <2>3. CASE j = n + 1
    <3>1. trail[i].id = id /\ trail'[j].kind = kind
      BY <1>1, <1>3, <1>7, <2>1, <2>3
    <3>2. Stage(trail[i].kind) \in Stages(trail, id)
      BY <1>3, <2>1, <3>1
    <3>3. Stage(trail[i].kind) \in 1..Reached(state[id])
      BY <1>4, <3>2
    <3> QED BY <1>5, <2>1, <3>1, <3>3
  <2> QED BY <1>3, <2>2, <2>3
<1>8. ASSUME NEW x \in ProposalIds PROVE Stages(trail', x) = 1..Reached(state'[x])
  <2>1. CASE x = id
    <3>1. Stages(trail', id) = Stages(trail, id) \cup {Stage(kind)}
      BY <1>1, <1>3
    <3>2. state'[id] = to
      BY <1>1, <1>2
    <3> HIDE DEF Stages
    <3> QED BY <1>4, <1>5, <2>1, <3>1, <3>2
  <2>2. CASE x # id
    <3>1. Stages(trail', x) = Stages(trail, x)
      BY <1>1, <1>3, <2>2
    <3>2. state'[x] = state[x]
      BY <1>1, <1>2, <2>2
    <3> HIDE DEF Stages
    <3> QED BY <1>4, <3>1, <3>2
  <2> QED BY <2>1, <2>2
<1>9. TrailIsLifecycle'
  BY <1>7, <1>8 DEF TrailIsLifecycle
<1> QED BY <1>1, <1>2, <1>3, <1>9

\* The lifecycle "Proposed -> Specified -> HandedToVM" (proposal.rs, 2): in
\* the trail of a proposal each step stands once and in order, up to where
\* its state is, however calls repeat and interleave.
THEOREM ProposalsKeepTheirLifecycle ==
    ProposalsSpec => [](ProposalsTypeOK /\ TrailIsLifecycle)
<1>1. ProposalsInit => ProposalsInv
  <2> SUFFICES ASSUME ProposalsInit PROVE ProposalsInv
    OBVIOUS
  <2>1. ProposalsTypeOK
    BY ProposalsAssumption DEF ProposalsInit, ProposalsTypeOK
  <2>2. \A id \in ProposalIds : Reached(state[id]) = 0
    BY ProposalsAssumption DEF ProposalsInit, Reached
  <2>3. TrailIsLifecycle
    BY <2>2 DEF ProposalsInit, TrailIsLifecycle
  <2> QED BY <2>1, <2>3 DEF ProposalsInv
<1>2. ProposalsInv /\ [ProposalsNext]_proposals => ProposalsInv'
  <2> SUFFICES ASSUME ProposalsInv, [ProposalsNext]_proposals PROVE ProposalsInv'
    OBVIOUS
  <2>0. /\ Reached(NoProposal) = 0 /\ Reached("Proposed") = 1 /\ Reached("Specified") = 2
        /\ Reached("HandedToVM") = 3
        /\ Stage("proposal_submitted") = 1 /\ Stage("proposal_specified") = 2
        /\ Stage("proposal_handed_to_vm") = 3
    BY ProposalsAssumption DEF Reached, Stage
  <2>1. ASSUME calls' \in 0..MaxCalls,
               state' \in [ProposalIds -> {NoProposal, "Proposed", "Specified", "HandedToVM"}],
               trail' \in Seq(TrailEvent), TrailIsLifecycle'
        PROVE  ProposalsInv'
    BY <2>1 DEF ProposalsInv, ProposalsTypeOK, TrailEvent, Kinds
  <2>2. ASSUME UNCHANGED <<state, trail>>, calls' \in 0..MaxCalls PROVE ProposalsInv'
    BY <2>2 DEF ProposalsInv, ProposalsTypeOK, TrailIsLifecycle
  <2>3. calls \in 0..MaxCalls
    BY DEF ProposalsInv, ProposalsTypeOK
  <2>4. ASSUME NEW id \in ProposalIds, Submit(id) PROVE ProposalsInv'
    <3>1. calls' \in 0..MaxCalls
      BY <2>3, <2>4, ProposalsAssumption DEF Submit
    <3>2. CASE state[id] = NoProposal
      <4>1. Moves(id, "Proposed", "proposal_submitted")
        BY <2>4, <3>2 DEF Submit
      <4> QED BY <2>0, <2>1, <3>1, <3>2, <4>1, MovedOn DEF Kinds
    <3>3. CASE state[id] # NoProposal
      BY <2>2, <2>4, <3>1, <3>3 DEF Submit
    <3> QED BY <3>2, <3>3
  <2>5. ASSUME NEW id \in ProposalIds, MarkSpecified(id) PROVE ProposalsInv'
    BY <2>0, <2>1, <2>3, <2>5, MovedOn DEF MarkSpecified, Kinds
  <2>6. ASSUME NEW id \in ProposalIds, MarkHandedToVm(id) PROVE ProposalsInv'
    BY <2>0, <2>1, <2>3, <2>6, MovedOn DEF MarkHandedToVm, Kinds
  <2>7. CASE UNCHANGED proposals
    BY <2>2, <2>3, <2>7 DEF proposals
  <2> QED BY <2>4, <2>5, <2>6, <2>7 DEF ProposalsNext
<1>3. ProposalsInv => ProposalsTypeOK /\ TrailIsLifecycle
  BY DEF ProposalsInv
<1> QED BY <1>1, <1>2, <1>3, PTL DEF ProposalsSpec

-----------------------------------------------------------------------------
(* The model registry and the cache.  The invariant adds that the manifest *)
(* of an entry is still one the registry vouches for, if it was when it    *)
(* was put.                                                                *)

CacheEntry == [manifest : Manifest, bytes : Contents \cup {Damaged}]

ModelStoreInv ==
    /\ ModelStoreTypeOK
    /\ cached \in [ModelKeys -> CacheEntry \cup {Missing}]
    /\ \A k \in Held \cap vouched : Trusted(k, cached[k].manifest)

\* An entry is not nothing.
LEMMA EntryIsThere == ASSUME NEW e \in CacheEntry PROVE e # Missing
BY ModelAssumption DEF CacheEntry, Manifest

\* A list without repetitions is as long as the set of its members.
LEMMA LengthIsCardinality ==
    ASSUME NEW S, NEW s \in Seq(S), IsInjective(s)
    PROVE  IsFiniteSet(Range(s)) /\ Cardinality(Range(s)) = Len(s)
<1>1. s \in [1..Len(s) -> Range(s)] /\ DOMAIN s = 1..Len(s) /\ Len(s) \in Nat
  BY DEF Range
<1>2. s \in Bijection(1..Len(s), Range(s))
  BY <1>1 DEF Bijection, Injection, Surjection, Range, IsInjective
<1>3. ExistsBijection(1..Len(s), Range(s))
  BY <1>2 DEF ExistsBijection
<1> QED BY <1>1, <1>3, FS_CountingElements, FS_NatBijection

\* The oldest entry taken out, the others stay in their order.
LEMMA TailOfOrder ==
    ASSUME NEW S, NEW s \in Seq(S), s # <<>>, IsInjective(s)
    PROVE  /\ Tail(s) \in Seq(S) /\ Len(Tail(s)) = Len(s) - 1 /\ IsInjective(Tail(s))
           /\ Range(Tail(s)) = Range(s) \ {Head(s)} /\ Head(s) \in Range(s)
<1>1. /\ Tail(s) \in Seq(S) /\ Len(Tail(s)) = Len(s) - 1 /\ Len(s) \in Nat /\ Len(s) > 0
      /\ DOMAIN s = 1..Len(s) /\ DOMAIN Tail(s) = 1..(Len(s) - 1)
      /\ Head(s) = s[1] /\ \A i \in 1..(Len(s) - 1) : Tail(s)[i] = s[i + 1]
  OBVIOUS
<1>2. \A i, j \in 1..Len(s) : s[i] = s[j] => i = j
  BY <1>1 DEF IsInjective
<1>3. IsInjective(Tail(s))
  <2>1. ASSUME NEW i \in 1..(Len(s) - 1), NEW j \in 1..(Len(s) - 1), s[i + 1] = s[j + 1]
        PROVE  i = j
    <3>1. i + 1 \in 1..Len(s) /\ j + 1 \in 1..Len(s)
      BY <1>1
    <3>2. i + 1 = j + 1
      BY <1>2, <2>1, <3>1
    <3> QED BY <3>2
  <2> QED BY <1>1, <2>1 DEF IsInjective
<1>4. Head(s) \in Range(s)
  BY <1>1 DEF Range
<1>5. ASSUME NEW x \in Range(Tail(s)) PROVE x \in Range(s) \ {Head(s)}
  <2>1. PICK i \in 1..(Len(s) - 1) : x = s[i + 1]
    BY <1>1 DEF Range
  <2>2. i + 1 \in 1..Len(s) /\ 1 \in 1..Len(s) /\ i + 1 # 1
    BY <1>1
  <2> QED BY <1>1, <1>2, <2>1, <2>2 DEF Range
<1>6. ASSUME NEW x \in Range(s) \ {Head(s)} PROVE x \in Range(Tail(s))
  <2>1. PICK i \in 1..Len(s) : x = s[i]
    BY <1>1 DEF Range
  <2>2. i # 1
    BY <1>1, <2>1
  <2>3. i - 1 \in 1..(Len(s) - 1) /\ (i - 1) + 1 = i
    BY <1>1, <2>2
  <2>4. Tail(s)[i - 1] = x
    BY <1>1, <2>1, <2>3
  <2> QED BY <1>1, <2>3, <2>4 DEF Range
<1>7. Range(Tail(s)) = Range(s) \ {Head(s)}
  BY <1>5, <1>6
<1> QED BY <1>1, <1>3, <1>4, <1>7

\* A key goes to the end of the order unless it is in it.
LEMMA OrderAfterPut ==
    ASSUME NEW s \in Seq(ModelKeys), IsInjective(s), NEW k \in ModelKeys
    PROVE  /\ OrderAfter(s, k) \in Seq(ModelKeys) /\ IsInjective(OrderAfter(s, k))
           /\ Range(OrderAfter(s, k)) = Range(s) \cup {k}
           /\ Len(OrderAfter(s, k)) \in {Len(s), Len(s) + 1}
<1>1. CASE k \in Range(s)
  BY <1>1 DEF OrderAfter
<1>2. CASE k \notin Range(s)
  <2> DEFINE t == Append(s, k)
  <2>1. /\ t \in Seq(ModelKeys) /\ Len(t) = Len(s) + 1 /\ Len(s) \in Nat
        /\ DOMAIN s = 1..Len(s) /\ DOMAIN t = 1..(Len(s) + 1)
        /\ t[Len(s) + 1] = k /\ \A i \in 1..Len(s) : t[i] = s[i]
    OBVIOUS
  <2> HIDE DEF t
  <2>2. \A i \in 1..Len(s) : s[i] # k
    BY <1>2, <2>1 DEF Range
  <2>3. IsInjective(t)
    BY <2>1, <2>2 DEF IsInjective
  <2>4. Range(t) = Range(s) \cup {k}
    BY <2>1 DEF Range
  <2> QED BY <1>2, <2>1, <2>3, <2>4 DEF OrderAfter, t
<1> QED BY <1>1, <1>2

\* put keeps entries and order one, within the limit, at the limit too and
\* for a key that is already there (verified_cache.rs, 42-66).
LEMMA PutKeeps ==
    ASSUME ModelStoreInv, NEW k \in ModelKeys, NEW m \in Manifest, NEW b \in Contents,
           Put(k, m, b)
    PROVE  ModelStoreInv'
<1> DEFINE full == Cardinality(Held) >= max_entries /\ fifo # <<>>
           kept == IF full THEN Tail(fifo) ELSE fifo
           entry == [manifest |-> m, bytes |-> b]
           gone == IF full THEN {Head(fifo)} ELSE {}
<1>1. /\ fifo \in Seq(ModelKeys) /\ IsInjective(fifo) /\ Range(fifo) = Held
      /\ max_entries \in Nat /\ max_entries \in 0..MaxEntries
      /\ Len(fifo) <= IF max_entries = 0 THEN 1 ELSE max_entries
      /\ models \in [ModelKeys -> Manifest \cup {Missing}]
      /\ cached \in [ModelKeys -> CacheEntry \cup {Missing}]
      /\ \A j \in Held \cap vouched : Trusted(j, cached[j].manifest)
      /\ vouched \subseteq ModelKeys
  BY ModelAssumption DEF ModelStoreInv, ModelStoreTypeOK
<1>2. /\ fifo' = OrderAfter(kept, k) /\ UNCHANGED <<max_entries, models>>
      /\ cached' = [j \in ModelKeys |->
                       IF j = k THEN entry
                       ELSE IF full /\ j = Head(fifo) THEN Missing ELSE cached[j]]
      /\ vouched' = IF Trusted(k, m) THEN vouched \cup {k} ELSE vouched \ {k}
  BY DEF Put
<1>3. Cardinality(Held) = Len(fifo) /\ Len(fifo) \in Nat
  BY <1>1, LengthIsCardinality
<1>4. entry \in CacheEntry /\ entry # Missing /\ entry.manifest = m
  BY EntryIsThere DEF CacheEntry
<1>5. /\ kept \in Seq(ModelKeys) /\ IsInjective(kept) /\ Range(kept) = Held \ gone
      /\ Len(kept) = IF full THEN Len(fifo) - 1 ELSE Len(fifo)
  <2>1. CASE full
    BY <1>1, <2>1, TailOfOrder
  <2>2. CASE ~full
    BY <1>1, <2>2
  <2> QED BY <2>1, <2>2
<1> HIDE DEF kept, entry
<1>6. cached' \in [ModelKeys -> CacheEntry \cup {Missing}]
  BY <1>1, <1>2, <1>4
<1>7. Held' = (Held \ gone) \cup {k}
  <2>1. ASSUME NEW j \in ModelKeys
        PROVE  cached'[j] # Missing <=> j \in (Held \ gone) \cup {k}
    <3>1. cached'[j] = IF j = k THEN entry
                       ELSE IF full /\ j = Head(fifo) THEN Missing ELSE cached[j]
      BY <1>2
    <3>2. j \in gone <=> full /\ j = Head(fifo)
      OBVIOUS
    <3>3. j \in Held <=> cached[j] # Missing
      BY DEF Held
    <3> HIDE DEF full, gone
    <3> QED BY <1>4, <3>1, <3>2, <3>3
  <2> QED BY <2>1 DEF Held
<1>8. /\ fifo' \in Seq(ModelKeys) /\ IsInjective(fifo') /\ Range(fifo') = Held'
      /\ Len(fifo') \in {Len(kept), Len(kept) + 1}
  BY <1>2, <1>5, <1>7, OrderAfterPut
<1>9. Len(fifo') <= IF max_entries = 0 THEN 1 ELSE max_entries
  <2>1. CASE full
    BY <1>1, <1>3, <1>5, <1>8, <2>1
  <2>2. CASE ~full /\ fifo = <<>>
    <3>1. Len(fifo) = 0
      BY <2>2
    <3>2. Len(kept) = 0
      BY <1>5, <2>2, <3>1
    <3>3. PICK n \in Nat : n = Len(fifo') /\ n <= 1
      BY <1>8, <3>2
    <3>4. PICK max \in Nat : max = max_entries
      BY <1>1
    <3>5. n <= IF max = 0 THEN 1 ELSE max
      BY <3>3
    <3> QED BY <3>3, <3>4, <3>5
  <2>3. CASE ~full /\ fifo # <<>>
    BY <1>1, <1>3, <1>5, <1>8, <2>3
  <2> QED BY <2>1, <2>2, <2>3
<1>10. \A j \in Held' : cached'[j] \in CacheEntry
  BY <1>6 DEF Held
<1>11. ModelStoreTypeOK'
  BY <1>1, <1>2, <1>8, <1>9, <1>10 DEF ModelStoreTypeOK, CacheEntry
<1>12. ASSUME NEW j \in Held', j \in vouched'
       PROVE  models'[j] # Missing /\ models'[j].sha256 = cached'[j].manifest.sha256
  <2>0. j \in ModelKeys
    BY DEF Held
  <2>1. CASE j = k
    <3>1. Trusted(k, m)
      BY <1>2, <1>12, <2>1
    <3>2. cached'[k].manifest = m
      BY <1>2, <1>4
    <3> QED BY <1>2, <2>1, <3>1, <3>2 DEF Trusted
  <2>2. CASE j # k
    <3>1. j \in Held /\ cached'[j] = cached[j]
      BY <1>2, <1>7, <2>0, <2>2
    <3>2. j \in vouched
      BY <1>2, <1>12, <2>2
    <3> QED BY <1>1, <1>2, <2>0, <3>1, <3>2 DEF Trusted
  <2> QED BY <2>1, <2>2
<1>13. \A j \in (Held \cap vouched)' : Trusted(j, cached[j].manifest)'
  BY <1>12 DEF Trusted
<1> QED BY <1>6, <1>11, <1>13 DEF ModelStoreInv

\* The invariant of registry and cache holds throughout.
LEMMA ModelStoreInvariance == ModelStoreSpec => []ModelStoreInv
<1>1. ModelStoreInit => ModelStoreInv
  <2> SUFFICES ASSUME ModelStoreInit PROVE ModelStoreInv
    OBVIOUS
  <2>1. Held = {} /\ Range(fifo) = {} /\ IsInjective(fifo)
    BY DEF ModelStoreInit, Held, Range, IsInjective
  <2>2. max_entries \in Nat /\ fifo \in Seq(ModelKeys) /\ Len(fifo) = 0
    BY ModelAssumption DEF ModelStoreInit
  <2> QED BY <2>1, <2>2 DEF ModelStoreInit, ModelStoreInv, ModelStoreTypeOK
<1>2. ModelStoreInv /\ [ModelStoreNext]_modelStore => ModelStoreInv'
  <2> SUFFICES ASSUME ModelStoreInv, [ModelStoreNext]_modelStore PROVE ModelStoreInv'
    OBVIOUS
  <2>1. ASSUME NEW k \in ModelKeys, NEW m \in Manifest, PublishModel(k, m)
        PROVE  ModelStoreInv'
    <3>1. Held' = Held /\ vouched' = vouched /\ k \notin Held \cap vouched
      BY <2>1 DEF PublishModel, Accepts, Held, ModelStoreInv, Trusted
    <3>2. models' \in [ModelKeys -> Manifest \cup {Missing}]
          /\ \A j \in ModelKeys : j # k => models'[j] = models[j]
      BY <2>1 DEF PublishModel, ModelStoreInv, ModelStoreTypeOK
    <3>3. ModelStoreTypeOK'
      BY <2>1, <3>1, <3>2 DEF PublishModel, ModelStoreInv, ModelStoreTypeOK
    <3>4. \A j \in (Held \cap vouched)' : Trusted(j, cached[j].manifest)'
      BY <2>1, <3>1, <3>2 DEF PublishModel, ModelStoreInv, Trusted, Held
    <3> QED BY <2>1, <3>3, <3>4 DEF PublishModel, ModelStoreInv
  <2>2. ASSUME NEW k \in ModelKeys, NEW m \in Manifest, NEW b \in Contents, Put(k, m, b)
        PROVE  ModelStoreInv'
    BY <2>2, PutKeeps
  <2>3. ASSUME NEW k \in ModelKeys, Damage(k) PROVE ModelStoreInv'
    <3>1. PICK b \in Contents \cup {Damaged} : cached' = [cached EXCEPT ![k].bytes = b]
      BY <2>3 DEF Damage
    <3>2. cached[k] \in CacheEntry /\ cached \in [ModelKeys -> CacheEntry \cup {Missing}]
      BY <2>3 DEF Damage, ModelStoreInv
    <3>3. /\ cached' \in [ModelKeys -> CacheEntry \cup {Missing}]
          /\ cached'[k] \in CacheEntry /\ cached'[k].manifest = cached[k].manifest
          /\ \A j \in ModelKeys : j # k => cached'[j] = cached[j]
      BY <3>1, <3>2 DEF CacheEntry
    <3>4. Held' = Held
      BY <3>2, <3>3, EntryIsThere DEF Held
    <3>5. \A j \in Held : cached'[j] \in CacheEntry
      BY <3>3 DEF Held, ModelStoreInv
    <3>6. ModelStoreTypeOK'
      BY <2>3, <3>4, <3>5 DEF Damage, ModelStoreInv, ModelStoreTypeOK, CacheEntry
    <3>7. \A j \in (Held \cap vouched)' : Trusted(j, cached[j].manifest)'
      BY <2>3, <3>3, <3>4 DEF Damage, ModelStoreInv, Trusted, Held
    <3> QED BY <3>3, <3>6, <3>7 DEF ModelStoreInv
  <2>4. CASE UNCHANGED modelStore
    BY <2>4 DEF modelStore, ModelStoreInv, ModelStoreTypeOK, Held, Trusted
  <2> QED BY <2>1, <2>2, <2>3, <2>4 DEF ModelStoreNext
<1> QED BY <1>1, <1>2, PTL DEF ModelStoreSpec

\* The cache never outgrows its limit and its order lists each entry once,
\* for keys put again at the limit too (verified_cache.rs, 42-66).
THEOREM CacheKeepsItsOrder == ModelStoreSpec => []ModelStoreTypeOK
<1>1. ModelStoreInv => ModelStoreTypeOK
  BY DEF ModelStoreInv
<1> QED BY <1>1, ModelStoreInvariance, PTL

\* "niemals Rückgabe ungeprüfter Bytes" (verified_cache.rs, 6): what get
\* returns under a key that was put with a manifest publish had accepted has
\* the hash the registry published, however often manifests were published
\* again, entries evicted and put back, with other manifests too, and bytes
\* damaged.
THEOREM CacheServesWhatIsPublished == ModelStoreSpec => []ServedIsPublished
<1>1. ModelStoreInv => ServedIsPublished
  <2> SUFFICES ASSUME ModelStoreInv, NEW k \in vouched, Get(k) # Missing
               PROVE  models[k] # Missing /\ Get(k) = models[k].sha256
    BY DEF ServedIsPublished
  <2>1. cached[k] # Missing /\ cached[k].manifest.sha256 = cached[k].bytes
        /\ Get(k) = cached[k].bytes
    BY DEF Get, HashOk
  <2>2. k \in Held \cap vouched
    BY <2>1 DEF ModelStoreInv, ModelStoreTypeOK, Held
  <2> QED BY <2>1, <2>2 DEF ModelStoreInv, Trusted
<1> QED BY <1>1, ModelStoreInvariance, PTL
-----------------------------------------------------------------------------
(* The package manager.  A recursive call has one more name on its path,   *)
(* and so the depth is bounded by the names; what a call finds is sound    *)
(* when what it was given is, SoundPlan, and every package on the path     *)
(* needs the one it asks for, IsReady.                                     *)

HasHighest(T) == \E v \in T : \A w \in T : Leq(w, v)

\* Versions are totally ordered.
LEMMA LeqFacts ==
    ASSUME NEW u \in Nat \X Nat, NEW v \in Nat \X Nat, NEW w \in Nat \X Nat
    PROVE  Leq(u, u) /\ (Leq(u, v) \/ Leq(v, u)) /\ (Leq(u, v) /\ Leq(v, w) => Leq(u, w))
<1>1. /\ u[1] \in Nat /\ u[2] \in Nat /\ v[1] \in Nat /\ v[2] \in Nat
      /\ w[1] \in Nat /\ w[2] \in Nat
  OBVIOUS
<1> QED BY <1>1 DEF Leq

\* One of finitely many versions is the highest.
LEMMA SomeIsHighest ==
    ASSUME NEW vs \in SUBSET (Nat \X Nat), IsFiniteSet(vs), vs # {}
    PROVE  HasHighest(vs)
<1> DEFINE P == {k \in Nat : \A T \in SUBSET (Nat \X Nat) :
                                IsFiniteSet(T) /\ Cardinality(T) = k + 1 => HasHighest(T)}
<1>1. 0 \in P
  <2> SUFFICES ASSUME NEW T \in SUBSET (Nat \X Nat), IsFiniteSet(T), Cardinality(T) = 1
               PROVE  HasHighest(T)
    OBVIOUS
  <2>1. PICK v : T = {v}
    BY FS_Singleton
  <2>2. v \in Nat \X Nat
    BY <2>1
  <2> QED BY <2>1, <2>2, LeqFacts DEF HasHighest
<1>2. ASSUME NEW k \in Nat, k \in P PROVE k + 1 \in P
  <2> SUFFICES ASSUME NEW T \in SUBSET (Nat \X Nat), IsFiniteSet(T),
                      Cardinality(T) = (k + 1) + 1
               PROVE  HasHighest(T)
    OBVIOUS
  <2>1. T # {}
    BY FS_EmptySet
  <2>2. PICK x \in T : TRUE
    BY <2>1
  <2> DEFINE R == T \ {x}
  <2>3. R \in SUBSET (Nat \X Nat) /\ IsFiniteSet(R) /\ Cardinality(R) = k + 1
    BY FS_RemoveElement
  <2>4. PICK v \in R : \A w \in R : Leq(w, v)
    BY <1>2, <2>3 DEF HasHighest
  <2>5. x \in Nat \X Nat /\ v \in Nat \X Nat /\ v \in T
    BY <2>3
  <2>6. \A w \in T : w = x \/ w \in R
    OBVIOUS
  <2>7. CASE Leq(x, v)
    BY <2>4, <2>5, <2>6, <2>7 DEF HasHighest
  <2>8. CASE Leq(v, x)
    <3>1. \A w \in R : Leq(w, x)
      BY <2>3, <2>4, <2>5, <2>8, LeqFacts
    <3> QED BY <3>1, <2>5, <2>6, LeqFacts DEF HasHighest
  <2> QED BY <2>5, <2>7, <2>8, LeqFacts
<1> HIDE DEF P
<1>3. \A k \in Nat : k \in P
  BY <1>1, <1>2, NatSetInduction
<1>4. Cardinality(vs) \in Nat /\ Cardinality(vs) # 0
  BY FS_EmptySet, FS_CardinalityType
<1>5. PICK k \in Nat : Cardinality(vs) = k + 1
  <2>1. Cardinality(vs) - 1 \in Nat /\ Cardinality(vs) = (Cardinality(vs) - 1) + 1
    BY <1>4
  <2> QED BY <2>1
<1> QED BY <1>3, <1>5 DEF P

\* highest and best_match find one of the versions they are given, if there
\* is any.
LEMMA HighestFacts ==
    ASSUME NEW vs \in SUBSET Versions, IsFiniteSet(vs)
    PROVE  (vs = {} => Highest(vs) = NoVersion) /\ (vs # {} => Highest(vs) \in vs)
<1>1. vs \in SUBSET (Nat \X Nat)
  BY PackagesAssumption DEF Versions
<1>2. ASSUME vs # {} PROVE Highest(vs) \in vs
  <2>1. HasHighest(vs)
    BY <1>1, <1>2, SomeIsHighest
  <2>2. Highest(vs) = CHOOSE v \in vs : \A w \in vs : Leq(w, v)
    BY <1>2 DEF Highest
  <2> QED BY <2>1, <2>2, Zenon DEF HasHighest
<1> QED BY <1>2 DEF Highest

\* What holds of the registry: a lockfile names entries that are there.
RegistryInv ==
    /\ PackagesTypeOK /\ IsFiniteSet(packages)
    /\ lock # NoVersion => \A e \in lock : \E m \in packages : LockEntry(m) = e

\* A package has finitely many versions.
LEMMA VersionsFacts ==
    ASSUME RegistryInv, NEW name
    PROVE  VersionsOf(name) \in SUBSET Versions /\ IsFiniteSet(VersionsOf(name))
<1> DEFINE ms == {x \in packages : x.name = name}
           vs == {m.version : m \in ms}
           f == [m \in ms |-> m.version]
<1>1. VersionsOf(name) = vs
  BY DEF VersionsOf
<1>2. vs \subseteq Versions
  BY DEF Versions, RegistryInv, PackagesTypeOK
<1>3. IsFiniteSet(ms)
  BY FS_Subset DEF RegistryInv
<1>4. f \in Surjection(ms, vs)
  BY DEF Surjection
<1>5. IsFiniteSet(vs)
  BY <1>3, <1>4, FS_Surjection
<1> QED BY <1>1, <1>2, <1>5

\* A version that best_match returns is published.
LEMMA MatchFacts ==
    ASSUME RegistryInv, NEW dep, BestMatch(dep) # NoVersion
    PROVE  BestMatch(dep) \in VersionsOf(dep.name)
<1> DEFINE vs == {v \in VersionsOf(dep.name) : Matches(dep.req, v)}
<1>1. vs \in SUBSET Versions /\ IsFiniteSet(vs) /\ vs \subseteq VersionsOf(dep.name)
  BY VersionsFacts, FS_Subset
<1> HIDE DEF vs
<1>2. BestMatch(dep) = Highest(vs)
  BY DEF BestMatch, vs
<1> QED BY <1>1, <1>2, HighestFacts

\* A published version has one entry.
IsEntryOf(e, name, version) ==
    /\ e \in packages /\ e.name = name /\ e.version = version
    /\ Entry(name, version) = {e}

\* A version that is published has exactly one entry in the registry.
LEMMA EntryFacts ==
    ASSUME RegistryInv, NEW name, NEW version \in VersionsOf(name)
    PROVE  \E e : IsEntryOf(e, name, version)
<1>1. PICK e \in packages : e.name = name /\ e.version = version
  BY DEF VersionsOf
<1>2. \A m \in packages : m.name = name /\ m.version = version => m = e
  BY <1>1 DEF RegistryInv, PackagesTypeOK
<1>3. Entry(name, version) = {e}
  BY <1>1, <1>2 DEF Entry
<1> QED BY <1>1, <1>3 DEF IsEntryOf

(* The recursive functions are what their recursion says.                  *)

\* One round of the loop over deps.
CallFor(dep, call, plan) ==
    [name |-> dep.name, version |-> BestMatch(dep),
     path |-> call.path \cup {call.name}, plan |-> plan]

LoopStep(before, dep, call, inner) ==
    IF before.error # "" THEN before
    ELSE IF BestMatch(dep) = NoVersion THEN Failed("MissingDependency")
    ELSE inner[CallFor(dep, call, before.plan)]

IsLoop(after, n, entry, call, inner) ==
    /\ after[0] = Ok(call.plan)
    /\ \A i \in 0..n - 1 : after[i + 1] = LoopStep(after[i], entry.deps[i + 1], call, inner)

\* The loop of resolve_inner over the dependencies, one after another.
LEMMA LoopFacts ==
    ASSUME NEW n \in Nat, NEW entry, n = Len(entry.deps), NEW call, NEW inner
    PROVE  \E after : /\ IsLoop(after, n, entry, call, inner)
                      /\ ResolveDeps(entry, call, inner) = after[n]
<1> DEFINE G(i, y) == LoopStep(y, entry.deps[i], call, inner)
           D(h, k) == [i \in 0..k |-> IF i = 0 THEN Ok(call.plan) ELSE G(i, h[i - 1])]
           P == {k \in Nat : \E f : f = D(f, k)}
<1>1. \A k \in Nat : k \in P
  <2> HIDE DEF G
  <2>1. 0 \in P
    <3> DEFINE e == [i \in 0..0 |-> Ok(call.plan)]
    <3>1. e = D(e, 0)
      OBVIOUS
    <3> QED BY <3>1
  <2>2. ASSUME NEW k \in Nat, k \in P PROVE k + 1 \in P
    <3>1. PICK f : f = D(f, k)
      BY <2>2
    <3> DEFINE e == [i \in 0..k + 1 |-> IF i = k + 1 THEN G(k + 1, f[k]) ELSE f[i]]
    <3>2. ASSUME NEW i \in 0..k + 1
          PROVE  e[i] = IF i = 0 THEN Ok(call.plan) ELSE G(i, e[i - 1])
      <4>1. CASE i = k + 1
        <5>1. e[i] = G(k + 1, f[k]) /\ e[i - 1] = f[k] /\ i # 0
          BY <4>1
        <5> QED BY <5>1, <4>1
      <4>2. CASE i # k + 1
        <5>1. i \in 0..k /\ e[i] = f[i] /\ f[i] = IF i = 0 THEN Ok(call.plan) ELSE G(i, f[i - 1])
          BY <4>2, <3>1
        <5>2. i # 0 => e[i - 1] = f[i - 1]
          BY <4>2
        <5> HIDE DEF e
        <5> QED BY <5>1, <5>2
      <4> QED BY <4>1, <4>2
    <3>3. e = [i \in 0..k + 1 |-> e[i]]
      OBVIOUS
    <3> HIDE DEF e
    <3>4. e = D(e, k + 1)
      BY <3>2, <3>3
    <3> QED BY <3>4
  <2> HIDE DEF P
  <2> QED BY <2>1, <2>2, NatSetInduction
<1> DEFINE v == CHOOSE h : h = D(h, Len(entry.deps))
<1>2. v = D(v, Len(entry.deps))
  <2>1. \E h : h = D(h, Len(entry.deps))
    BY <1>1
  <2> HIDE DEF D
  <2> QED BY <2>1, Zenon
<1>3. ResolveDeps(entry, call, inner) = v[Len(entry.deps)]
  BY DEF ResolveDeps, LoopStep, CallFor
<1> HIDE DEF v
<1>4. v[0] = Ok(call.plan) /\ \A i \in 1..n : v[i] = G(i, v[i - 1])
  <2> HIDE DEF G
  <2>1. v = [i \in 0..n |-> IF i = 0 THEN Ok(call.plan) ELSE G(i, v[i - 1])]
    BY <1>2
  <2>2. v[0] = Ok(call.plan)
    BY <2>1
  <2>3. ASSUME NEW i \in 1..n PROVE v[i] = G(i, v[i - 1])
    <3>1. i \in 0..n /\ i # 0
      OBVIOUS
    <3> QED BY <3>1, <2>1
  <2> QED BY <2>2, <2>3
<1>5. ASSUME NEW i \in 0..n - 1
      PROVE  v[i + 1] = LoopStep(v[i], entry.deps[i + 1], call, inner)
  <2>1. i + 1 \in 1..n /\ (i + 1) - 1 = i
    OBVIOUS
  <2>2. v[i + 1] = G(i + 1, v[i])
    <3> HIDE DEF G
    <3> QED BY <1>4, <2>1
  <2> QED BY <2>2
<1>6. IsLoop(v, n, entry, call, inner)
  BY <1>4, <1>5 DEF IsLoop
<1> QED BY <1>3, <1>6

\* Nested calls.
IsNest(at, N) ==
    /\ \A call \in ResolveCalls : at[0][call] = Failed("CycleDetected")
    /\ \A d \in 0..N - 1 : \A call \in ResolveCalls : at[d + 1][call] = ResolveInner(call, at[d])

\* The calls of resolve_inner, each depth by the calls one level further down.
LEMMA NestFacts ==
    ASSUME NEW N \in Nat, N = Cardinality(PublishedNames)
    PROVE  IsNest(ResolveAt, N)
<1> DEFINE G(d, y) == [call \in ResolveCalls |-> IF d = 0 THEN Failed("CycleDetected")
                                          ELSE ResolveInner(call, y)]
           D(h, k) == [d \in 0..k |-> G(d, h[d - 1])]
           P == {k \in Nat : \E f : f = D(f, k)}
<1>0. \A y, z : G(0, y) = G(0, z)
  OBVIOUS
<1>1. \A k \in Nat : k \in P
  <2> HIDE DEF G
  <2>1. 0 \in P
    <3> DEFINE e == [d \in 0..0 |-> G(0, 0)]
    <3>1. e = D(e, 0)
      BY <1>0
    <3> QED BY <3>1
  <2>2. ASSUME NEW k \in Nat, k \in P PROVE k + 1 \in P
    <3>1. PICK f : f = D(f, k)
      BY <2>2
    <3> DEFINE e == [d \in 0..k + 1 |-> IF d = k + 1 THEN G(k + 1, f[k]) ELSE f[d]]
    <3>2. ASSUME NEW d \in 0..k + 1 PROVE e[d] = G(d, e[d - 1])
      <4>1. CASE d = k + 1
        <5>1. e[d] = G(k + 1, f[k]) /\ e[d - 1] = f[k]
          BY <4>1
        <5> QED BY <5>1, <4>1
      <4>2. CASE d # k + 1
        <5>1. d \in 0..k /\ e[d] = f[d] /\ f[d] = G(d, f[d - 1])
          BY <4>2, <3>1
        <5>2. d # 0 => e[d - 1] = f[d - 1]
          BY <4>2
        <5> HIDE DEF e
        <5> QED BY <5>1, <5>2, <1>0
      <4> QED BY <4>1, <4>2
    <3>3. e = [d \in 0..k + 1 |-> e[d]]
      OBVIOUS
    <3> HIDE DEF e
    <3>4. e = D(e, k + 1)
      BY <3>2, <3>3
    <3> QED BY <3>4
  <2> HIDE DEF P
  <2> QED BY <2>1, <2>2, NatSetInduction
<1> DEFINE v == ResolveAt
<1>2. v = D(v, N)
  <2>1. \E h : h = D(h, Cardinality(PublishedNames))
    BY <1>1
  <2>2. v = CHOOSE h : h = D(h, Cardinality(PublishedNames))
    BY DEF ResolveAt
  <2> HIDE DEF v, D
  <2>3. v = D(v, Cardinality(PublishedNames))
    BY <2>1, <2>2, Zenon
  <2> QED BY <2>3
<1> HIDE DEF v
<1>3. v[0] = G(0, v[0 - 1]) /\ \A d \in 0..N - 1 : v[d + 1] = G(d + 1, v[d])
  <2> HIDE DEF G
  <2> QED BY <1>2
<1>4. \A call \in ResolveCalls : v[0][call] = Failed("CycleDetected")
  BY <1>3
<1>5. ASSUME NEW d \in 0..N - 1, NEW call \in ResolveCalls PROVE v[d + 1][call] = ResolveInner(call, v[d])
  <2>1. v[d + 1] = G(d + 1, v[d]) /\ d + 1 # 0
    BY <1>3
  <2> QED BY <2>1
<1> QED BY <1>4, <1>5 DEF IsNest, v

(* resolve.                                                                *)

\* Needs is closed under dependencies.
LEMMA NeedsFacts ==
    ASSUME NEW m \in packages
    PROVE  /\ Needs[m] \subseteq packages /\ Chosen(m) \subseteq Needs[m]
           /\ \A n \in Needs[m] : Chosen(n) \subseteq Needs[m]
<1> DEFINE chosen == [x \in packages |-> Chosen(x)]
           closed == {S \in SUBSET packages : \A x \in S : chosen[x] \subseteq S}
<1>1. \A x \in packages : chosen[x] = Chosen(x) /\ Chosen(x) \subseteq packages
  BY DEF Chosen, Entry
<1>2. Needs[m] = {n \in packages : \A S \in closed : chosen[m] \subseteq S => n \in S}
  BY DEF Needs
<1>3. \A S \in closed : \A x \in S : chosen[x] \subseteq S
  OBVIOUS
<1> HIDE DEF chosen, closed
<1>4. ASSUME NEW n \in Needs[m], NEW y \in Chosen(n) PROVE y \in Needs[m]
  <2>1. n \in packages /\ y \in packages
    BY <1>1, <1>2
  <2>2. ASSUME NEW S \in closed, chosen[m] \subseteq S PROVE y \in S
    <3>1. n \in S
      BY <1>2, <2>2
    <3> QED BY <3>1, <2>1, <1>1, <1>3
  <2> QED BY <2>1, <2>2, <1>2
<1> QED BY <1>1, <1>2, <1>4

\* What Root needs, itself included, and what may be wrong with it.
RootEntry == Entry(Root, Highest(VersionsOf(Root)))
Wanted == RootEntry \cup UNION {Needs[m] : m \in RootEntry}
DependencyMissing == \E m \in Wanted : \E dep \in Deps(m) : BestMatch(dep) = NoVersion
CycleExists == \E m \in Wanted : \E n \in Needs[m] : n.name = m.name

\* So is what the root asks for.
LEMMA WantedFacts ==
    /\ Wanted \subseteq packages
    /\ \A m \in Wanted : Chosen(m) \subseteq Wanted
<1>1. RootEntry \subseteq packages
  BY DEF RootEntry, Entry
<1>2. \A m \in RootEntry : /\ Needs[m] \subseteq packages /\ Chosen(m) \subseteq Needs[m]
                           /\ \A n \in Needs[m] : Chosen(n) \subseteq Needs[m]
  BY <1>1, NeedsFacts
<1> QED BY <1>1, <1>2 DEF Wanted

\* What is resolved, at any time: one version of a package, with everything
\* it depends on, no cycle, and nothing of the path.
SoundPlan(plan, path) ==
    /\ plan \subseteq Wanted
    /\ \A m, n \in plan : m.name = n.name => m = n
    /\ \A m \in plan : \A dep \in Deps(m) : Resolved(plan, dep.name)
    /\ Acyclic(plan)
    /\ \A m \in plan : m.name \notin path

\* The order of resolve_inner: a package is added when all it depends on is
\* there, and it is not.
LEMMA AddPackage ==
    ASSUME NEW plan, NEW path, NEW entry \in Wanted, entry.name \notin path,
           SoundPlan(plan, path \cup {entry.name}),
           \A dep \in Deps(entry) : Resolved(plan, dep.name)
    PROVE  SoundPlan(plan \cup {entry}, path)
<1> DEFINE new == plan \cup {entry}
<1>1. \A m \in plan : m.name # entry.name
  BY DEF SoundPlan
<1>2. \A m, n \in new : m.name = n.name => m = n
  BY <1>1 DEF SoundPlan
<1>3. \A m \in new : \A dep \in Deps(m) : Resolved(plan, dep.name)
  BY DEF SoundPlan
<1>4. \A m \in new : \A dep \in Deps(m) : Resolved(new, dep.name)
  BY <1>3 DEF Resolved
<1>5. ASSUME NEW S \in (SUBSET new) \ {{}},
             \A m \in S : \E dep \in Deps(m), n \in S : n.name = dep.name
      PROVE  FALSE
  <2> DEFINE T == S \ {entry}
  <2>1. T \in SUBSET plan
    OBVIOUS
  \* What a package of S depends on in S is in the plan, by its name.
  <2>2. ASSUME NEW m \in S PROVE \E dep \in Deps(m), n \in T : n.name = dep.name
    <3>1. PICK dep \in Deps(m), n \in S : n.name = dep.name
      BY <1>5
    <3>2. Resolved(plan, dep.name)
      BY <1>3
    <3>3. n # entry
      BY <3>1, <3>2, <1>1 DEF Resolved
    <3> QED BY <3>1, <3>3
  <2>3. T # {}
    BY <2>2
  <2> HIDE DEF T
  <2>4. PICK m \in T : \A dep \in Deps(m), n \in T : n.name # dep.name
    BY <2>1, <2>3 DEF SoundPlan, Acyclic
  <2>5. m \in S
    BY DEF T
  <2> QED BY <2>2, <2>4, <2>5
<1>6. Acyclic(new)
  BY <1>5 DEF Acyclic
<1>7. new \subseteq Wanted /\ \A m \in new : m.name \notin path
  BY DEF SoundPlan
<1> HIDE DEF new
<1>8. SoundPlan(new, path)
  BY <1>2, <1>4, <1>6, <1>7 DEF SoundPlan
<1> QED BY <1>8 DEF new

\* A call resolve_inner may be made with: every package on the path needs the
\* one that is asked for.
IsReady(call, e) ==
    /\ e \in Wanted /\ e.name = call.name /\ Entry(call.name, call.version) = {e}
    /\ \A p \in call.path : \E x \in Wanted : x.name = p /\ e \in Needs[x]
    /\ SoundPlan(call.plan, call.path)

\* An error has its cause.
HasCause(res) ==
    /\ res.error \in {"", "MissingDependency", "CycleDetected"}
    /\ res.error = "MissingDependency" => DependencyMissing
    /\ res.error = "CycleDetected" => CycleExists

\* What it then returns.
IsRight(res, call, e) ==
    /\ HasCause(res)
    /\ res.error = "" => /\ SoundPlan(res.plan, call.path) /\ call.plan \subseteq res.plan
                         /\ Resolved(res.plan, call.name)
                         /\ Resolved(call.plan, call.name) \/ e \in res.plan

\* The fields of what it returns.
LEMMA Outcomes ==
    /\ \A plan : Ok(plan).plan = plan /\ Ok(plan).error = ""
    /\ \A error : Failed(error).plan = {} /\ Failed(error).error = error
BY DEF Ok, Failed

\* The loop over deps, when the calls in it are right.
LEMMA LoopIsRight ==
    ASSUME RegistryInv, NEW call \in ResolveCalls, NEW e, IsReady(call, e),
           call.name \notin call.path, ~Resolved(call.plan, call.name), NEW inner,
           \A c \in ResolveCalls : \A x : IsReady(c, x) /\ c.path = call.path \cup {call.name}
                                      => IsRight(inner[c], c, x)
    PROVE  LET res == ResolveDeps(e, call, inner)
           IN  /\ HasCause(res)
               /\ res.error = "" => /\ SoundPlan(res.plan, call.path \cup {call.name})
                                    /\ call.plan \subseteq res.plan
                                    /\ \A dep \in Deps(e) : Resolved(res.plan, dep.name)
<1>e. e \in packages /\ e \in Manifests
  BY WantedFacts DEF IsReady, RegistryInv, PackagesTypeOK
<1>d. e.deps \in Seq(Deps(e))
  BY <1>e, PackagesAssumption
<1>n. PICK n \in Nat : n = Len(e.deps) /\ DOMAIN e.deps = 1..n
  BY <1>d
<1>1. PICK after : IsLoop(after, n, e, call, inner) /\ ResolveDeps(e, call, inner) = after[n]
  BY <1>n, LoopFacts
<1> DEFINE path == call.path \cup {call.name}
           Inv(a, i) == /\ HasCause(a)
                        /\ a.error = "" => /\ SoundPlan(a.plan, path) /\ call.plan \subseteq a.plan
                                           /\ \A j \in 1..i : Resolved(a.plan, e.deps[j].name)
           U == {i \in Nat : i <= n => Inv(after[i], i)}
<1>2. 0 \in U
  <2>0. after[0] = Ok(call.plan)
    BY <1>1 DEF IsLoop
  <2>1. after[0].error = "" /\ after[0].plan = call.plan
    BY <2>0, Outcomes, Zenon
  <2>2. SoundPlan(call.plan, path)
    BY DEF IsReady, SoundPlan, Resolved
  <2> DEFINE a == after[0]
  <2>3. a.error = "" /\ a.plan = call.plan
    BY <2>1
  <2> HIDE DEF a
  <2>4. Inv(a, 0)
    <3>1. HasCause(a)
      BY <2>3 DEF HasCause
    <3>2. \A j \in 1..0 : Resolved(a.plan, e.deps[j].name)
      OBVIOUS
    <3> QED BY <3>1, <3>2, <2>2, <2>3
  <2> QED BY <2>4 DEF a
<1>3. ASSUME NEW i \in Nat, i \in U PROVE i + 1 \in U
  <2> HIDE DEF Inv
  <2> SUFFICES ASSUME i + 1 <= n PROVE Inv(after[i + 1], i + 1)
    OBVIOUS
  <2> DEFINE a == after[i]
             b == after[i + 1]
             dep == e.deps[i + 1]
  <2>1. Inv(a, i)
    BY <1>3 DEF a
  <2>2. b = LoopStep(a, dep, call, inner)
    <3>1. i \in 0..n - 1
      OBVIOUS
    <3> QED BY <3>1, <1>1 DEF IsLoop
  <2>3. dep \in Deps(e) /\ i + 1 \in 1..n
    BY <1>n DEF Deps
  <2> HIDE DEF a, b, dep
  <2> USE DEF Inv
  <2>4. CASE a.error # ""
    <3>1. b = a
      BY <2>2, <2>4 DEF LoopStep
    <3>2. Inv(b, i + 1)
      BY <3>1, <2>1, <2>4
    <3> QED BY <3>2 DEF b
  <2>5. CASE a.error = "" /\ BestMatch(dep) = NoVersion
    <3>1. b.error = "MissingDependency"
      BY <2>2, <2>5 DEF LoopStep, Failed
    <3>2. DependencyMissing
      BY <2>3, <2>5 DEF DependencyMissing, IsReady
    <3>3. Inv(b, i + 1)
      BY <3>1, <3>2 DEF HasCause
    <3> QED BY <3>3 DEF b
  <2>6. CASE a.error = "" /\ BestMatch(dep) # NoVersion
    <3> DEFINE c == CallFor(dep, call, a.plan)
    <3>1. b = inner[c]
      BY <2>2, <2>6 DEF LoopStep
    <3>2. c.name = dep.name /\ c.version = BestMatch(dep) /\ c.path = path /\ c.plan = a.plan
      BY DEF CallFor
    <3>3. BestMatch(dep) \in VersionsOf(dep.name)
      BY <2>6, MatchFacts
    <3>4. PICK x : IsEntryOf(x, dep.name, BestMatch(dep))
      BY <3>3, EntryFacts
    <3>5. x \in Chosen(e)
      BY <3>4, <2>3 DEF IsEntryOf, Chosen
    <3>6. c \in ResolveCalls
      <4>1. dep.name \in PublishedNames /\ BestMatch(dep) \in Versions
        BY <3>4 DEF IsEntryOf, PublishedNames, Versions, RegistryInv, PackagesTypeOK
      <4>2. path \in SUBSET PublishedNames /\ a.plan \in SUBSET packages
        BY <2>1, <2>6, WantedFacts DEF ResolveCalls, SoundPlan
      <4> QED BY <4>1, <4>2 DEF CallFor, ResolveCalls
    <3> HIDE DEF c
    <3>7. IsReady(c, x)
      <4>1. x \in Wanted /\ x.name = c.name /\ Entry(c.name, c.version) = {x}
        BY <3>2, <3>4, <3>5, WantedFacts DEF IsReady, IsEntryOf
      <4>2. ASSUME NEW p \in c.path PROVE \E y \in Wanted : y.name = p /\ x \in Needs[y]
        <5>1. CASE p \in call.path
          <6>1. PICK y \in Wanted : y.name = p /\ e \in Needs[y]
            BY <5>1 DEF IsReady
          <6>2. x \in Needs[y]
            BY <6>1, <3>5, NeedsFacts, WantedFacts
          <6> QED BY <6>1, <6>2
        <5>2. CASE p = call.name
          <6>1. e \in Wanted /\ e.name = p
            BY <5>2 DEF IsReady
          <6>2. x \in Needs[e]
            BY <1>e, <3>5, NeedsFacts
          <6> QED BY <6>1, <6>2
        <5> QED BY <5>1, <5>2, <3>2
      <4>3. SoundPlan(c.plan, c.path)
        BY <2>1, <2>6, <3>2
      <4> QED BY <4>1, <4>2, <4>3 DEF IsReady
    <3>8. IsRight(b, c, x)
      BY <3>1, <3>2, <3>6, <3>7
    <3>9. ASSUME b.error = ""
          PROVE  /\ SoundPlan(b.plan, path) /\ call.plan \subseteq b.plan
                 /\ \A j \in 1..i + 1 : Resolved(b.plan, e.deps[j].name)
      <4>1. SoundPlan(b.plan, path) /\ a.plan \subseteq b.plan /\ Resolved(b.plan, dep.name)
        BY <3>2, <3>8, <3>9 DEF IsRight
      <4>2. ASSUME NEW j \in 1..i + 1 PROVE Resolved(b.plan, e.deps[j].name)
        <5>1. CASE j = i + 1
          BY <4>1, <5>1 DEF dep
        <5>2. CASE j # i + 1
          <6>1. Resolved(a.plan, e.deps[j].name)
            <7>1. j \in 1..i
              BY <5>2
            <7>2. \A k \in 1..i : Resolved(a.plan, e.deps[k].name)
              BY <2>1, <2>6
            <7> QED BY <7>1, <7>2
          <6> QED BY <6>1, <4>1 DEF Resolved
        <5> QED BY <5>1, <5>2
      <4> QED BY <4>1, <4>2, <2>1, <2>6
    <3>10. Inv(b, i + 1)
      BY <3>8, <3>9 DEF IsRight
    <3> QED BY <3>10 DEF b
  <2> QED BY <2>4, <2>5, <2>6
<1> HIDE DEF U
<1>4. n \in U
  BY <1>2, <1>3, NatSetInduction
<1>5. Inv(after[n], n)
  <2> HIDE DEF Inv
  <2> QED BY <1>4 DEF U
<1>6. after[n].error = "" => \A dep \in Deps(e) : Resolved(after[n].plan, dep.name)
  BY <1>5, <1>n DEF Deps
<1> QED BY <1>1, <1>5, <1>6

\* A package on the path that is asked for again closes a cycle.
LEMMA CycleIsRight ==
    ASSUME NEW call, NEW e, IsReady(call, e), call.name \in call.path, NEW res,
           res = Failed("CycleDetected")
    PROVE  IsRight(res, call, e)
<1>1. PICK x \in Wanted : x.name = call.name /\ e \in Needs[x]
  BY DEF IsReady
<1>2. CycleExists
  BY <1>1 DEF IsReady, CycleExists
<1>3. res.error = "CycleDetected"
  BY Outcomes
<1> QED BY <1>2, <1>3 DEF IsRight, HasCause

\* resolve_inner, when the calls it makes are right.
LEMMA InnerIsRight ==
    ASSUME RegistryInv, NEW call \in ResolveCalls, NEW e, IsReady(call, e), NEW inner,
           \A c \in ResolveCalls : \A x :
               IsReady(c, x) /\ c.path = call.path \cup {call.name} /\ call.name \notin call.path
                  => IsRight(inner[c], c, x)
    PROVE  IsRight(ResolveInner(call, inner), call, e)
<1> DEFINE res == ResolveInner(call, inner)
<1>1. CASE call.name \in call.path
  <2>1. res = Failed("CycleDetected")
    BY <1>1 DEF ResolveInner
  <2> QED BY <2>1, <1>1, CycleIsRight
<1>2. CASE call.name \notin call.path /\ Resolved(call.plan, call.name)
  <2>1. res = Ok(call.plan)
    BY <1>2 DEF ResolveInner
  <2>2. res.plan = call.plan /\ res.error = ""
    BY <2>1, Outcomes, Zenon
  <2> HIDE DEF res
  <2>3. IsRight(res, call, e)
    BY <2>2, <1>2 DEF IsRight, HasCause, IsReady
  <2> QED BY <2>3 DEF res
<1>3. CASE call.name \notin call.path /\ ~Resolved(call.plan, call.name)
  <2> DEFINE below == ResolveDeps(e, call, inner)
  <2>1. /\ HasCause(below)
        /\ below.error = "" => /\ SoundPlan(below.plan, call.path \cup {call.name})
                               /\ call.plan \subseteq below.plan
                               /\ \A dep \in Deps(e) : Resolved(below.plan, dep.name)
    BY <1>3, LoopIsRight
  <2>2. res = IF below.error # "" THEN below ELSE Ok(below.plan \cup {e})
    <3>1. \A x : x = (CHOOSE m \in {x} : TRUE)
      OBVIOUS
    <3>2. e = CHOOSE m \in Entry(call.name, call.version) : TRUE
      BY <3>1 DEF IsReady
    <3> QED BY <1>3, <3>2 DEF ResolveInner
  <2> HIDE DEF below, res
  <2>3. CASE below.error # ""
    BY <2>1, <2>2, <2>3 DEF IsRight, res
  <2>4. CASE below.error = ""
    <3>1. res = Ok(below.plan \cup {e})
      BY <2>2, <2>4
    <3>2. res.error = "" /\ res.plan = below.plan \cup {e}
      BY <3>1, Outcomes, Zenon
    <3>3. SoundPlan(below.plan \cup {e}, call.path)
      BY <2>1, <2>4, <1>3, AddPackage DEF IsReady
    <3>4. call.plan \subseteq res.plan /\ e \in res.plan /\ Resolved(res.plan, call.name)
      BY <3>2, <2>1, <2>4 DEF Resolved, IsReady
    <3>5. IsRight(res, call, e)
      BY <3>2, <3>3, <3>4 DEF IsRight, HasCause
    <3> QED BY <3>5 DEF res
  <2> QED BY <2>3, <2>4
<1> QED BY <1>1, <1>2, <1>3

\* Names are left for as many nested calls as may still be made.
NamesLeft(call) == Cardinality(PublishedNames \ call.path)

\* resolve_inner keeps its promise to every call: by induction on the depth,
\* since a call adds to the path a name that was not there.
LEMMA NestIsRight ==
    ASSUME RegistryInv, NEW N \in Nat, N = Cardinality(PublishedNames),
           IsFiniteSet(PublishedNames), NEW call \in ResolveCalls, NEW e, IsReady(call, e)
    PROVE  IsRight(ResolveAt[N][call], call, e)
<1> DEFINE at == ResolveAt
           Right(d) == \A c \in ResolveCalls : \A x :
                           IsReady(c, x) /\ NamesLeft(c) <= d => IsRight(at[d][c], c, x)
           U == {d \in Nat : d <= N => Right(d)}
<1>1. IsNest(at, N)
  BY NestFacts
<1> HIDE DEF at
<1>c. ASSUME NEW c \in ResolveCalls
      PROVE  /\ c.path \subseteq PublishedNames /\ c.name \in PublishedNames
             /\ IsFiniteSet(PublishedNames \ c.path) /\ NamesLeft(c) \in Nat
  BY FS_Subset, FS_CardinalityType DEF ResolveCalls, NamesLeft
<1>2. 0 \in U
  <2> SUFFICES ASSUME NEW c \in ResolveCalls, NEW x, IsReady(c, x), NamesLeft(c) <= 0
               PROVE  IsRight(at[0][c], c, x)
    OBVIOUS
  <2>0. NamesLeft(c) \in Nat
    BY <1>c
  <2>1. NamesLeft(c) = 0
    BY <2>0
  <2>2. c.name \in c.path
    BY <2>1, <1>c, FS_EmptySet DEF NamesLeft
  <2>3. at[0][c] = Failed("CycleDetected")
    BY <1>1 DEF IsNest
  <2> QED BY <2>2, <2>3, CycleIsRight
<1>3. ASSUME NEW d \in Nat, d \in U PROVE d + 1 \in U
  <2> HIDE DEF Right
  <2> SUFFICES ASSUME d + 1 <= N PROVE Right(d + 1)
    OBVIOUS
  <2>1. Right(d) /\ d \in 0..N - 1
    BY <1>3
  <2> SUFFICES ASSUME NEW c \in ResolveCalls, NEW x, IsReady(c, x), NamesLeft(c) <= d + 1
               PROVE  IsRight(at[d + 1][c], c, x)
    BY DEF Right
  <2>2. ASSUME NEW b \in ResolveCalls, NEW y, IsReady(b, y), b.path = c.path \cup {c.name},
               c.name \notin c.path
        PROVE  IsRight(at[d][b], b, y)
    <3> DEFINE S == PublishedNames \ c.path
    <3>1. PublishedNames \ b.path = S \ {c.name} /\ c.name \in S /\ IsFiniteSet(S)
      BY <1>c, <2>2
    <3>2. Cardinality(S \ {c.name}) = Cardinality(S) - 1
      BY <3>1, FS_RemoveElement
    <3>3. NamesLeft(b) = NamesLeft(c) - 1 /\ NamesLeft(c) \in Nat /\ NamesLeft(c) <= d + 1
      BY <3>1, <3>2, <1>c DEF NamesLeft
    <3>4. NamesLeft(b) <= d
      BY <3>3
    <3> QED BY <3>4, <2>1, <2>2 DEF Right
  <2>3. at[d + 1][c] = ResolveInner(c, at[d])
    BY <2>1, <1>1 DEF IsNest
  <2> DEFINE inner == at[d]
  <2>4. \A b \in ResolveCalls : \A y :
            IsReady(b, y) /\ b.path = c.path \cup {c.name} /\ c.name \notin c.path
               => IsRight(inner[b], b, y)
    BY <2>2
  <2> HIDE DEF inner
  <2>5. IsRight(ResolveInner(c, inner), c, x)
    BY <2>4, InnerIsRight
  <2> QED BY <2>3, <2>5 DEF inner
<1> HIDE DEF U, Right
<1>4. N \in U
  BY <1>2, <1>3, NatSetInduction
<1>5. Right(N)
  BY <1>4 DEF U
<1>6. NamesLeft(call) <= N
  BY FS_Subset DEF NamesLeft
<1> QED BY <1>5, <1>6 DEF Right, at

\* What resolve returns for Root.
LEMMA ResolveIsRight ==
    ASSUME RegistryInv
    PROVE  LET res == Resolve(Root)
           IN  /\ RootEntry = {} => res.error = "RegistryPoisoned"
               /\ RootEntry # {} => HasCause(res)
               /\ res.error = "" => SoundPlan(res.plan, {}) /\ RootEntry \subseteq res.plan
<1> DEFINE version == Highest(VersionsOf(Root))
           res == Resolve(Root)
           call == [name |-> Root, version |-> version, path |-> {}, plan |-> {}]
<1>1. VersionsOf(Root) \in SUBSET Versions /\ IsFiniteSet(VersionsOf(Root))
  BY VersionsFacts
<1>2. CASE VersionsOf(Root) = {}
  <2>1. version = NoVersion
    BY <1>1, <1>2, HighestFacts
  <2>2. RootEntry = {}
    BY <1>2 DEF RootEntry, Entry, VersionsOf
  <2>3. res = Failed("RegistryPoisoned")
    BY <2>1 DEF Resolve
  <2>4. res.error = "RegistryPoisoned"
    BY <2>3, Outcomes, Zenon
  <2> QED BY <2>2, <2>4
<1>3. CASE VersionsOf(Root) # {}
  <2>1. version \in VersionsOf(Root) /\ version \in Versions /\ version # NoVersion
    BY <1>1, <1>3, HighestFacts, PackagesAssumption
  <2>2. PICK e : IsEntryOf(e, Root, version)
    BY <2>1, EntryFacts
  <2>3. RootEntry = {e} /\ e \in packages /\ e.name = Root
    BY <2>2 DEF RootEntry, IsEntryOf
  <2>4. PublishedNames = {m.name : m \in packages} /\ IsFiniteSet(PublishedNames)
    <3> DEFINE f == [m \in packages |-> m.name]
    <3>1. f \in Surjection(packages, PublishedNames)
      BY DEF Surjection, PublishedNames
    <3> QED BY <3>1, FS_Surjection DEF RegistryInv, PublishedNames
  <2>5. PICK N \in Nat : N = Cardinality(PublishedNames)
    BY <2>4, FS_CardinalityType
  <2>6. res = ResolveAt[N][call]
    BY <2>1, <2>5 DEF Resolve
  <2>7. call \in ResolveCalls
    BY <2>1, <2>3 DEF ResolveCalls, PublishedNames
  <2>8. IsReady(call, e)
    <3>1. call.name = Root /\ call.version = version /\ call.path = {} /\ call.plan = {}
      OBVIOUS
    <3>2. SoundPlan({}, {})
      BY DEF SoundPlan, Acyclic
    <3>3. e \in Wanted /\ Entry(Root, version) = {e}
      BY <2>2, <2>3 DEF Wanted, IsEntryOf
    <3> HIDE DEF call, version
    <3> QED BY <3>1, <3>2, <3>3, <2>3 DEF IsReady
  <2>9. call.path = {} /\ call.plan = {} /\ ~Resolved(call.plan, call.name)
    BY DEF Resolved
  <2> HIDE DEF call, res
  <2>10. IsRight(res, call, e)
    BY <2>4, <2>5, <2>6, <2>7, <2>8, NestIsRight
  <2> QED BY <2>3, <2>9, <2>10 DEF IsRight, res
<1> QED BY <1>2, <1>3

\* Publishing keeps what a lockfile names, and a plan names what is there.
LEMMA RegistryStep == RegistryInv /\ [PackagesNext]_registry => RegistryInv'
<1> SUFFICES ASSUME RegistryInv, [PackagesNext]_registry PROVE RegistryInv'
  OBVIOUS
<1>1. ASSUME NEW m \in Manifests, Publish(m) PROVE RegistryInv'
  <2>1. packages' = packages \cup {m} /\ lock' = lock
    BY <1>1 DEF Publish
  <2>2. \A x \in packages : ~(x.name = m.name /\ x.version = m.version)
    BY <1>1 DEF Publish, Entry
  <2>3. IsFiniteSet(packages')
    BY <2>1, FS_AddElement DEF RegistryInv
  <2>4. PackagesTypeOK'
    BY <2>1, <2>2 DEF RegistryInv, PackagesTypeOK
  <2>5. lock' # NoVersion => \A e \in lock' : \E x \in packages' : LockEntry(x) = e
    BY <2>1 DEF RegistryInv
  <2> QED BY <2>3, <2>4, <2>5 DEF RegistryInv
<1>2. CASE FromPlan
  <2> DEFINE plan == Resolve(Root).plan
  <2>1. /\ Resolve(Root).error = "" /\ packages' = packages
        /\ lock' = {LockEntry(m) : m \in plan}
    BY <1>2 DEF FromPlan
  <2>2. plan \subseteq packages /\ packages \subseteq Manifests
    BY <2>1, ResolveIsRight, WantedFacts DEF SoundPlan, RegistryInv, PackagesTypeOK
  <2> HIDE DEF plan
  <2>3. \A e \in lock' : \E m \in packages' : LockEntry(m) = e
    BY <2>1, <2>2
  <2>4. PackagesTypeOK'
    BY <2>1, <2>2 DEF RegistryInv, PackagesTypeOK
  <2> QED BY <2>1, <2>3, <2>4 DEF RegistryInv
<1>3. CASE UNCHANGED registry
  BY <1>3 DEF registry, RegistryInv, PackagesTypeOK
<1> QED BY <1>1, <1>2, <1>3 DEF PackagesNext

\* The inductive invariant of the registry.
LEMMA RegistryInvariance == PackagesSpec => []RegistryInv
<1>1. PackagesInit => RegistryInv
  BY FS_EmptySet DEF PackagesInit, RegistryInv, PackagesTypeOK
<1> QED BY <1>1, RegistryStep, PTL DEF PackagesSpec

\* A published version keeps its one entry, and a lockfile is one.
THEOREM PackagesTypeCorrect == PackagesSpec => []PackagesTypeOK
<1>1. RegistryInv => PackagesTypeOK
  BY DEF RegistryInv
<1> QED BY <1>1, RegistryInvariance, PTL

\* resolve (registry.rs, 108-168), whatever is published and however deep the
\* dependencies: a plan is complete, holds nothing nobody asks for, one
\* version of each package and no cycle, an error has its cause, and a
\* lockfile made from a plan verifies ever after.
THEOREM PlansAreRight == PackagesSpec => []PlanIsRight
<1>1. RegistryInv => PlanIsRight
  <2> SUFFICES ASSUME RegistryInv PROVE PlanIsRight
    OBVIOUS
  <2> DEFINE res == Resolve(Root)
  <2>1. /\ RootEntry = {} => res.error = "RegistryPoisoned"
        /\ RootEntry # {} => HasCause(res)
        /\ res.error = "" => SoundPlan(res.plan, {}) /\ RootEntry \subseteq res.plan
    BY ResolveIsRight
  <2>2. lock # NoVersion => Verify(lock)
    BY DEF RegistryInv, Verify
  <2> HIDE DEF res
  <2>3. /\ res.error = "MissingDependency" => DependencyMissing
        /\ res.error = "CycleDetected" => CycleExists
        /\ res.error = "RegistryPoisoned" <=> RootEntry = {}
        /\ RootEntry # {} /\ ~DependencyMissing /\ ~CycleExists => res.error = ""
    BY <2>1 DEF HasCause
  <2>4. ASSUME res.error = ""
        PROVE  /\ RootEntry \subseteq res.plan /\ res.plan \subseteq Wanted
               /\ \A m, n \in res.plan : m.name = n.name => m = n
               /\ \A m \in res.plan : \A dep \in Deps(m) : Resolved(res.plan, dep.name)
               /\ Acyclic(res.plan)
    BY <2>1, <2>4 DEF SoundPlan
  <2> QED BY <2>2, <2>3, <2>4
          DEF PlanIsRight, res, RootEntry, Wanted, DependencyMissing, CycleExists
<1> QED BY <1>1, RegistryInvariance, PTL
-----------------------------------------------------------------------------
(* The boot.  BootInv says of each component when it is still fresh and    *)
(* what the boot has made of it from which step on.                        *)

ToNodeKey == {"lifecycle", "node-key"}
ToAgentKey == ToNodeKey \cup {"agent-key"}
ToState == ToAgentKey \cup {"state"}
ToSandbox == ToState \cup {"sandbox"}
ToRegister == ToSandbox \cup {"register"}
ToIpc == ToRegister \cup {"ipc"}
ToSubmit == ToIpc \cup {"submit"}
FromSign == {"sign", "health", "booted"}
FromHealth == {"health", "booted"}
FromSubmit == FromSign \cup {"submit", "specify", "hand"}
FromSandbox == FromSubmit \cup {"sandbox", "register", "ipc"}
Steps == ToSubmit \cup FromSubmit

Signature == [signer |-> cfg.node_seed, msg |-> BootProposal]

KeysInv ==
    /\ keys \in [KeyIds -> KeyEntry \cup {NoKey}]
    /\ step \in ToNodeKey => keys["node-key"] = NoKey
    /\ step \in ToAgentKey => keys["agent-key"] = NoKey
    /\ step \in Steps \ (ToNodeKey \cup {"booted"}) =>
          Known("node-key") /\ keys["node-key"].signing = cfg.node_seed
    /\ step \in FromHealth => handoff.signature = Signature

StoreInv ==
    /\ store \in Store
    /\ step = "lifecycle" => lifecycle = "Init"
    /\ step # "lifecycle" => lifecycle = "Running"
    /\ step \in ToState => store = EmptyStore
    /\ step \in FromSandbox => snapshot.root = StateRoot(ApplyAll(EmptyStore, cfg.txs))

GatewaysInv ==
    /\ capabilities \in [Agents -> (SUBSET MsgTypes) \cup {Unregistered}]
    /\ last_seq \in [Agents -> Nat]
    /\ step \in ToSandbox => usage[VmExec]["cpu"] = 0 /\ capability[VmExec].limit["cpu"] \in Nat \ {0}
    /\ step \in ToIpc => receipts = <<>> /\ last_seq[BootAgent] = 0
    /\ step = "ipc" => capabilities[BootAgent] = BootTypes
    /\ step \in FromSubmit =>
          Len(receipts) = 1 /\ DOMAIN receipts = {1} /\ receipts[1].msg.msg_type = ProposeTx

ProposalInv ==
    /\ state \in [ProposalIds -> {NoProposal, "Proposed", "Specified", "HandedToVM"}]
    /\ step \in ToSubmit => state[BootProposal] = NoProposal
    /\ step = "specify" => state[BootProposal] = "Proposed"
    /\ step = "hand" => state[BootProposal] = "Specified"
    /\ step \in FromSign => state[BootProposal] = "HandedToVM"

HealthInv ==
    /\ services \in [Services -> ServiceEntry \cup {Unknown}] /\ now_tick \in Nat
    /\ \A s \in Registered : services[s].state = "Running"
    /\ step = "booted" => \A s \in Services : observed[s] = "Healthy"

BootInv ==
    /\ cfg \in [node_seed : Seeds, agent_seed : Seeds, txs : TxLogs]
    /\ step \in Steps
    /\ KeysInv /\ StoreInv /\ GatewaysInv /\ ProposalInv /\ HealthInv

\* The components are fresh when the boot begins.
LEMMA BootStarts ==
    ASSUME Init, SandboxInit, GatewayInit, ProposalsInit, BootInit
    PROVE  BootInv
<1> USE DEF ToNodeKey, ToAgentKey, ToState, ToSandbox, ToRegister, ToIpc, ToSubmit,
            FromSign, FromHealth, FromSubmit, FromSandbox, Steps
<1>1. step = "lifecycle" /\ cfg \in [node_seed : Seeds, agent_seed : Seeds, txs : TxLogs]
  BY DEF BootInit
<1>2. KeysInv
  BY <1>1, BootAssumption DEF KeysInv, BootInit, KeyringInit
<1>3. StoreInv
  BY <1>1 DEF StoreInv, BootInit, EmptyStore, Store
<1>4. GatewaysInv
  <2>1. capability[VmExec].limit["cpu"] \in Nat \ {0} /\ usage[VmExec]["cpu"] = 0
    <3>1. capability[VmExec] \in CapabilitySet /\ Validate(capability[VmExec])
      BY BootAssumption, RuntimeAssumption DEF SandboxInit
    <3>2. "cpu" \in Quotas
      BY DEF Quotas
    <3>3. capability[VmExec].limit["cpu"] \in 0..UsageModulus - 1
      BY <3>1, <3>2 DEF CapabilitySet
    <3>4. capability[VmExec].limit["cpu"] > 0
      BY <3>1, <3>2 DEF Validate
    <3>5. usage[VmExec]["cpu"] = 0
      BY <3>2, BootAssumption DEF SandboxInit
    <3> QED BY <3>3, <3>4, <3>5, RuntimeAssumption
  <2> QED BY <1>1, <2>1, BootAssumption DEF GatewaysInv, GatewayInit
<1>5. ProposalInv
  BY <1>1, BootAssumption DEF ProposalInv, ProposalsInit
<1>6. HealthInv
  BY <1>1 DEF HealthInv, Init, Registered
<1> QED BY <1>1, <1>2, <1>3, <1>4, <1>5, <1>6 DEF BootInv

\* Each step of the boot leaves what the next one needs.
LEMMA BootGoesOn == BootInv /\ [BootNext]_<<booting, composed>> => BootInv'
<1> SUFFICES ASSUME BootInv, [BootNext]_<<booting, composed>> PROVE BootInv'
  OBVIOUS
<1> USE DEF ToNodeKey, ToAgentKey, ToState, ToSandbox, ToRegister, ToIpc, ToSubmit,
            FromSign, FromHealth, FromSubmit, FromSandbox, Steps
<1>0. /\ cfg \in [node_seed : Seeds, agent_seed : Seeds, txs : TxLogs] /\ step \in Steps
      /\ KeysInv /\ StoreInv /\ GatewaysInv /\ ProposalInv /\ HealthInv
  BY DEF BootInv
<1>1. CASE Boots
  <2>1. /\ step = "lifecycle" /\ lifecycle' = "Running" /\ step' = "node-key"
        /\ UNCHANGED <<cfg, keys, store, snapshot, handoff, observed>>
        /\ UNCHANGED <<services, now_tick, capability, usage, capabilities, last_seq, receipts, state>>
    BY <1>0, <1>1 DEF Boots, StoreInv, Transition, CanTransition, Outcome,
                      composed, vars, sandboxes, gateway, proposals
  <2>2. KeysInv' /\ StoreInv'
    BY <1>0, <2>1 DEF KeysInv, StoreInv, Known, Signature
  <2>3. GatewaysInv' /\ ProposalInv'
    BY <1>0, <2>1 DEF GatewaysInv, ProposalInv
  <2>4. HealthInv'
    BY <1>0, <2>1 DEF HealthInv, Registered
  <2> QED BY <1>0, <2>1, <2>2, <2>3, <2>4 DEF BootInv
<1>2. ASSUME NEW id \in {"node-key", "agent-key"}, NEW kind \in KeyKind, NEW seed \in Seeds,
             NEW at, NEW next, ImportsKey(at, id, kind, seed, next),
             \/ at = "node-key" /\ id = "node-key" /\ seed = cfg.node_seed /\ next = "agent-key"
             \/ at = "agent-key" /\ id = "agent-key" /\ next = "state"
      PROVE  BootInv'
  <2>0. id \in KeyIds /\ "node-key" \in KeyIds /\ "agent-key" \in KeyIds
    BY BootAssumption
  <2>1. ~Known(id) /\ step = at
    BY <1>0, <1>2 DEF KeysInv, Known, ImportsKey
  <2>a. [signing |-> seed, kind |-> kind] \in KeyEntry
    BY DEF KeyEntry
  <2>2. PICK e \in KeyEntry : e = [signing |-> seed, kind |-> kind] /\ e # NoKey
    BY <2>a, KeyringAssumption
  <2>3. /\ keys' = [keys EXCEPT ![id] = e] /\ step' = next
        /\ UNCHANGED <<cfg, lifecycle, store, snapshot, handoff, observed>>
        /\ UNCHANGED <<services, now_tick, capability, usage, capabilities, last_seq, receipts, state>>
    BY <1>2, <2>1, <2>2 DEF ImportsKey, ImportSeed, Outcome,
                            composed, vars, sandboxes, gateway, proposals
  <2>4. keys' \in [KeyIds -> KeyEntry \cup {NoKey}] /\ keys'[id] = e /\ e.signing = seed
    BY <1>0, <2>0, <2>2, <2>3 DEF KeysInv
  <2>5. \A j \in KeyIds : j # id => keys'[j] = keys[j]
    BY <1>0, <2>3 DEF KeysInv
  <2>6. KeysInv'
    BY <1>0, <1>2, <2>0, <2>1, <2>2, <2>3, <2>4, <2>5 DEF KeysInv, Known
  <2>7. StoreInv'
    BY <1>0, <1>2, <2>1, <2>3 DEF StoreInv
  <2>8. GatewaysInv' /\ ProposalInv'
    BY <1>0, <1>2, <2>1, <2>3 DEF GatewaysInv, ProposalInv
  <2>9. HealthInv'
    BY <1>0, <1>2, <2>1, <2>3 DEF HealthInv, Registered
  <2> QED BY <1>0, <1>2, <2>1, <2>3, <2>6, <2>7, <2>8, <2>9 DEF BootInv
<1>3. CASE AppliesLog
  <2>1. PICK s : s = ApplyAll(EmptyStore, cfg.txs)
    OBVIOUS
  <2>2. /\ step = "state" /\ store' = s
        /\ snapshot' = [height |-> 1, entries |-> s, root |-> StateRoot(s)]
        /\ UNCHANGED <<cfg, lifecycle, keys, handoff, observed>>
        /\ UNCHANGED <<services, now_tick, capability, usage, capabilities, last_seq, receipts, state>>
    BY <1>0, <1>3, <2>1 DEF AppliesLog, StoreInv, composed, vars, sandboxes, gateway, proposals
  <2>3. step' = "sandbox"
    BY <1>3, <2>2 DEF AppliesLog, Outcome, VerifiedAgainst
  <2>4. s \in Store
    <3>1. cfg.txs \in Seq(Tx) /\ EmptyStore \in Store
      BY <1>0, BootAssumption DEF EmptyStore, Store
    <3>2. \A op \in Tx : op.type \in {"Set", "Remove"} => op \in Tx
      OBVIOUS
    <3> QED BY <2>1, <3>1, <3>2, ApplyFromType DEF ApplyAll
  <2>5. KeysInv'
    BY <1>0, <2>2, <2>3 DEF KeysInv, Known
  <2>6. StoreInv'
    BY <1>0, <2>1, <2>2, <2>3, <2>4 DEF StoreInv
  <2>7. GatewaysInv' /\ ProposalInv'
    BY <1>0, <2>2, <2>3 DEF GatewaysInv, ProposalInv
  <2>8. HealthInv'
    BY <1>0, <2>2, <2>3 DEF HealthInv, Registered
  <2> QED BY <1>0, <2>2, <2>3, <2>5, <2>6, <2>7, <2>8 DEF BootInv
<1>4. CASE Computes
  <2>1. step = "sandbox" /\ Fits(usage[VmExec]["cpu"], 1, capability[VmExec].limit["cpu"])
    <3>1. /\ step = "sandbox" /\ usage[VmExec]["cpu"] = 0
          /\ capability[VmExec].limit["cpu"] \in Nat \ {0}
      BY <1>0, <1>4 DEF Computes, GatewaysInv
    <3>2. (0 + 1) % UsageModulus \in {0, 1}
      BY RuntimeAssumption
    <3> QED BY <3>1, <3>2 DEF Fits, Plus
  <2>2. /\ step' = "register"
        /\ UNCHANGED <<cfg, lifecycle, keys, store, snapshot, handoff, observed>>
        /\ UNCHANGED <<services, now_tick, capabilities, last_seq, receipts, state>>
    BY <1>4, <2>1 DEF Computes, Outcome, vars, gateway, proposals
  <2>3. KeysInv' /\ StoreInv'
    BY <1>0, <2>1, <2>2 DEF KeysInv, StoreInv, Known
  <2>4. GatewaysInv' /\ ProposalInv'
    BY <1>0, <2>1, <2>2 DEF GatewaysInv, ProposalInv
  <2>5. HealthInv'
    BY <1>0, <2>1, <2>2 DEF HealthInv, Registered
  <2> QED BY <1>0, <2>2, <2>3, <2>4, <2>5 DEF BootInv
<1>5. CASE RegistersAgent
  <2>1. /\ step = "register" /\ step' = "ipc"
        /\ capabilities' = [capabilities EXCEPT ![BootAgent] = BootTypes]
        /\ UNCHANGED <<cfg, lifecycle, keys, store, snapshot, handoff, observed>>
        /\ UNCHANGED <<services, now_tick, capability, usage, last_seq, receipts, state>>
    BY <1>5 DEF RegistersAgent, RegisterAgent, Outcome, vars, sandboxes, proposals
  <2>2. KeysInv' /\ StoreInv'
    BY <1>0, <2>1 DEF KeysInv, StoreInv, Known
  <2>3. GatewaysInv'
    <3>1. /\ capabilities' \in [Agents -> (SUBSET MsgTypes) \cup {Unregistered}]
          /\ capabilities'[BootAgent] = BootTypes
      BY <1>0, <2>1, BootAssumption DEF GatewaysInv
    <3> QED BY <1>0, <2>1, <3>1 DEF GatewaysInv
  <2>4. ProposalInv'
    BY <1>0, <2>1 DEF ProposalInv
  <2>5. HealthInv'
    BY <1>0, <2>1 DEF HealthInv, Registered
  <2> QED BY <1>0, <2>1, <2>2, <2>3, <2>4, <2>5 DEF BootInv
<1>6. CASE Delivers
  <2>0. PICK msg : msg = [from_agent |-> BootAgent, msg_type |-> ProposeTx, seq |-> 1,
                          complete |-> TRUE]
    OBVIOUS
  <2>a. /\ msg.from_agent = BootAgent /\ msg.msg_type = ProposeTx /\ msg.seq = 1
        /\ msg.complete
    BY <2>0
  <2>1. step = "ipc" /\ Verdict(msg) = "ok"
    BY <1>0, <1>6, <2>a, BootAssumption DEF Delivers, GatewaysInv, Verdict, CheckSchema
  <2>2. /\ Deliver(msg) /\ step' = "submit"
        /\ UNCHANGED <<cfg, lifecycle, keys, store, snapshot, handoff, observed>>
        /\ UNCHANGED <<services, now_tick, capability, usage, state>>
    BY <1>6, <2>0, <2>1 DEF Delivers, Outcome, vars, sandboxes, proposals
  <2>3. PICK r : r = [msg |-> msg, audit_seq |-> Len(audit) + 1]
    OBVIOUS
  <2>4. /\ receipts' = <<r>> /\ capabilities' = capabilities
        /\ last_seq' = [last_seq EXCEPT ![BootAgent] = 1]
    BY <1>0, <2>1, <2>2, <2>3, <2>a DEF Deliver, GatewaysInv
  <2>5. /\ Len(receipts') = 1 /\ DOMAIN receipts' = {1} /\ receipts'[1].msg.msg_type = ProposeTx
        /\ last_seq' \in [Agents -> Nat]
    BY <1>0, <2>3, <2>4, <2>a, BootAssumption DEF GatewaysInv
  <2>6. KeysInv' /\ StoreInv'
    BY <1>0, <2>1, <2>2 DEF KeysInv, StoreInv, Known
  <2>7. GatewaysInv'
    BY <1>0, <2>1, <2>2, <2>4, <2>5 DEF GatewaysInv
  <2>8. ProposalInv'
    BY <1>0, <2>1, <2>2 DEF ProposalInv
  <2>9. HealthInv'
    BY <1>0, <2>1, <2>2 DEF HealthInv, Registered
  <2> QED BY <1>0, <2>2, <2>6, <2>7, <2>8, <2>9 DEF BootInv
<1>7. CASE Proposes
  <2>1. /\ \/ /\ step = "submit" /\ step' = "specify"
              /\ state' = [state EXCEPT ![BootProposal] = "Proposed"]
           \/ /\ step = "specify" /\ step' = "hand"
              /\ state' = [state EXCEPT ![BootProposal] = "Specified"]
           \/ /\ step = "hand" /\ step' = "sign"
              /\ state' = [state EXCEPT ![BootProposal] = "HandedToVM"]
        /\ UNCHANGED <<cfg, lifecycle, keys, store, snapshot, handoff, observed>>
        /\ UNCHANGED <<services, now_tick, capability, usage, capabilities, last_seq, receipts>>
    BY <1>0, <1>7 DEF Proposes, Calls, Submit, MarkSpecified, MarkHandedToVm, Moves, Outcome,
                      ProposalInv, vars, sandboxes, gateway
  <2>2. KeysInv' /\ StoreInv'
    BY <1>0, <2>1 DEF KeysInv, StoreInv, Known
  <2>3. GatewaysInv'
    BY <1>0, <2>1 DEF GatewaysInv
  <2>4. ProposalInv'
    BY <1>0, <2>1, BootAssumption DEF ProposalInv
  <2>5. HealthInv'
    BY <1>0, <2>1 DEF HealthInv, Registered
  <2> QED BY <1>0, <2>1, <2>2, <2>3, <2>4, <2>5 DEF BootInv
<1>8. CASE SignsHandoff
  <2>1. PICK seed \in Seeds : seed = cfg.node_seed
    BY <1>0
  <2>2. step = "sign" /\ Known("node-key") /\ keys["node-key"].signing = seed
    BY <1>0, <1>8, <2>1 DEF SignsHandoff, KeysInv
  <2>3. PICK h : h = [public |-> seed, signature |-> [signer |-> seed, msg |-> BootProposal]]
    OBVIOUS
  <2>4. handoff' = h /\ h # NotYet
    BY <1>8, <2>2, <2>3, BootAssumption DEF SignsHandoff, PublicKey, Sign
  <2>5. h.public = seed /\ h.signature = [signer |-> seed, msg |-> BootProposal]
    BY <2>3
  <2>6. VerifyMsg(h.public, BootProposal, h.signature)
    BY <2>5 DEF VerifyMsg
  <2>7. /\ step' = "health"
        /\ UNCHANGED <<cfg, lifecycle, keys, store, snapshot, observed>>
        /\ UNCHANGED <<services, now_tick, capability, usage, capabilities, last_seq, receipts, state>>
    BY <1>8, <2>4, <2>6 DEF SignsHandoff, Outcome, composed, vars, sandboxes, gateway, proposals
  <2>8. KeysInv'
    BY <1>0, <2>1, <2>2, <2>4, <2>5, <2>7 DEF KeysInv, Known, Signature
  <2>9. StoreInv'
    BY <1>0, <2>2, <2>7 DEF StoreInv
  <2>10. GatewaysInv' /\ ProposalInv'
    BY <1>0, <2>2, <2>7 DEF GatewaysInv, ProposalInv
  <2>11. HealthInv'
    BY <1>0, <2>7 DEF HealthInv, Registered
  <2> QED BY <1>0, <2>7, <2>8, <2>9, <2>10, <2>11 DEF BootInv
<1>9. CASE RegistersService
  <2>1. PICK s \in Services : Register(s, BootTolerance)
    BY <1>9 DEF RegistersService
  <2>2. PICK e : e = [state |-> "Running", last_heartbeat |-> now_tick, restarts |-> 0,
                      tolerance |-> BootTolerance]
    OBVIOUS
  <2>3. /\ services' = [services EXCEPT ![s] = e] /\ now_tick' = now_tick
        /\ step = "health" /\ step' = step
        /\ UNCHANGED <<cfg, lifecycle, keys, store, snapshot, handoff, observed>>
        /\ UNCHANGED <<capability, usage, capabilities, last_seq, receipts, state>>
    BY <1>9, <2>1, <2>2 DEF RegistersService, Register, booting, sandboxes, gateway, proposals
  <2>4. e \in ServiceEntry /\ e.state = "Running"
    BY <1>0, <2>2, BootAssumption DEF ServiceEntry, ServiceState, HealthInv
  <2>5. HealthInv'
    BY <1>0, <2>3, <2>4 DEF HealthInv, Registered
  <2>6. KeysInv' /\ StoreInv'
    BY <1>0, <2>3 DEF KeysInv, StoreInv, Known, Signature
  <2>7. GatewaysInv' /\ ProposalInv'
    BY <1>0, <2>3 DEF GatewaysInv, ProposalInv
  <2> QED BY <1>0, <2>3, <2>5, <2>6, <2>7 DEF BootInv
<1>10. CASE Observes
  <2>1. \A s \in Services : services[s].state = "Running"
    BY <1>0, <1>10 DEF Observes, HealthInv
  <2>2. /\ step = "health" /\ step' = "booted"
        /\ UNCHANGED <<cfg, lifecycle, keys, store, snapshot, handoff>>
        /\ UNCHANGED <<services, now_tick, capability, usage, capabilities, last_seq, receipts, state>>
    BY <1>10, <2>1, BootAssumption DEF Observes, Outcome, composed, vars, sandboxes, gateway, proposals
  <2>3. \A s \in Services : observed'[s] = "Healthy"
    BY <1>10, <2>1 DEF Observes, StatusFrom
  <2>4. HealthInv'
    BY <1>0, <2>2, <2>3 DEF HealthInv, Registered
  <2>5. KeysInv' /\ StoreInv'
    BY <1>0, <2>2 DEF KeysInv, StoreInv, Known, Signature
  <2>6. GatewaysInv' /\ ProposalInv'
    BY <1>0, <2>2 DEF GatewaysInv, ProposalInv
  <2> QED BY <1>0, <2>2, <2>4, <2>5, <2>6 DEF BootInv
<1>11. CASE UsesKeyring
  <2>1. /\ step = "booted" /\ step' = step /\ KeyringNext
        /\ UNCHANGED <<cfg, lifecycle, store, snapshot, handoff, observed>>
        /\ UNCHANGED <<services, now_tick, capability, usage, capabilities, last_seq, receipts, state>>
    BY <1>11 DEF UsesKeyring, composed, vars, sandboxes, gateway, proposals
  <2>2. keys' \in [KeyIds -> KeyEntry \cup {NoKey}]
    <3>1. ASSUME NEW id \in KeyIds, NEW seed \in Seeds, Rotate(id, seed)
          PROVE  keys' \in [KeyIds -> KeyEntry \cup {NoKey}]
      <4>1. keys[id] \in KeyEntry
        BY <1>0, <3>1 DEF Rotate, Known, KeysInv
      <4>2. [keys[id] EXCEPT !.signing = seed] \in KeyEntry
        BY <4>1 DEF KeyEntry
      <4> QED BY <1>0, <3>1, <4>2 DEF Rotate, KeysInv
    <3>2. ASSUME NEW id \in KeyIds, NEW seed \in Seeds, NEW kind \in KeyKind,
                 ImportSeed(id, kind, seed)
          PROVE  keys' \in [KeyIds -> KeyEntry \cup {NoKey}]
      <4>1. [signing |-> seed, kind |-> kind] \in KeyEntry
        BY DEF KeyEntry
      <4> QED BY <1>0, <3>2, <4>1 DEF ImportSeed, KeysInv
    <3>3. ASSUME NEW id \in KeyIds, Revoke(id)
          PROVE  keys' \in [KeyIds -> KeyEntry \cup {NoKey}]
      BY <1>0, <3>3 DEF Revoke, KeysInv
    <3> QED BY <2>1, <3>1, <3>2, <3>3 DEF KeyringNext
  <2>3. KeysInv'
    BY <1>0, <2>1, <2>2 DEF KeysInv, Signature
  <2>4. StoreInv'
    BY <1>0, <2>1 DEF StoreInv
  <2>5. GatewaysInv' /\ ProposalInv'
    BY <1>0, <2>1 DEF GatewaysInv, ProposalInv
  <2>6. HealthInv'
    BY <1>0, <2>1 DEF HealthInv, Registered
  <2> QED BY <1>0, <2>1, <2>3, <2>4, <2>5, <2>6 DEF BootInv
<1>12. CASE UNCHANGED <<booting, composed>>
  <2>1. /\ UNCHANGED <<step, cfg, lifecycle, keys, store, snapshot, handoff, observed>>
        /\ UNCHANGED <<services, now_tick, capability, usage, capabilities, last_seq, receipts, state>>
    BY <1>12 DEF booting, composed, vars, sandboxes, gateway, proposals
  <2>2. KeysInv' /\ StoreInv'
    BY <1>0, <2>1 DEF KeysInv, StoreInv, Known, Signature
  <2>3. GatewaysInv' /\ ProposalInv'
    BY <1>0, <2>1 DEF GatewaysInv, ProposalInv
  <2>4. HealthInv'
    BY <1>0, <2>1 DEF HealthInv, Registered
  <2> QED BY <1>0, <2>1, <2>2, <2>3, <2>4 DEF BootInv
<1>13. CASE \/ ImportsKey("node-key", "node-key", "NodeIdentity", cfg.node_seed, "agent-key")
            \/ ImportsKey("agent-key", "agent-key", "AgentSigning", cfg.agent_seed, "state")
  <2>1. /\ cfg.node_seed \in Seeds /\ cfg.agent_seed \in Seeds
        /\ "NodeIdentity" \in KeyKind /\ "AgentSigning" \in KeyKind
    BY <1>0 DEF KeyKind
  <2> QED BY <1>2, <1>13, <2>1
<1> QED BY <1>1, <1>3, <1>4, <1>5, <1>6, <1>7, <1>8, <1>9, <1>10, <1>11, <1>12, <1>13
        DEF BootNext

\* BootInv implies what the run checks.
LEMMA BootInvIsEnough == BootInv => BootTypeOK /\ BootIsWhole
<1> SUFFICES ASSUME BootInv PROVE BootTypeOK /\ BootIsWhole
  OBVIOUS
<1> USE DEF ToNodeKey, ToAgentKey, ToState, ToSandbox, ToRegister, ToIpc, ToSubmit,
            FromSign, FromHealth, FromSubmit, FromSandbox, Steps
<1>0. /\ cfg \in [node_seed : Seeds, agent_seed : Seeds, txs : TxLogs] /\ step \in Steps
      /\ KeysInv /\ StoreInv /\ GatewaysInv /\ ProposalInv /\ HealthInv
  BY DEF BootInv
<1>1. BootTypeOK
  BY <1>0 DEF BootTypeOK, KeyringTypeOK, KeysInv, StoreInv, Known
<1>2. ASSUME step = "booted"
      PROVE  /\ {receipts[i].msg.msg_type : i \in DOMAIN receipts} = {ProposeTx}
             /\ \A seed \in Seeds :
                   VerifyMsg(seed, BootProposal, handoff.signature) <=> seed = cfg.node_seed
  <2>1. DOMAIN receipts = {1} /\ receipts[1].msg.msg_type = ProposeTx
    BY <1>0, <1>2 DEF GatewaysInv
  <2>2. handoff.signature = Signature
    BY <1>0, <1>2 DEF KeysInv
  <2>3. ASSUME NEW seed \in Seeds
        PROVE  VerifyMsg(seed, BootProposal, handoff.signature) <=> seed = cfg.node_seed
    BY <2>2 DEF Signature, VerifyMsg
  <2> QED BY <2>1, <2>3
<1>3. BootIsWhole
  BY <1>0, <1>2 DEF BootIsWhole, StoreInv, ProposalInv, HealthInv
<1> QED BY <1>1, <1>3

\* "Ein System bootet deterministisch oder gar nicht" (integration/src/lib.rs,
\* 3-6): whatever the seeds and the transactions, no step of boot() fails, the
\* booted system is complete, and the handoff it signed verifies with the key
\* it was booted with and no other, whatever becomes of the keyring.
THEOREM BootIsComplete == BootSpec => [](BootTypeOK /\ BootIsWhole)
BY BootInvIsEnough, BootStarts, BootGoesOn, PTL DEF BootSpec
-----------------------------------------------------------------------------
(* All parts together.  A step of the composition is a step of one part or *)
(* of the boot, and the boot calls its components as anybody else does: it *)
(* is, to each of them, one of the steps its own specification allows.     *)
(* What is proved of a component alone therefore holds in the composition. *)

everything == <<part, vars, gossip, sandboxes, schedule, gateway, proposals, modelStore,
                registry, booting>>

\* The boot as its components see it.
LEMMA BootCallsComponents ==
    ASSUME BootNext
    PROVE  [Next]_vars /\ [SandboxNext]_sandboxes /\ [GatewayNext]_gateway
              /\ [ProposalsNext]_proposals
<1>1. CASE \/ Boots \/ AppliesLog \/ SignsHandoff \/ Observes \/ UsesKeyring
           \/ ImportsKey("node-key", "node-key", "NodeIdentity", cfg.node_seed, "agent-key")
           \/ ImportsKey("agent-key", "agent-key", "AgentSigning", cfg.agent_seed, "state")
  BY <1>1 DEF Boots, AppliesLog, SignsHandoff, Observes, UsesKeyring, ImportsKey, composed
<1>2. CASE Computes
  <2>1. Consume(VmExec, "cpu", 1) \/ UNCHANGED sandboxes
    BY <1>2 DEF Computes
  <2>2. [SandboxNext]_sandboxes
    BY <2>1, BootAssumption DEF SandboxNext, Quotas
  <2> QED BY <1>2, <2>2 DEF Computes
<1>3. CASE RegistersAgent
  <2>1. GatewayNext
    BY <1>3, BootAssumption DEF RegistersAgent, GatewayNext
  <2> QED BY <1>3, <2>1 DEF RegistersAgent
<1>4. CASE Delivers
  <2> DEFINE msg == [from_agent |-> BootAgent, msg_type |-> ProposeTx, seq |-> 1,
                     complete |-> TRUE]
  <2>1. msg \in IpcMessage
    BY BootAssumption, GatewayAssumption DEF IpcMessage
  <2>2. Deliver(msg) \/ Reject(msg)
    BY <1>4 DEF Delivers
  <2>3. GatewayNext
    BY <2>1, <2>2 DEF GatewayNext
  <2> QED BY <1>4, <2>3 DEF Delivers
<1>5. CASE Proposes
  <2>1. \/ Submit(BootProposal) \/ MarkSpecified(BootProposal) \/ MarkHandedToVm(BootProposal)
        \/ UNCHANGED proposals
    BY <1>5 DEF Proposes, Calls
  <2>2. [ProposalsNext]_proposals
    BY <2>1, BootAssumption DEF ProposalsNext
  <2>3. UNCHANGED vars /\ UNCHANGED sandboxes /\ UNCHANGED gateway
    BY <1>5 DEF Proposes, Calls
  <2> QED BY <2>2, <2>3
<1>6. CASE RegistersService
  <2>1. Next
    BY <1>6, BootAssumption DEF RegistersService, Next
  <2> QED BY <1>6, <2>1 DEF RegistersService
<1> QED BY <1>1, <1>2, <1>3, <1>4, <1>5, <1>6 DEF BootNext

\* A step of the composition as each part sees it.
LEMMA StepOfEachPart ==
    ASSUME [InMemoryNext]_everything
    PROVE  /\ [Next]_vars /\ [GossipNext]_gossip /\ [SandboxNext]_sandboxes
           /\ [SchedulerNext]_schedule /\ [GatewayNext]_gateway /\ [ProposalsNext]_proposals
           /\ [ModelStoreNext]_modelStore /\ [PackagesNext]_registry
           /\ (part = "boot" => [BootNext]_<<booting, composed>>)
           /\ (part # "boot" => UNCHANGED booting)
           /\ UNCHANGED part
<1>1. CASE UNCHANGED everything
  BY <1>1 DEF everything, composed
<1>2. CASE part = "boot" /\ BootNext /\ UNCHANGED <<gossip, schedule, modelStore, registry>>
           /\ UNCHANGED part
  BY <1>2, BootCallsComponents
<1>3. CASE UNCHANGED part /\ Runs("watchdog") /\ Next
  BY <1>3 DEF Runs
<1>4. CASE UNCHANGED part /\ Runs("gossip") /\ GossipNext
  BY <1>4 DEF Runs
<1>5. CASE UNCHANGED part /\ Runs("sandboxes") /\ SandboxNext
  BY <1>5 DEF Runs
<1>6. CASE UNCHANGED part /\ Runs("scheduler") /\ SchedulerNext
  BY <1>6 DEF Runs
<1>7. CASE UNCHANGED part /\ Runs("gateway") /\ GatewayNext
  BY <1>7 DEF Runs
<1>8. CASE UNCHANGED part /\ Runs("proposals") /\ ProposalsNext
  BY <1>8 DEF Runs
<1>9. CASE UNCHANGED part /\ Runs("models") /\ ModelStoreNext
  BY <1>9 DEF Runs
<1>10. CASE UNCHANGED part /\ Runs("packages") /\ PackagesNext
  BY <1>10 DEF Runs
<1> QED BY <1>1, <1>2, <1>3, <1>4, <1>5, <1>6, <1>7, <1>8, <1>9, <1>10 DEF InMemoryNext

\* Put together, and with a boot that calls them, the components (health,
\* runtime, ai and pkg crates) each still run as their own module says, so
\* that every theorem about one of them alone is one about the composition.
THEOREM PartsRunAsSpecified ==
    InMemorySpec => /\ Spec /\ GossipSpec /\ SandboxSpec /\ SchedulerSpec
                    /\ GatewaySpec /\ ProposalsSpec /\ ModelStoreSpec /\ PackagesSpec
<1>1. InMemoryInit => /\ Init /\ GossipInit /\ SandboxInit /\ SchedulerInit /\ GatewayInit
                      /\ ProposalsInit /\ ModelStoreInit /\ PackagesInit
  BY DEF InMemoryInit
<1>2. [InMemoryNext]_everything =>
          /\ [Next]_vars /\ [GossipNext]_gossip /\ [SandboxNext]_sandboxes
          /\ [SchedulerNext]_schedule /\ [GatewayNext]_gateway /\ [ProposalsNext]_proposals
          /\ [ModelStoreNext]_modelStore /\ [PackagesNext]_registry
  BY StepOfEachPart
<1> QED BY <1>1, <1>2, PTL
        DEF InMemorySpec, everything, Spec, GossipSpec, SandboxSpec, SchedulerSpec, GatewaySpec,
            ProposalsSpec, ModelStoreSpec, PackagesSpec

\* BootInv speaks of the components, and holds only while the boot is what
\* runs; otherwise the state of the boot does not change.
BootInPart == IF part = "boot" THEN BootInv ELSE BootTypeOK

\* The state of the boot in the composition.
LEMMA BootInComposition == InMemorySpec => []BootInPart
<1>1. InMemoryInit => BootInPart
  BY BootStarts, BootInvIsEnough DEF InMemoryInit, BootInPart
<1>2. BootInPart /\ [InMemoryNext]_everything => BootInPart'
  <2> SUFFICES ASSUME BootInPart, [InMemoryNext]_everything PROVE BootInPart'
    OBVIOUS
  <2>1. UNCHANGED part
    BY StepOfEachPart
  <2>2. CASE part = "boot"
    <3>1. BootInv'
      BY <2>2, StepOfEachPart, BootGoesOn DEF BootInPart
    <3> QED BY <3>1, <2>1, <2>2 DEF BootInPart
  <2>3. CASE part # "boot"
    <3>1. UNCHANGED <<step, store, keys>>
      BY <2>3, StepOfEachPart DEF booting
    <3>2. BootTypeOK'
      BY <2>3, <3>1 DEF BootInPart, BootTypeOK, KeyringTypeOK, Known
    <3> QED BY <3>2, <2>1, <2>3 DEF BootInPart
  <2> QED BY <2>2, <2>3
<1> QED BY <1>1, <1>2, PTL DEF InMemorySpec, everything

\* The type invariant of the composition, for every value of its constants:
\* no heartbeat in the future, counters in the range of u64, the scheduler's
\* cursor inside its vector, the cache within its limit, the lock and the
\* published packages well-formed, whatever part runs.
THEOREM InMemoryTypesHold == InMemorySpec => []InMemoryTypeOK
<1>1. BootInPart => BootTypeOK
  BY BootInvIsEnough DEF BootInPart
<1>2. InMemorySpec => []TypeOK
  BY PartsRunAsSpecified, WatchdogTypeCorrect, PTL
<1>3. InMemorySpec => []GossipTypeOK
  BY PartsRunAsSpecified, GossipTypeCorrect, PTL
<1>4. InMemorySpec => []SandboxTypeOK
  BY PartsRunAsSpecified, CountersStayInRange, PTL
<1>5. InMemorySpec => []ScheduleTypeOK
  BY PartsRunAsSpecified, ScheduleTypeCorrect, PTL
<1>6. InMemorySpec => []GatewayTypeOK
  BY PartsRunAsSpecified, NoReplayIsDelivered, PTL
<1>7. InMemorySpec => []ProposalsTypeOK
  BY PartsRunAsSpecified, ProposalsKeepTheirLifecycle, PTL
<1>8. InMemorySpec => []ModelStoreTypeOK
  BY PartsRunAsSpecified, CacheKeepsItsOrder, PTL
<1>9. InMemorySpec => []PackagesTypeOK
  BY PartsRunAsSpecified, PackagesTypeCorrect, PTL
<1>10. /\ TypeOK /\ GossipTypeOK /\ SandboxTypeOK /\ ScheduleTypeOK /\ GatewayTypeOK
       /\ ProposalsTypeOK /\ ModelStoreTypeOK /\ PackagesTypeOK /\ BootTypeOK
       <=> InMemoryTypeOK
  BY DEF InMemoryTypeOK
<1> QED BY <1>1, <1>2, <1>3, <1>4, <1>5, <1>6, <1>7, <1>8, <1>9, <1>10,
           BootInComposition, PTL
=============================================================================
