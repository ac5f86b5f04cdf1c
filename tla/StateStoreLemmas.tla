-------------------------- MODULE StateStoreLemmas --------------------------
(***************************************************************************)
(* Facts about the operators of StateStore, for every set of keys and      *)
(* values, and about sequences and recursion, for the proofs that run over *)
(* a tree's levels or a stream's bytes.  Other proof modules cite them by  *)
(* name.                                                                   *)
(***************************************************************************)
EXTENDS StateStore, WellFoundedInduction, TLAPS

\* Equal state roots mean equal stores (the root is compared wherever the
\* code compares stores: wal.rs, 265; sync.rs, 165; syncd/lib.rs, 98).
LEMMA RootInjective ==
    ASSUME NEW s \in Store, NEW t \in Store, StateRoot(s) = StateRoot(t)
    PROVE  s = t
<1>1. ASSUME NEW k \in Keys PROVE s[k] = t[k]
  <2>1. s[k] # Absent => <<k, s[k]>> \in Entries(t)
    BY DEF StateRoot, Entries
  <2>2. t[k] # Absent => <<k, t[k]>> \in Entries(s)
    BY DEF StateRoot, Entries
  <2>3. s[k] # Absent => s[k] = t[k]
    BY <2>1 DEF Entries
  <2>4. t[k] # Absent => s[k] = t[k]
    BY <2>2 DEF Entries
  <2> QED BY <2>3, <2>4
<1> QED BY <1>1 DEF Store

\* StateStore::apply keeps a store a store.
LEMMA ApplyType ==
    ASSUME NEW s \in Store, NEW tx \in Tx
    PROVE  Apply(s, tx) \in Store
BY DEF Apply, Store, Tx

\* With nothing after from, the loop leaves the store alone.
LEMMA ApplyFromNothing ==
    ASSUME NEW s \in Store, NEW S, NEW ops \in Seq(S)
    PROVE  ApplyFrom(s, ops, Len(ops)) = s
<1>1. ASSUME NEW k \in Keys, NEW j \in DOMAIN ops
      PROVE  ~LastWrite(ops, Len(ops), k, j)
  BY DEF LastWrite
<1> QED BY <1>1 DEF ApplyFrom, Store

\* A further op that is not a transaction changes nothing.
LEMMA ApplyFromSkip ==
    ASSUME NEW s \in Store, NEW S, NEW ops \in Seq(S), NEW op \in S,
           NEW from \in 0..Len(ops),
           op.type \notin {"Set", "Remove"}
    PROVE  ApplyFrom(s, Append(ops, op), from) = ApplyFrom(s, ops, from)
<1> DEFINE longer == Append(ops, op)
<1>0. /\ longer \in Seq(S) /\ Len(longer) = Len(ops) + 1
      /\ longer[Len(ops) + 1] = op
      /\ \A i \in 1..Len(ops) : longer[i] = ops[i]
      /\ DOMAIN longer = 1..(Len(ops) + 1) /\ DOMAIN ops = 1..Len(ops)
  OBVIOUS
<1> HIDE DEF longer
<1>1. ASSUME NEW k \in Keys, NEW j
      PROVE  (j \in DOMAIN longer /\ LastWrite(longer, from, k, j))
                <=> (j \in DOMAIN ops /\ LastWrite(ops, from, k, j))
  BY <1>0 DEF LastWrite, Writes
<1>2. ASSUME NEW k \in Keys
      PROVE  LastWriter(longer, from, k) = LastWriter(ops, from, k)
  BY <1>1, Zenon DEF LastWriter
<1>3. ASSUME NEW k \in Keys, NEW j \in DOMAIN ops, LastWrite(ops, from, k, j)
      PROVE  LastWriter(ops, from, k) \in DOMAIN ops
  BY <1>3 DEF LastWriter
<1>4. ASSUME NEW k \in Keys
      PROVE  ApplyFrom(s, longer, from)[k] = ApplyFrom(s, ops, from)[k]
  BY <1>0, <1>1, <1>2, <1>3 DEF ApplyFrom
<1> QED BY <1>4 DEF ApplyFrom, longer

\* A further transaction is applied to what the loop had built before it.
THEOREM ApplyFromAppend ==
    ASSUME NEW s \in Store, NEW S, NEW ops \in Seq(S), NEW op \in S,
           NEW from \in 0..Len(ops),
           op \in Tx
    PROVE  ApplyFrom(s, Append(ops, op), from) = Apply(ApplyFrom(s, ops, from), op)
<1> DEFINE longer == Append(ops, op)
<1>0. /\ longer \in Seq(S) /\ Len(longer) = Len(ops) + 1
      /\ longer[Len(ops) + 1] = op
      /\ \A i \in 1..Len(ops) : longer[i] = ops[i]
      /\ DOMAIN longer = 1..(Len(ops) + 1) /\ DOMAIN ops = 1..Len(ops)
  OBVIOUS
<1>t. op.type \in {"Set", "Remove"} /\ op.key \in Keys
  BY DEF Tx
<1> HIDE DEF longer
<1>1. ApplyFrom(s, longer, from)[op.key] = op.value
  <2>1. LastWrite(longer, from, op.key, Len(ops) + 1)
    BY <1>0, <1>t DEF LastWrite, Writes
  <2>2. ASSUME NEW j \in DOMAIN longer, LastWrite(longer, from, op.key, j)
        PROVE  j = Len(ops) + 1
    BY <1>0, <1>t, <2>2 DEF LastWrite, Writes
  <2>3. LastWriter(longer, from, op.key) = Len(ops) + 1
    BY <1>0, <2>1, <2>2 DEF LastWriter
  <2> QED BY <1>0, <1>t, <2>1, <2>3 DEF ApplyFrom
<1>2. ASSUME NEW k \in Keys, k # op.key
      PROVE  ApplyFrom(s, longer, from)[k] = ApplyFrom(s, ops, from)[k]
  <2>1. ASSUME NEW j
        PROVE  (j \in DOMAIN longer /\ LastWrite(longer, from, k, j))
                  <=> (j \in DOMAIN ops /\ LastWrite(ops, from, k, j))
    BY <1>0, <1>2 DEF LastWrite, Writes
  <2>2. LastWriter(longer, from, k) = LastWriter(ops, from, k)
    BY <2>1, Zenon DEF LastWriter
  <2>3. ASSUME NEW j \in DOMAIN ops, LastWrite(ops, from, k, j)
        PROVE  LastWriter(ops, from, k) \in DOMAIN ops
    BY <2>3 DEF LastWriter
  <2> QED BY <1>0, <2>1, <2>2, <2>3 DEF ApplyFrom
<1> QED BY <1>t, <1>1, <1>2 DEF ApplyFrom, Apply, longer

\* The loop over transactions, and ops that are none, builds a store.
LEMMA ApplyFromType ==
    ASSUME NEW s \in Store, NEW S, NEW ops \in Seq(S), NEW from,
           \A op \in S : op.type \in {"Set", "Remove"} => op \in Tx
    PROVE  ApplyFrom(s, ops, from) \in Store
<1>1. ASSUME NEW k \in Keys, NEW j \in DOMAIN ops, LastWrite(ops, from, k, j)
      PROVE  ops[LastWriter(ops, from, k)].value \in Values \cup {Absent}
  <2> DEFINE w == LastWriter(ops, from, k)
  <2>1. w \in DOMAIN ops /\ LastWrite(ops, from, k, w)
    BY <1>1 DEF LastWriter
  <2>2. ops[w] \in Tx
    BY <2>1 DEF LastWrite, Writes
  <2> QED BY <2>2 DEF Tx
<1> QED BY <1>1 DEF ApplyFrom, Store
----------------------------------------------------------------------------
(* Induction, recursion and sequences.                                     *)

\* Induction over the natural numbers, for a set: a set that holds 0, and
\* with a number its successor, holds all of them.
LEMMA NatSetInduction ==
    ASSUME NEW S, 0 \in S, \A n \in Nat : n \in S => n + 1 \in S
    PROVE  \A n \in Nat : n \in S
<1> DEFINE T == Nat \ S
<1>t. T \subseteq Nat
  OBVIOUS
<1> SUFFICES ASSUME T # {} PROVE FALSE
  OBVIOUS
<1>1. ~\A x \in T : \E y \in T : y < x
  <2> SUFFICES ASSUME \A x \in T : \E y \in T : y < x PROVE FALSE
    OBVIOUS
  <2> HIDE DEF T
  <2>1. \E x \in T : \A y \in T : ~(<<y, x>> \in OpToRel(<, Nat))
    BY <1>t, NatLessThanWellFounded, WFMin
  <2>2. ASSUME NEW x \in T, NEW y \in T, y < x PROVE <<y, x>> \in OpToRel(<, Nat)
    BY <1>t, <2>2 DEF OpToRel
  <2> QED BY <2>1, <2>2, Zenon
<1>2. PICK x \in T : \A y \in T : ~(y < x)
  BY <1>1
<1>3. x \in Nat /\ x # 0 /\ x - 1 \in Nat
  BY <1>2
<1>4. x - 1 \in S
  BY <1>2, <1>3
<1>5. (x - 1) + 1 \in S
  BY <1>3, <1>4
<1> QED BY <1>2, <1>3, <1>5

\* The recursion with first value x and step g has a solution.
Recursion(S, x, g) ==
    \E f \in [Nat -> S] : f[0] = x /\ \A n \in Nat : f[n + 1] = g[<<n, f[n]>>]

\* Recursion over the natural numbers, for a step that is a function.
LEMMA NatRecursion ==
    ASSUME NEW S, NEW x \in S, NEW g \in [Nat \X S -> S]
    PROVE  Recursion(S, x, g)
<1> DEFINE IsPart(f, k) == /\ f[0] = x
                           /\ \A i \in 0..k - 1 : f[i + 1] = g[<<i, f[i]>>]
           P == {k \in Nat : \E f \in [0..k -> S] : IsPart(f, k)}
<1>1. \A k \in Nat : k \in P
  <2>1. 0 \in P
    <3>1. [i \in 0..0 |-> x] \in [0..0 -> S] /\ IsPart([i \in 0..0 |-> x], 0)
      OBVIOUS
    <3> QED BY <3>1
  <2>2. ASSUME NEW k \in Nat, k \in P PROVE k + 1 \in P
    <3>1. PICK f \in [0..k -> S] : IsPart(f, k)
      BY <2>2
    <3> DEFINE h == [i \in 0..k + 1 |-> IF i = k + 1 THEN g[<<k, f[k]>>] ELSE f[i]]
    <3>2. g[<<k, f[k]>>] \in S
      OBVIOUS
    <3>3. h \in [0..k + 1 -> S]
      BY <3>2
    <3>4. h[0] = x
      BY <3>1
    <3>5. ASSUME NEW i \in 0..(k + 1) - 1 PROVE h[i + 1] = g[<<i, h[i]>>]
      <4>1. CASE i = k
        <5>1. h[k + 1] = g[<<k, f[k]>>] /\ h[k] = f[k]
          OBVIOUS
        <5> HIDE DEF h
        <5> QED BY <5>1, <4>1
      <4>2. CASE i # k
        <5>1. i \in 0..k - 1 /\ h[i + 1] = f[i + 1] /\ h[i] = f[i]
          BY <4>2
        <5> HIDE DEF h
        <5> QED BY <5>1, <3>1
      <4> QED BY <4>1, <4>2
    <3> HIDE DEF h
    <3> QED BY <3>3, <3>4, <3>5
  <2> HIDE DEF P
  <2> QED BY <2>1, <2>2, NatSetInduction
<1> DEFINE part(k) == CHOOSE f \in [0..k -> S] : IsPart(f, k)
<1>2. ASSUME NEW k \in Nat PROVE part(k) \in [0..k -> S] /\ IsPart(part(k), k)
  BY <1>1
<1> HIDE DEF part
\* Two parts agree where both are defined.
<1> DEFINE Q == {i \in Nat : \A k, l \in Nat : i <= k /\ i <= l => part(k)[i] = part(l)[i]}
<1>3. \A i \in Nat : i \in Q
  <2>1. 0 \in Q
    BY <1>2
  <2>2. ASSUME NEW i \in Nat, i \in Q PROVE i + 1 \in Q
    <3> SUFFICES ASSUME NEW k \in Nat, NEW l \in Nat, i + 1 <= k, i + 1 <= l
                 PROVE  part(k)[i + 1] = part(l)[i + 1]
      OBVIOUS
    <3>1. part(k)[i] = part(l)[i]
      BY <2>2
    <3>2. part(k)[i + 1] = g[<<i, part(k)[i]>>] /\ part(l)[i + 1] = g[<<i, part(l)[i]>>]
      BY <1>2
    <3> QED BY <3>1, <3>2
  <2> HIDE DEF Q
  <2> QED BY <2>1, <2>2, NatSetInduction
<1> DEFINE f == [n \in Nat |-> part(n)[n]]
<1>4. f \in [Nat -> S] /\ f[0] = x
  BY <1>2
<1>5. ASSUME NEW n \in Nat PROVE f[n + 1] = g[<<n, f[n]>>]
  <2>1. part(n + 1)[n + 1] = g[<<n, part(n + 1)[n]>>]
    BY <1>2
  <2>2. part(n + 1)[n] = part(n)[n]
    BY <1>3
  <2> QED BY <2>1, <2>2
<1> HIDE DEF f
<1> QED BY <1>4, <1>5 DEF Recursion

\* A set of numbers has a least one.
LEMMA LeastNumber ==
    ASSUME NEW S, S \subseteq Nat, NEW x \in S PROVE \E m \in S : \A k \in S : m <= k
<1> DEFINE T == {m \in Nat : \A k \in S : m <= k}
<1> SUFFICES ASSUME ~\E m \in S : \A k \in S : m <= k PROVE FALSE
  OBVIOUS
<1>1. 0 \in T
  OBVIOUS
<1>2. ASSUME NEW m \in Nat, m \in T PROVE m + 1 \in T
  <2>1. m \notin S
    BY <1>2
  <2>2. \A k \in S : m <= k /\ k # m
    BY <1>2, <2>1
  <2> QED BY <2>2
<1> HIDE DEF T
<1>3. \A m \in Nat : m \in T
  BY <1>1, <1>2, NatSetInduction
<1>4. x \in Nat /\ x + 1 \in T
  BY <1>3
<1> QED BY <1>4 DEF T

\* What a concatenation holds.
LEMMA Concatenation ==
    ASSUME NEW S, NEW s \in Seq(S), NEW t \in Seq(S), NEW n \in Nat, n = Len(s)
    PROVE  /\ s \o t \in Seq(S) /\ Len(s \o t) = n + Len(t)
           /\ \A j \in 1..n : (s \o t)[j] = s[j]
           /\ \A j \in 1..Len(t) : (s \o t)[n + j] = t[j]
OBVIOUS

\* Concatenation can be grouped either way.
LEMMA Associativity ==
    ASSUME NEW S, NEW s \in Seq(S), NEW t \in Seq(S), NEW u \in Seq(S)
    PROVE  s \o (t \o u) = (s \o t) \o u
OBVIOUS

\* Sequences of one length and with the same elements are the same.
LEMMA SameElements ==
    ASSUME NEW S, NEW s \in Seq(S), NEW t \in Seq(S), Len(s) = Len(t),
           \A j \in 1..Len(s) : s[j] = t[j]
    PROVE  s = t
OBVIOUS

\* What a front of a sequence holds.
LEMMA Front ==
    ASSUME NEW S, NEW s \in Seq(S), NEW n \in 0..Len(s)
    PROVE  /\ SubSeq(s, 1, n) \in Seq(S) /\ Len(SubSeq(s, 1, n)) = n
           /\ \A j \in 1..n : SubSeq(s, 1, n)[j] = s[j]
OBVIOUS

\* What is left behind the front.
LEMMA Back ==
    ASSUME NEW S, NEW s \in Seq(S), NEW n \in 0..Len(s)
    PROVE  /\ SubSeq(s, n + 1, Len(s)) \in Seq(S) /\ Len(SubSeq(s, n + 1, Len(s))) = Len(s) - n
           /\ \A j \in 1..Len(s) - n : SubSeq(s, n + 1, Len(s))[j] = s[n + j]
OBVIOUS

\* A send that fails leaves the front of a frame, and the stream ends.
LEMMA FrontAndBack ==
    ASSUME NEW S, NEW s \in Seq(S), NEW n \in 0..Len(s)
    PROVE  s = SubSeq(s, 1, n) \o SubSeq(s, n + 1, Len(s))
<1> DEFINE f == SubSeq(s, 1, n)
           b == SubSeq(s, n + 1, Len(s))
<1>l. PICK l \in Nat : l = Len(s) /\ n \in 0..l
  OBVIOUS
<1>1. f \in Seq(S) /\ Len(f) = n /\ \A j \in 1..n : f[j] = s[j]
  BY Front
<1>2. b \in Seq(S) /\ Len(b) = l - n /\ \A j \in 1..l - n : b[j] = s[n + j]
  BY Back, <1>l
<1> HIDE DEF f, b
<1>3. f \o b \in Seq(S) /\ Len(f \o b) = l
  BY <1>1, <1>2, <1>l
<1>4. ASSUME NEW j \in 1..l PROVE (f \o b)[j] = s[j]
  <2>1. CASE j <= n
    BY <2>1, <1>1, <1>2, <1>l
  <2>2. CASE j > n
    <3>1. j - n \in 1..l - n /\ n + (j - n) = j
      BY <2>2, <1>l
    <3>2. (f \o b)[j] = b[j - n]
      BY <2>2, <1>1, <1>2, <1>l
    <3> QED BY <3>1, <3>2, <1>2
  <2>3. j <= n \/ j > n
    BY <1>l
  <2> QED BY <2>1, <2>2, <2>3
<1> QED BY <1>3, <1>4, <1>l, SameElements DEF f, b

\* Cutting the front off commutes with appending at the back.
LEMMA BackOfConcatenation ==
    ASSUME NEW S, NEW s \in Seq(S), NEW t \in Seq(S), NEW n \in 0..Len(s)
    PROVE  SubSeq(s, n + 1, Len(s)) \o t = SubSeq(s \o t, n + 1, Len(s \o t))
<1> DEFINE b == SubSeq(s, n + 1, Len(s))
           u == s \o t
           v == SubSeq(u, n + 1, Len(u))
<1>l. PICK l \in Nat, m \in Nat : l = Len(s) /\ m = Len(t) /\ n \in 0..l
  OBVIOUS
<1>1. u \in Seq(S) /\ Len(u) = l + m /\ n \in 0..Len(u)
      /\ (\A j \in 1..l : u[j] = s[j]) /\ \A j \in 1..m : u[l + j] = t[j]
  BY <1>l
<1> HIDE DEF u
<1>2. b \in Seq(S) /\ Len(b) = l - n /\ \A j \in 1..l - n : b[j] = s[n + j]
  BY Back, <1>l
<1>3. v \in Seq(S) /\ Len(v) = l + m - n /\ \A j \in 1..l + m - n : v[j] = u[n + j]
  <2>1. /\ v \in Seq(S) /\ Len(v) = Len(u) - n
        /\ \A j \in 1..Len(u) - n : v[j] = u[n + j]
    BY Back, <1>1
  <2> HIDE DEF v
  <2> QED BY <2>1, <1>1
<1> HIDE DEF b, v
<1>k. PICK k \in Nat : k = l - n
  <2>1. l - n \in Nat
    BY <1>l
  <2> QED BY <2>1
<1>4. /\ b \o t \in Seq(S) /\ Len(b \o t) = k + m
      /\ (\A j \in 1..k : (b \o t)[j] = b[j]) /\ \A j \in 1..m : (b \o t)[k + j] = t[j]
  <2>1. k = Len(b)
    BY <1>2, <1>k
  <2>2. b \in Seq(S) /\ m = Len(t)
    BY <1>2, <1>l
  <2>3. /\ b \o t \in Seq(S) /\ Len(b \o t) = k + Len(t)
        /\ \A j \in 1..k : (b \o t)[j] = b[j]
        /\ \A j \in 1..Len(t) : (b \o t)[k + j] = t[j]
    BY <2>1, <2>2, Concatenation
  <2> DEFINE c == b \o t
  <2> HIDE DEF c
  <2> QED BY <2>2, <2>3 DEF c
<1>a. l + m - n = k + m /\ l - n = k
  BY <1>k, <1>l
<1>5. ASSUME NEW j \in 1..k + m PROVE (b \o t)[j] = v[j]
  <2>1. CASE j <= k
    <3>1. n + j \in 1..l /\ j \in 1..k
      BY <2>1, <1>l, <1>k
    <3>2. (b \o t)[j] = s[n + j]
      BY <3>1, <1>2, <1>4, <1>a
    <3>3. v[j] = s[n + j]
      BY <3>1, <1>1, <1>3, <1>a
    <3> QED BY <3>2, <3>3
  <2>2. CASE j > k
    <3>1. PICK i \in 1..m : j = k + i
      <4>1. j - k \in 1..m /\ j = k + (j - k)
        BY <2>2, <1>l, <1>k
      <4> QED BY <4>1
    <3>2. (b \o t)[j] = t[i]
      BY <3>1, <1>4
    <3>3. n + j = l + i
      BY <3>1, <1>l, <1>k
    <3>4. v[j] = t[i]
      BY <3>1, <3>3, <1>1, <1>3, <1>a
    <3> QED BY <3>2, <3>4
  <2>3. j <= k \/ j > k
    BY <1>k, <1>l
  <2> QED BY <2>1, <2>2, <2>3
<1> QED BY <1>3, <1>4, <1>5, <1>a, SameElements DEF b, u, v
=============================================================================
