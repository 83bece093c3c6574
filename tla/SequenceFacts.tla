----------------------------- MODULE SequenceFacts -----------------------------
(***************************************************************************)
(* Facts about sequences that the proofs about queues share: which         *)
(* elements a queue has, how often, and in which order.                    *)
(***************************************************************************)
EXTENDS Integers, Sequences, FiniteSets, SequencesExt, FiniteSetTheorems, SequenceTheorems, TLAPS

\* e occurs in s at most once.
Once(s, e) == \A i, j \in DOMAIN s : s[i] = e /\ s[j] = e => i = j

\* Every b in s has an a in front of it.
Before(s, a, b) == \A j \in DOMAIN s : s[j] = b => \E i \in DOMAIN s : i < j /\ s[i] = a

LEMMA AbsentFacts ==
  ASSUME NEW s, NEW e, e \notin ToSet(s)
  PROVE  Once(s, e) /\ \A a : Before(s, a, e)
BY DEF ToSet, Once, Before

LEMMA EmptyFacts ==
  ASSUME NEW X
  PROVE  /\ <<>> \in Seq(X)
         /\ ToSet(<<>>) = {}
         /\ \A e : Once(<<>>, e)
         /\ \A a, b : Before(<<>>, a, b)
BY DEF ToSet, Once, Before

LEMMA SingleFacts ==
  ASSUME NEW X, NEW e \in X
  PROVE  /\ <<e>> \in Seq(X)
         /\ ToSet(<<e>>) = {e}
         /\ \A x : Once(<<e>>, x)
         /\ \A a, b : b # e => Before(<<e>>, a, b)
BY DEF ToSet, Once, Before

LEMMA PairFacts ==
  ASSUME NEW X, NEW d \in X, NEW e \in X, d # e
  PROVE  /\ <<d, e>> \in Seq(X)
         /\ ToSet(<<d, e>>) = {d, e}
         /\ \A x : Once(<<d, e>>, x)
         /\ \A a, b : b \notin {d, e} => Before(<<d, e>>, a, b)
<1> DEFINE s == <<d, e>>
<1>1. s \in Seq(X) /\ Len(s) = 2 /\ DOMAIN s = 1..2 /\ s[1] = d /\ s[2] = e
  OBVIOUS
<1> HIDE DEF s
<1>2. ToSet(s) = {d, e}
  BY <1>1 DEF ToSet
<1> QED
  BY <1>1, <1>2 DEF s, Once, Before

LEMMA AppendFacts ==
  ASSUME NEW X, NEW s \in Seq(X), NEW e \in X
  PROVE  /\ Append(s, e) \in Seq(X)
         /\ ToSet(Append(s, e)) = ToSet(s) \cup {e}
         /\ \A x : Once(s, x) /\ (x = e => x \notin ToSet(s)) => Once(Append(s, e), x)
         /\ \A a, b : Before(s, a, b) /\ (b = e => a \in ToSet(s)) => Before(Append(s, e), a, b)
<1> DEFINE r == Append(s, e)
<1>1. /\ r \in Seq(X) /\ Len(s) \in Nat /\ Len(r) = Len(s) + 1
      /\ DOMAIN s = 1..Len(s) /\ DOMAIN r = 1..(Len(s) + 1)
      /\ \A i \in 1..Len(s) : r[i] = s[i]
      /\ r[Len(s) + 1] = e
  BY AppendProperties, LenProperties
<1> HIDE DEF r
<1>2. ToSet(r) = ToSet(s) \cup {e}
  BY <1>1 DEF ToSet
<1>3. ASSUME NEW x, Once(s, x), x = e => x \notin ToSet(s)
      PROVE  Once(r, x)
  BY <1>1, <1>3 DEF Once, ToSet
<1>4. ASSUME NEW a, NEW b, Before(s, a, b), b = e => a \in ToSet(s)
      PROVE  Before(r, a, b)
  <2> SUFFICES ASSUME NEW j \in DOMAIN r, r[j] = b
               PROVE  \E i \in DOMAIN r : i < j /\ r[i] = a
    BY DEF Before
  <2>1. CASE j \in 1..Len(s)
    BY <1>1, <1>4, <2>1 DEF Before
  <2>2. CASE j = Len(s) + 1
    BY <1>1, <1>4, <2>2 DEF ToSet
  <2> QED
    BY <1>1, <2>1, <2>2
<1> QED
  BY <1>1, <1>2, <1>3, <1>4 DEF r

LEMMA TailFacts ==
  ASSUME NEW X, NEW s \in Seq(X), s # <<>>
  PROVE  /\ Head(s) \in X
         /\ Tail(s) \in Seq(X)
         /\ ToSet(s) = {Head(s)} \cup ToSet(Tail(s))
         /\ \A x : Once(s, x) => Once(Tail(s), x) /\ (x = Head(s) => x \notin ToSet(Tail(s)))
         /\ \A a, b : Before(s, a, b) => (a # Head(s) => Before(Tail(s), a, b) /\ b # Head(s))
<1> DEFINE r == Tail(s)
<1>1. /\ Len(s) \in Nat /\ Len(s) > 0 /\ r \in Seq(X) /\ Len(r) = Len(s) - 1
      /\ DOMAIN s = 1..Len(s) /\ DOMAIN r = 1..(Len(s) - 1)
      /\ \A i \in 1..(Len(s) - 1) : r[i] = s[i + 1]
      /\ Head(s) = s[1] /\ Head(s) \in X
  BY HeadTailProperties, LenProperties, EmptySeq
<1>2. Len(r) = 0 => r = <<>>
  BY <1>1, EmptySeq
<1> HIDE DEF r
<1>3. ToSet(s) = {Head(s)} \cup ToSet(r)
  <2>1. ASSUME NEW i \in DOMAIN s
        PROVE  s[i] \in {Head(s)} \cup ToSet(r)
    <3>1. CASE i = 1
      BY <1>1, <3>1
    <3>2. CASE i # 1
      <4>1. i - 1 \in DOMAIN r /\ r[i - 1] = s[i]
        BY <1>1, <3>2
      <4> QED
        BY <4>1 DEF ToSet
    <3> QED
      BY <3>1, <3>2
  <2>2. ASSUME NEW i \in DOMAIN r
        PROVE  r[i] \in ToSet(s)
    BY <1>1 DEF ToSet
  <2>3. Head(s) \in ToSet(s)
    BY <1>1 DEF ToSet
  <2> QED
    BY <2>1, <2>2, <2>3 DEF ToSet
<1>4. ASSUME NEW x, Once(s, x)
      PROVE  Once(r, x) /\ (x = Head(s) => x \notin ToSet(r))
  <2>1. ASSUME NEW i \in DOMAIN r, NEW j \in DOMAIN r, r[i] = x, r[j] = x
        PROVE  i = j
    <3>1. i + 1 \in DOMAIN s /\ j + 1 \in DOMAIN s /\ s[i + 1] = x /\ s[j + 1] = x
      BY <1>1, <2>1
    <3>2. i + 1 = j + 1
      BY <1>4, <3>1 DEF Once
    <3> QED
      BY <1>1, <3>2
  <2>2. ASSUME x = Head(s), NEW i \in DOMAIN r, r[i] = x
        PROVE  FALSE
    <3>1. i + 1 \in DOMAIN s /\ 1 \in DOMAIN s /\ s[i + 1] = x /\ s[1] = x
      BY <1>1, <2>2
    <3>2. i + 1 = 1
      BY <1>4, <3>1 DEF Once
    <3> QED
      BY <1>1, <3>2
  <2> QED
    BY <2>1, <2>2 DEF Once, ToSet
<1>5. ASSUME NEW a, NEW b, Before(s, a, b), a # Head(s)
      PROVE  Before(r, a, b) /\ b # Head(s)
  <2>1. ASSUME NEW j \in DOMAIN r, r[j] = b
        PROVE  \E i \in DOMAIN r : i < j /\ r[i] = a
    <3>1. j + 1 \in DOMAIN s /\ s[j + 1] = b
      BY <1>1, <2>1
    <3>2. PICK i \in DOMAIN s : i < j + 1 /\ s[i] = a
      BY <1>5, <3>1 DEF Before
    <3>3. i # 1
      BY <1>1, <1>5, <3>2
    <3>4. i - 1 \in DOMAIN r /\ i - 1 < j /\ r[i - 1] = a
      BY <1>1, <3>2, <3>3
    <3> QED
      BY <3>4
  <2>2. ASSUME b = Head(s) PROVE FALSE
    BY <1>1, <1>5, <2>2 DEF Before
  <2> QED
    BY <2>1, <2>2 DEF Before
<1> QED
  BY <1>1, <1>3, <1>4, <1>5 DEF r

LEMMA ConcatFacts ==
  ASSUME NEW X, NEW p \in Seq(X), NEW r \in Seq(X)
  PROVE  /\ p \o r \in Seq(X)
         /\ ToSet(p \o r) = ToSet(p) \cup ToSet(r)
         /\ \A x : Once(p, x) /\ Once(r, x) /\ ~(x \in ToSet(p) /\ x \in ToSet(r)) => Once(p \o r, x)
         /\ \A a, b : Before(p, a, b) /\ (Before(r, a, b) \/ a \in ToSet(p)) => Before(p \o r, a, b)
<1> DEFINE q == p \o r
<1>1. /\ q \in Seq(X) /\ Len(p) \in Nat /\ Len(r) \in Nat /\ Len(q) = Len(p) + Len(r)
      /\ DOMAIN p = 1..Len(p) /\ DOMAIN r = 1..Len(r) /\ DOMAIN q = 1..(Len(p) + Len(r))
      /\ \A i \in 1..Len(p) : q[i] = p[i]
  BY ConcatProperties, LenProperties
<1>2. \A i \in 1..Len(r) : Len(p) + i \in DOMAIN q /\ q[Len(p) + i] = r[i]
  BY ConcatProperties, <1>1
<1>3. \A k \in DOMAIN q : k \in DOMAIN p \/ \E i \in DOMAIN r : k = Len(p) + i
  <2> SUFFICES ASSUME NEW k \in DOMAIN q, k \notin DOMAIN p
               PROVE  \E i \in DOMAIN r : k = Len(p) + i
    OBVIOUS
  <2>1. k - Len(p) \in DOMAIN r /\ k = Len(p) + (k - Len(p))
    BY <1>1
  <2> QED
    BY <2>1
<1> HIDE DEF q
<1>4. ToSet(q) = ToSet(p) \cup ToSet(r)
  <2>1. \A k \in DOMAIN q : q[k] \in ToSet(p) \cup ToSet(r)
    BY <1>1, <1>2, <1>3 DEF ToSet
  <2>2. \A i \in DOMAIN p : p[i] \in ToSet(q)
    BY <1>1 DEF ToSet
  <2>3. \A i \in DOMAIN r : r[i] \in ToSet(q)
    BY <1>1, <1>2 DEF ToSet
  <2> QED
    BY <2>1, <2>2, <2>3 DEF ToSet
<1>5. ASSUME NEW x, Once(p, x), Once(r, x), ~(x \in ToSet(p) /\ x \in ToSet(r))
      PROVE  Once(q, x)
  <2> SUFFICES ASSUME NEW k \in DOMAIN q, NEW l \in DOMAIN q, q[k] = x, q[l] = x
               PROVE  k = l
    BY DEF Once
  <2>1. CASE k \in DOMAIN p /\ l \in DOMAIN p
    BY <1>1, <1>5, <2>1 DEF Once
  <2>2. CASE k \in DOMAIN p /\ l \notin DOMAIN p
    BY <1>1, <1>2, <1>3, <1>5, <2>2 DEF ToSet
  <2>3. CASE k \notin DOMAIN p /\ l \in DOMAIN p
    BY <1>1, <1>2, <1>3, <1>5, <2>3 DEF ToSet
  <2>4. CASE k \notin DOMAIN p /\ l \notin DOMAIN p
    <3>1. PICK i \in DOMAIN r : k = Len(p) + i
      BY <1>3, <2>4
    <3>2. PICK j \in DOMAIN r : l = Len(p) + j
      BY <1>3, <2>4
    <3>3. i = j
      BY <1>1, <1>2, <1>5, <3>1, <3>2 DEF Once
    <3> QED
      BY <3>1, <3>2, <3>3
  <2> QED
    BY <2>1, <2>2, <2>3, <2>4
<1>6. ASSUME NEW a, NEW b, Before(p, a, b), Before(r, a, b) \/ a \in ToSet(p)
      PROVE  Before(q, a, b)
  <2> SUFFICES ASSUME NEW k \in DOMAIN q, q[k] = b
               PROVE  \E l \in DOMAIN q : l < k /\ q[l] = a
    BY DEF Before
  <2>1. CASE k \in DOMAIN p
    BY <1>1, <1>6, <2>1 DEF Before
  <2>2. CASE k \notin DOMAIN p /\ a \in ToSet(p)
    BY <1>1, <2>2 DEF ToSet
  <2>3. CASE k \notin DOMAIN p /\ Before(r, a, b)
    <3>1. PICK i \in DOMAIN r : k = Len(p) + i
      BY <1>3, <2>3
    <3>2. r[i] = b
      BY <1>1, <1>2, <3>1
    <3>3. PICK j \in DOMAIN r : j < i /\ r[j] = a
      BY <2>3, <3>2 DEF Before
    <3>4. Len(p) + j \in DOMAIN q /\ Len(p) + j < k /\ q[Len(p) + j] = a
      BY <1>1, <1>2, <3>1, <3>3
    <3> QED
      BY <3>4
  <2> QED
    BY <1>6, <2>1, <2>2, <2>3
<1> QED
  BY <1>1, <1>4, <1>5, <1>6 DEF q

LEMMA ToSetFinite ==
  ASSUME NEW X, NEW s \in Seq(X)
  PROVE  IsFiniteSet(ToSet(s)) /\ ToSet(s) \subseteq X
<1>1. Len(s) \in Nat /\ DOMAIN s = 1..Len(s) /\ s \in [1..Len(s) -> X]
  BY LenProperties
<1>2. s \in Surjection(1..Len(s), ToSet(s))
  BY <1>1 DEF Surjection, ToSet
<1>3. IsFiniteSet(1..Len(s))
  BY <1>1, FS_Interval
<1> QED
  BY <1>1, <1>2, <1>3, FS_Surjection DEF ToSet

\* The orders SetToSeqs offers have every element of the set.
LEMMA SetToSeqsFacts ==
  ASSUME NEW S, IsFiniteSet(S), NEW q \in SetToSeqs(S)
  PROVE  q \in Seq(S) /\ ToSet(q) = S
<1> DEFINE D == 1..Cardinality(S)
<1>1. Cardinality(S) \in Nat
  BY FS_CardinalityType
<1>2. q \in [D -> S] /\ \A i, j \in D : i # j => q[i] # q[j]
  BY DEF SetToSeqs
<1>3. q \in Injection(D, S)
  BY <1>2 DEF Injection, IsInjective
<1>4. Cardinality(D) = Cardinality(S)
  BY <1>1, FS_Interval
<1>5. q \in Surjection(D, S)
  BY <1>3, <1>4, FS_Injection
<1>6. ToSet(q) = S
  BY <1>2, <1>5 DEF ToSet, Surjection
<1>7. q \in Seq(S)
  BY <1>1, <1>2
<1> QED
  BY <1>6, <1>7

\* SetToSeq has every element of the set, once.
LEMMA SetToSeqFacts ==
  ASSUME NEW S, IsFiniteSet(S)
  PROVE  SetToSeq(S) \in Seq(S) /\ ToSet(SetToSeq(S)) = S
<1> DEFINE D == 1..Cardinality(S)
<1>1. Cardinality(S) \in Nat /\ ExistsBijection(D, S)
  BY FS_CardinalityType
<1>2. PICK g \in [D -> S] : IsInjective(g)
  BY <1>1 DEF ExistsBijection, Bijection, Injection
<1>3. SetToSeq(S) \in [D -> S] /\ IsInjective(SetToSeq(S))
  BY <1>2 DEF SetToSeq
<1>4. SetToSeq(S) \in SetToSeqs(S)
  BY <1>3 DEF SetToSeqs, IsInjective
<1> QED
  BY <1>4, SetToSeqsFacts
===============================================================================
