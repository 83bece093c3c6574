-------------------------- MODULE ContextPool_proofs --------------------------
(***************************************************************************)
(* Proofs about ContextPool, for any set of requests, whatever they ask    *)
(* for, and any number of cancellations.                                   *)
(***************************************************************************)
EXTENDS ContextPool, SequenceFacts, WellFoundedInduction

-------------------------------------------------------------------------------
(* Keep: what stays of a queue.                                            *)

\* A nonempty set of naturals has a least element: induction for what follows.
LEMMA LeastNatural ==
  ASSUME NEW T, T \subseteq Nat, T # {}
  PROVE  \E m \in T : \A k \in T : m <= k
<1>1. PICK m \in T : \A k \in T : ~(<<k, m>> \in OpToRel(<, Nat))
  BY WFMin, NatLessThanWellFounded
<1>2. \A k \in T : ~(k < m)
  BY <1>1 DEF OpToRel
<1> QED
  BY <1>2

\* No element occurs twice.
Distinct(s) == \A i, j \in DOMAIN s : s[i] = s[j] => i = j

\* f is the function Keep computes with, up to n.
Keeps(f, s, S, n) ==
  f = [i \in 0..n |-> IF i = 0 THEN <<>>
                      ELSE IF s[i] \in S THEN Append(f[i - 1], s[i]) ELSE f[i - 1]]

LEMMA KeepsExists ==
  ASSUME NEW s, NEW S, NEW n \in Nat
  PROVE  \E f : Keeps(f, s, S, n)
<1> DEFINE Bad == {i \in Nat : ~ \E f : Keeps(f, s, S, i)}
<1>1. SUFFICES ASSUME Bad # {} PROVE FALSE
  OBVIOUS
<1>2. PICK m \in Bad : \A k \in Bad : m <= k
  BY <1>1, LeastNatural
<1>3. m # 0
  <2> DEFINE g == [i \in 0..0 |-> <<>>]
  <2>1. Keeps(g, s, S, 0)
    BY DEF Keeps
  <2> QED
    BY <2>1
<1>4. PICK f : Keeps(f, s, S, m - 1)
  BY <1>2, <1>3
<1>5. \A i \in 0..(m - 1) : f[i] = IF i = 0 THEN <<>>
                                  ELSE IF s[i] \in S THEN Append(f[i - 1], s[i]) ELSE f[i - 1]
  BY <1>3, <1>4 DEF Keeps
<1> DEFINE last == IF s[m] \in S THEN Append(f[m - 1], s[m]) ELSE f[m - 1]
           h == [i \in 0..m |-> IF i < m THEN f[i] ELSE last]
<1>6. /\ \A i \in 0..(m - 1) : h[i] = f[i]
      /\ h[m] = last
  BY <1>3
<1>7. \A i \in 1..m : h[i] = IF s[i] \in S THEN Append(h[i - 1], s[i]) ELSE h[i - 1]
  <2> SUFFICES ASSUME NEW i \in 1..m
               PROVE  h[i] = IF s[i] \in S THEN Append(h[i - 1], s[i]) ELSE h[i - 1]
    OBVIOUS
  <2> HIDE DEF h, last
  <2>1. CASE i < m
    BY <1>3, <1>5, <1>6, <2>1
  <2>2. CASE i = m
    BY <1>3, <1>6, <2>2 DEF last
  <2> QED
    BY <2>1, <2>2
<1>8. h[0] = <<>>
  BY <1>3, <1>5, <1>6
<1>9. Keeps(h, s, S, m)
  <2>1. h = [i \in 0..m |-> h[i]]
    OBVIOUS
  <2> HIDE DEF h, last
  <2>2. \A i \in 0..m : h[i] = IF i = 0 THEN <<>>
                               ELSE IF s[i] \in S THEN Append(h[i - 1], s[i]) ELSE h[i - 1]
    BY <1>7, <1>8
  <2> QED
    BY <2>1, <2>2, Zenon DEF Keeps
<1> QED
  BY <1>2, <1>9

\* What the first n elements of s contribute to Keep(s, S).
Kept(q, s, S, n) ==
  /\ ToSet(q) = {s[i] : i \in 1..n} \cap S
  /\ Distinct(s) => \A x : Once(q, x)
  /\ \A i, j \in 1..n : i < j /\ s[i] \in S /\ s[j] \in S =>
       \E k, l \in DOMAIN q : k < l /\ q[k] = s[i] /\ q[l] = s[j]

LEMMA KeptGrows ==
  ASSUME NEW X, NEW s \in Seq(X), NEW S, NEW n \in 1..Len(s),
         NEW q \in Seq(X), Kept(q, s, S, n - 1)
  PROVE  /\ s[n] \in S => Append(q, s[n]) \in Seq(X) /\ Kept(Append(q, s[n]), s, S, n)
         /\ s[n] \notin S => Kept(q, s, S, n)
<1>1. /\ Len(s) \in Nat /\ DOMAIN s = 1..Len(s) /\ s[n] \in X
      /\ {s[i] : i \in 1..n} = {s[i] : i \in 1..(n - 1)} \cup {s[n]}
  <2>1. Len(s) \in Nat /\ DOMAIN s = 1..Len(s) /\ s[n] \in X
    BY LenProperties, ElementOfSeq
  <2>2. 1..n = 1..(n - 1) \cup {n}
    BY <2>1
  <2> QED
    BY <2>1, <2>2
<1>2. ASSUME s[n] \in S
      PROVE  Append(q, s[n]) \in Seq(X) /\ Kept(Append(q, s[n]), s, S, n)
  <2> DEFINE r == Append(q, s[n])
  <2>1. /\ r \in Seq(X) /\ Len(q) \in Nat
        /\ DOMAIN q = 1..Len(q) /\ DOMAIN r = 1..(Len(q) + 1)
        /\ \A i \in 1..Len(q) : r[i] = q[i]
        /\ r[Len(q) + 1] = s[n]
    BY <1>1, AppendProperties, LenProperties
  <2>2. ToSet(r) = ToSet(q) \cup {s[n]}
    BY <1>1, AppendFacts
  <2>3. ToSet(r) = {s[i] : i \in 1..n} \cap S
    BY <1>1, <1>2, <2>2 DEF Kept
  <2>4. ASSUME Distinct(s), NEW x
        PROVE  Once(r, x)
    <3>1. s[n] \notin ToSet(q)
      BY <1>1, <2>4 DEF Distinct, Kept
    <3>2. Once(q, x)
      BY <2>4 DEF Kept
    <3> QED
      BY <1>1, <3>1, <3>2, AppendFacts
  <2> HIDE DEF r
  <2>5. ASSUME NEW i \in 1..n, NEW j \in 1..n, i < j, s[i] \in S, s[j] \in S
        PROVE  \E k, l \in DOMAIN r : k < l /\ r[k] = s[i] /\ r[l] = s[j]
    <3>1. CASE j < n
      BY <2>1, <2>5, <3>1 DEF Kept
    <3>2. CASE j = n
      <4>1. s[i] \in ToSet(q)
        BY <2>5, <3>2 DEF Kept
      <4>2. PICK k \in DOMAIN q : q[k] = s[i]
        BY <4>1 DEF ToSet
      <4> QED
        BY <2>1, <3>2, <4>2
    <3> QED
      BY <3>1, <3>2
  <2> QED
    BY <2>1, <2>3, <2>4, <2>5 DEF Kept, r
<1>3. ASSUME s[n] \notin S
      PROVE  Kept(q, s, S, n)
  BY <1>1, <1>3 DEF Kept
<1> QED
  BY <1>2, <1>3

\* Keep(s, S) has the elements of s that are in S, in the order they have in s.
LEMMA KeepIsKept ==
  ASSUME NEW X, NEW s \in Seq(X), NEW S
  PROVE  Keep(s, S) \in Seq(X) /\ Kept(Keep(s, S), s, S, Len(s))
<1> DEFINE f == CHOOSE g : Keeps(g, s, S, Len(s))
<1>1. Len(s) \in Nat /\ DOMAIN s = 1..Len(s)
  BY LenProperties
<1>2. Keeps(f, s, S, Len(s))
  BY <1>1, KeepsExists
<1>3. Keep(s, S) = f[Len(s)]
  BY DEF Keep, Keeps
<1> HIDE DEF f
<1>4. /\ f[0] = <<>>
      /\ \A i \in 1..Len(s) : f[i] = IF s[i] \in S THEN Append(f[i - 1], s[i]) ELSE f[i - 1]
  <2>1. \A i \in 0..Len(s) : f[i] = IF i = 0 THEN <<>>
                                    ELSE IF s[i] \in S THEN Append(f[i - 1], s[i]) ELSE f[i - 1]
    BY <1>2, Zenon DEF Keeps
  <2> QED
    BY <1>1, <2>1
<1> DEFINE OK(n) == f[n] \in Seq(X) /\ Kept(f[n], s, S, n)
           Bad == {n \in 0..Len(s) : ~OK(n)}
<1>5. OK(Len(s))
  <2>1. SUFFICES ASSUME Bad # {} PROVE FALSE
    BY <1>1
  <2>6. Bad \subseteq Nat
    BY <1>1
  <2>2. PICK m \in Bad : \A k \in Bad : m <= k
    <3> HIDE DEF Bad
    <3> QED
      BY <2>1, <2>6, LeastNatural
  <2>3. m # 0
    <3>1. f[0] \in Seq(X) /\ ToSet(f[0]) = {} /\ \A x : Once(f[0], x)
      BY <1>4, EmptyFacts
    <3>2. OK(0)
      BY <3>1 DEF Kept
    <3> QED
      BY <3>2
  <2>4. m \in 1..Len(s) /\ OK(m - 1)
    BY <1>1, <2>2, <2>3
  <2>5. OK(m)
    <3> HIDE DEF OK
    <3>1. m \in 1..Len(s) /\ f[m - 1] \in Seq(X) /\ Kept(f[m - 1], s, S, m - 1)
      BY <2>4 DEF OK
    <3>2. f[m] = IF s[m] \in S THEN Append(f[m - 1], s[m]) ELSE f[m - 1]
      BY <1>4, <3>1
    <3>3. s[m] \in X
      BY <1>1, <3>1, ElementOfSeq
    <3>4. /\ s[m] \in S => Kept(Append(f[m - 1], s[m]), s, S, m)
          /\ s[m] \notin S => Kept(f[m - 1], s, S, m)
      BY <3>1, KeptGrows
    <3> QED
      BY <3>1, <3>2, <3>3, <3>4, AppendProperties DEF OK
  <2> QED
    BY <2>5
<1> QED
  BY <1>3, <1>5

LEMMA KeepFacts ==
  ASSUME NEW X, NEW s \in Seq(X), NEW S
  PROVE  /\ Keep(s, S) \in Seq(X)
         /\ ToSet(Keep(s, S)) = ToSet(s) \cap S
         /\ Distinct(s) => Distinct(Keep(s, S)) /\ \A x : Once(Keep(s, S), x)
<1> DEFINE k == Keep(s, S)
<1>1. k \in Seq(X) /\ Kept(k, s, S, Len(s)) /\ DOMAIN s = 1..Len(s)
  BY KeepIsKept, LenProperties
<1> HIDE DEF k
<1>2. ToSet(s) = {s[i] : i \in 1..Len(s)}
  BY <1>1 DEF ToSet
<1>3. (\A x : Once(k, x)) => Distinct(k)
  BY DEF Once, Distinct
<1>4. ToSet(k) = ToSet(s) \cap S /\ (Distinct(s) => \A x : Once(k, x))
  BY <1>1, <1>2 DEF Kept
<1> QED
  BY <1>1, <1>3, <1>4 DEF k

LEMMA KeepOrder ==
  ASSUME NEW X, NEW s \in Seq(X), NEW S, NEW i \in DOMAIN s, NEW j \in DOMAIN s,
         i < j, s[i] \in S, s[j] \in S
  PROVE  \E k, l \in DOMAIN Keep(s, S) : k < l /\ Keep(s, S)[k] = s[i] /\ Keep(s, S)[l] = s[j]
<1> DEFINE q == Keep(s, S)
<1>1. Kept(q, s, S, Len(s)) /\ DOMAIN s = 1..Len(s)
  BY KeepIsKept, LenProperties
<1> HIDE DEF q
<1>2. \E k, l \in DOMAIN q : k < l /\ q[k] = s[i] /\ q[l] = s[j]
  BY <1>1 DEF Kept
<1> QED
  BY <1>2 DEF q

-------------------------------------------------------------------------------
(* The elements of a queue, and the operations made of them.               *)

Ops == [op : {"schedule", "notify", "delete", "cancel", "postStop", "postStart"}, ctx : Contexts]
Tasks == [op : {"start", "stop"}, ctx : Contexts]

LEMMA OpFacts ==
  /\ \A a, b, c, d : Op(a, c) = Op(b, d) <=> a = b /\ c = d
  /\ \A c \in Contexts : /\ Op("schedule", c) \in Ops /\ Op("notify", c) \in Ops
                         /\ Op("delete", c) \in Ops /\ Op("cancel", c) \in Ops
                         /\ Op("postStop", c) \in Ops /\ Op("postStart", c) \in Ops
                         /\ Op("start", c) \in Tasks /\ Op("stop", c) \in Tasks
<1>1. ASSUME NEW a, NEW b, NEW c, NEW d, Op(a, c) = Op(b, d)
      PROVE  a = b /\ c = d
  <2>1. Op(a, c).op = Op(b, d).op /\ Op(a, c).ctx = Op(b, d).ctx
    BY <1>1
  <2> QED
    BY <2>1 DEF Op
<1> QED
  BY <1>1 DEF Op, Ops, Tasks

LEMMA OpsForFacts ==
  ASSUME NEW op \in {"cancel", "postStop", "postStart"}, NEW cs \in Seq(Contexts)
  PROVE  /\ OpsFor(op, cs) \in Seq(Ops)
         /\ ToSet(OpsFor(op, cs)) = {Op(op, c) : c \in ToSet(cs)}
         /\ \A c : Once(cs, c) => Once(OpsFor(op, cs), Op(op, c))
<1>1. Len(cs) \in Nat /\ DOMAIN cs = 1..Len(cs) /\ \A i \in 1..Len(cs) : cs[i] \in Contexts
  BY LenProperties, ElementOfSeq
<1>2. /\ DOMAIN OpsFor(op, cs) = DOMAIN cs
      /\ \A i \in DOMAIN cs : OpsFor(op, cs)[i] = Op(op, cs[i])
  BY DEF OpsFor
<1>3. OpsFor(op, cs) \in [1..Len(cs) -> Ops]
  BY <1>1, OpFacts DEF OpsFor
<1>4. OpsFor(op, cs) \in Seq(Ops)
  BY <1>1, <1>3
<1>5. ToSet(OpsFor(op, cs)) = {Op(op, c) : c \in ToSet(cs)}
  BY <1>2 DEF ToSet
<1>6. ASSUME NEW c, Once(cs, c)
      PROVE  Once(OpsFor(op, cs), Op(op, c))
  BY <1>2, <1>6, OpFacts DEF Once
<1> QED
  BY <1>4, <1>5, <1>6

-------------------------------------------------------------------------------
(* The admission round.                                                    *)

LEMMA PolicyFacts ==
  /\ \A x, y : Contends(x, y) <=> Contends(y, x)
  /\ \A x, y : Contends(x, y) => x \in Requests /\ y \in Requests
BY DEF Contends, BlockedBySudoPinContention, IsPrimaryContext

\* Everybody is judged against those in front: of two contending contexts that are
\* running after a round, one of which it admitted, one was displaced.
LEMMA AdmissionFacts ==
  ASSUME NEW fifo \in Seq(Contexts), NEW run, Distinct(fifo)
  PROVE  /\ Admitted(fifo, run) \subseteq ToSet(fifo)
         /\ Victims(fifo, run) \subseteq run \cup ToSet(fifo)
         /\ \A x \in run, y \in Admitted(fifo, run) :
              Contends(x, y) => x \in Victims(fifo, run)
         /\ \A i, j \in DOMAIN fifo :
              i < j /\ fifo[j] \in Admitted(fifo, run) /\ Contends(fifo[j], fifo[i])
                => fifo[i] \in Victims(fifo, run)
         /\ \A x, y \in Admitted(fifo, run) :
              x # y /\ Contends(x, y) => x \in Victims(fifo, run) \/ y \in Victims(fifo, run)
<1>1. Len(fifo) \in Nat /\ DOMAIN fifo = 1..Len(fifo)
  BY LenProperties
<1>2. Admitted(fifo, run) \subseteq ToSet(fifo)
  BY DEF Admitted, ToSet
<1>3. Victims(fifo, run) \subseteq run \cup ToSet(fifo)
  BY <1>1 DEF Victims, Predecessors, ToSet
<1>4. ASSUME NEW j \in DOMAIN fifo, fifo[j] \in Admitted(fifo, run),
             NEW m \in Predecessors(fifo, j, run), Contends(fifo[j], m)
      PROVE  m \in Victims(fifo, run)
  <2>1. CanStart(fifo[j], Visible(fifo, j, run))
    BY <1>4 DEF Admitted, Distinct
  <2>2. Displaces(fifo[j], m)
    BY <1>4, <2>1 DEF CanStart, Visible
  <2> QED
    BY <1>4, <2>2 DEF Victims
<1>5. ASSUME NEW x \in run, NEW y \in Admitted(fifo, run), Contends(x, y)
      PROVE  x \in Victims(fifo, run)
  <2>1. PICK j \in DOMAIN fifo : y = fifo[j]
    BY <1>2 DEF ToSet
  <2> QED
    BY <1>4, <1>5, <2>1, PolicyFacts DEF Predecessors
<1>6. ASSUME NEW i \in DOMAIN fifo, NEW j \in DOMAIN fifo, i < j,
             fifo[j] \in Admitted(fifo, run), Contends(fifo[j], fifo[i])
      PROVE  fifo[i] \in Victims(fifo, run)
  <2>1. i \in 1..(j - 1)
    BY <1>1, <1>6
  <2>2. fifo[i] \in Predecessors(fifo, j, run)
    BY <2>1 DEF Predecessors
  <2> QED
    BY <1>4, <1>6, <2>2
<1>7. ASSUME NEW x \in Admitted(fifo, run), NEW y \in Admitted(fifo, run), x # y, Contends(x, y)
      PROVE  x \in Victims(fifo, run) \/ y \in Victims(fifo, run)
  <2>1. PICK i \in DOMAIN fifo : x = fifo[i]
    BY <1>2 DEF ToSet
  <2>2. PICK j \in DOMAIN fifo : y = fifo[j]
    BY <1>2 DEF ToSet
  <2>3. i < j \/ j < i
    BY <1>1, <1>7, <2>1, <2>2
  <2> QED
    BY <1>6, <1>7, <2>1, <2>2, <2>3, PolicyFacts
<1> QED
  BY <1>2, <1>3, <1>5, <1>6, <1>7

\* A plan stops the displaced contexts and then starts the admitted ones, once each.
LEMMA PlanFacts ==
  ASSUME NEW fifo \in Seq(Contexts), Distinct(fifo),
         NEW run, run \subseteq Contexts, IsFiniteSet(run),
         NEW plan \in Plans(fifo, run)
  PROVE  /\ plan \in Seq(Ops)
         /\ ToSet(plan) = {Op("postStop", c) : c \in Victims(fifo, run)}
                            \cup {Op("postStart", c) : c \in Admitted(fifo, run)}
         /\ \A c : Once(plan, Op("postStart", c))
         /\ \A v \in Victims(fifo, run) : \A c : Before(plan, Op("postStop", v), Op("postStart", c))
<1> DEFINE V == Victims(fifo, run)
           A == Admitted(fifo, run)
           starts == OpsFor("postStart", Keep(fifo, A))
<1>1. PICK order \in SetToSeqs(V) : plan = OpsFor("postStop", order) \o starts
  BY DEF Plans
<1>2. A \subseteq ToSet(fifo) /\ V \subseteq run \cup ToSet(fifo)
  BY AdmissionFacts
<1>3. IsFiniteSet(ToSet(fifo)) /\ ToSet(fifo) \subseteq Contexts
  BY ToSetFinite
<1>4. IsFiniteSet(run \cup ToSet(fifo))
  BY <1>3, FS_Union
<1>5. IsFiniteSet(V) /\ V \subseteq Contexts
  BY <1>2, <1>3, <1>4, FS_Subset
<1> HIDE DEF V, A
<1>6. order \in Seq(Contexts) /\ ToSet(order) = V
  <2>1. order \in Seq(V) /\ ToSet(order) = V
    BY <1>5, SetToSeqsFacts
  <2> QED
    BY <1>5, <2>1
<1>7. Keep(fifo, A) \in Seq(Contexts) /\ ToSet(Keep(fifo, A)) = A /\ \A c : Once(Keep(fifo, A), c)
  <2>1. /\ Keep(fifo, A) \in Seq(Contexts)
        /\ ToSet(Keep(fifo, A)) = ToSet(fifo) \cap A
        /\ Distinct(fifo) => \A c : Once(Keep(fifo, A), c)
    BY KeepFacts
  <2> QED
    BY <1>2, <2>1
<1>8. /\ OpsFor("postStop", order) \in Seq(Ops)
      /\ ToSet(OpsFor("postStop", order)) = {Op("postStop", c) : c \in V}
  BY <1>6, OpsForFacts
<1>9. /\ starts \in Seq(Ops)
      /\ ToSet(starts) = {Op("postStart", c) : c \in A}
      /\ \A c : Once(starts, Op("postStart", c))
  BY <1>7, OpsForFacts
<1>10. \A c : Op("postStart", c) \notin ToSet(OpsFor("postStop", order))
  BY <1>8, OpFacts
<1> DEFINE stops == OpsFor("postStop", order)
<1> HIDE DEF stops, starts
<1>11. /\ plan \in Seq(Ops)
       /\ ToSet(plan) = {Op("postStop", c) : c \in V} \cup {Op("postStart", c) : c \in A}
  <2>1. /\ stops \o starts \in Seq(Ops)
        /\ ToSet(stops \o starts) = ToSet(stops) \cup ToSet(starts)
    BY <1>8, <1>9, ConcatFacts DEF stops
  <2> QED
    BY <1>1, <1>8, <1>9, <2>1 DEF stops
<1>12. ASSUME NEW c
       PROVE  Once(plan, Op("postStart", c))
  <2>1. Once(stops, Op("postStart", c))
    BY <1>10, AbsentFacts DEF stops
  <2> QED
    BY <1>1, <1>8, <1>9, <1>10, <2>1, ConcatFacts DEF stops
<1>13. ASSUME NEW v \in V, NEW c
       PROVE  Before(plan, Op("postStop", v), Op("postStart", c))
  <2>1. Before(stops, Op("postStop", v), Op("postStart", c))
    BY <1>10, AbsentFacts DEF stops
  <2>2. Op("postStop", v) \in ToSet(stops)
    BY <1>8 DEF stops
  <2> QED
    BY <1>1, <1>8, <1>9, <2>1, <2>2, ConcatFacts DEF stops
<1> QED
  BY <1>11, <1>12, <1>13 DEF V, A

-------------------------------------------------------------------------------
(* The inductive invariant.                                                *)

\* A type invariant of the pool, its threads and its contexts.
TypeOK ==
  /\ clock \in Nat
  /\ createTime \in [Contexts -> Nat]
  /\ waitingFifo \in Seq(Contexts)
  /\ running \subseteq Contexts /\ IsFiniteSet(running)
  /\ cancelRequested \subseteq Contexts
  /\ tasks \in Seq(Tasks)
  /\ todo \in [Threads -> Seq(Ops)]
  /\ phase \in [Contexts -> {"none", "new", "run", "done", "end"}]
  /\ told \subseteq Contexts
  /\ dialog \subseteq Contexts
  /\ cancelCalls \in 0..MaxCancels
  /\ cancelled \in [Contexts -> {"never", "unpooled", "unstarted", "started"}]
  /\ answers \in [Contexts -> Seq(Codes)]

\* Thread t still has to do op for c.
Due(t, op, c) == Op(op, c) \in ToSet(todo[t])

\* The start of c is posted, or some thread is about to post it.
StartDue(c) == Op("start", c) \in ToSet(tasks) \/ \E t \in Threads : Due(t, "postStart", c)

\* The queue holds a context once, and none that is running.
QueueInv == Distinct(waitingFifo) /\ ToSet(waitingFifo) \cap running = {}

\* A waiter has not started, a started context is among the running ones, and a
\* context is deleted after its end.
PhaseInv ==
  \A c \in Contexts :
    /\ c \in Pooled => phase[c] # "none"
    /\ c \in ToSet(waitingFifo) => phase[c] \in {"new", "end"}
    /\ phase[c] \in {"run", "done"} => c \in running
    /\ \A t \in Threads : Due(t, "delete", c) => phase[c] = "end"

\* The thread that constructs a context schedules it, once.
Home(c) == IF c \in Requests THEN c ELSE EventThread
ScheduleInv ==
  \A c \in Contexts, t \in Threads :
    /\ Due(t, "schedule", c) =>
         t = Home(c) /\ phase[c] = "new" /\ c \notin Pooled /\ ~StartDue(c)
    /\ Once(todo[t], Op("schedule", c))

\* A context is admitted once and started once.
StartInv ==
  \A c \in Contexts :
    /\ StartDue(c) => c \notin ToSet(waitingFifo) /\ phase[c] \in {"new", "end"}
    /\ Once(tasks, Op("start", c))
    /\ \A t \in Threads :
         /\ Once(todo[t], Op("postStart", c))
         /\ Due(t, "postStart", c) =>
              /\ Op("start", c) \notin ToSet(tasks)
              /\ \A u \in Threads : Due(u, "postStart", c) => u = t

\* The mark of a cancellation outlives the cancelled context's chance to start.
CancelInv ==
  \A c \in Contexts :
    cancelled[c] = "unstarted" =>
      phase[c] = "end" \/ (phase[c] = "new" /\ c \in Pooled /\ c \in cancelRequested)

\* A sudo has a child once it has started, and one at most.
FamilyInv ==
  \A s \in Sudos :
    /\ phase[s] \in {"none", "new"} => \A c \in ChildrenOf(s) : phase[c] = "none"
    /\ \E c \in ChildrenOf(s) : phase[c] = "none"
    /\ \A c \in ChildrenOf(s) : phase[c] \in {"new", "run"} => phase[s] = "run"

\* A context answers when it leaves the phases before its result.
AnswerInv ==
  \A c \in Contexts : phase[c] \in {"none", "new", "run"} => answers[c] = <<>>

\* Of two contending requests in the pool one is stopped, or will be before the
\* other can start.
Settled(x) == phase[x] \in {"done", "end"} \/ x \in told
Ahead(x, y) ==
  /\ phase[y] = "new"
  /\ Before(tasks, Op("stop", x), Op("start", y))
  /\ \A t \in Threads :
       Due(t, "postStart", y) =>
         Op("stop", x) \in ToSet(tasks) \/ Before(todo[t], Op("postStop", x), Op("postStart", y))
SlotInv ==
  \A x, y \in Requests \cap running :
    x # y /\ Contends(x, y) => Settled(x) \/ Settled(y) \/ Ahead(x, y) \/ Ahead(y, x)

IInv ==
  /\ TypeOK /\ QueueInv /\ PhaseInv /\ ScheduleInv /\ StartInv
  /\ CancelInv /\ FamilyInv /\ AnswerInv /\ SlotInv

-------------------------------------------------------------------------------
(* The steps outside the admission round.                                  *)

LEMMA ContextFacts ==
  /\ Requests \subseteq Contexts /\ Children \subseteq Contexts /\ Sudos \subseteq Requests
  /\ EventThread \in Threads /\ TimerThread \in Threads /\ Requests \subseteq Threads
  /\ \A c \in Contexts : Home(c) \in Threads /\ (Kind(c) = "sudo" <=> c \in Sudos)
  /\ \A c \in Children : Parent(c) \in Sudos /\ c \in ChildrenOf(Parent(c)) /\ c \notin Requests
  /\ \A s \in Sudos : /\ ChildrenOf(s) \subseteq Children
                      /\ \A c \in ChildrenOf(s) : Parent(c) = s /\ c # s
                      /\ <<s, "silent">> # <<s, "dialog">>
<1>1. \A c \in Children : \E s \in Sudos : c = <<s, "silent">> \/ c = <<s, "dialog">>
  BY DEF Children
<1>2. \A s \in Sudos : <<s, "silent">> \in Children /\ <<s, "dialog">> \in Children
  BY DEF Children
<1>3. Children \cap Requests = {} /\ Sudos \subseteq Requests
  BY PoolAssumption DEF Sudos
<1>4. \A c \in Requests : Kind(c) = "sudo" <=> c \in Sudos
  BY DEF Kind, Sudos
<1>5. \A c \in Children : Kind(c) # "sudo"
  BY <1>3 DEF Kind
<1> QED
  BY <1>1, <1>2, <1>3, <1>4, <1>5 DEF Contexts, Threads, Home, Parent, ChildrenOf

\* How the phase of c may move.
PhaseMoves(c) ==
  \/ phase'[c] = phase[c]
  \/ phase[c] = "none" /\ phase'[c] = "new"
  \/ /\ phase[c] = "new" /\ phase'[c] = "run"
     /\ c \in running
     /\ tasks # <<>> /\ Head(tasks) = Op("start", c) /\ tasks' = Tail(tasks)
  \/ phase[c] = "run" /\ phase'[c] = "done"
  \/ phase[c] = "done" /\ phase'[c] = "end"
  \/ /\ phase[c] \in {"new", "run"} /\ phase'[c] = "end"
     /\ \A u \in Threads : ~Due(u, "schedule", c)'

\* Thread u is given no start to post, and a context to schedule only when it is new.
TodoMoves(u) ==
  \A c \in Contexts :
    /\ Due(u, "postStart", c)' => Due(u, "postStart", c)
    /\ Due(u, "schedule", c)' =>
         \/ Due(u, "schedule", c)
         \/ u = Home(c) /\ phase[c] = "none" /\ phase'[c] = "new"
    /\ Due(u, "delete", c)' => Due(u, "delete", c) \/ phase'[c] = "end"
    /\ Once(todo[u], Op("postStart", c)) => Once(todo'[u], Op("postStart", c))
    /\ Once(todo[u], Op("schedule", c)) => Once(todo'[u], Op("schedule", c))
    /\ \A x : Before(todo[u], Op("postStop", x), Op("postStart", c))
                => Before(todo'[u], Op("postStop", x), Op("postStart", c))

\* The event thread takes at most one task, and a stop has its effect.
TasksMove ==
  \/ tasks' = tasks
  \/ /\ tasks # <<>> /\ tasks' = Tail(tasks)
     /\ \A x \in running : Head(tasks) = Op("stop", x) => Settled(x)'

Moves ==
  /\ UNCHANGED <<waitingFifo, running>>
  /\ told \subseteq told'
  /\ \A c \in Contexts : PhaseMoves(c)
  /\ \A u \in Threads : TodoMoves(u)
  /\ TasksMove

LEMMA MovesKeepPhases ==
  ASSUME IInv, Moves
  PROVE  QueueInv' /\ PhaseInv'
<1>1. QueueInv'
  BY DEF IInv, QueueInv, Moves
<1>2. ASSUME NEW c \in Contexts
      PROVE  /\ (c \in Pooled => phase[c] # "none")'
             /\ (c \in ToSet(waitingFifo) => phase[c] \in {"new", "end"})'
             /\ (phase[c] \in {"run", "done"} => c \in running)'
             /\ \A t \in Threads : (Due(t, "delete", c) => phase[c] = "end")'
  <2>1. PhaseMoves(c) /\ UNCHANGED <<waitingFifo, running, Pooled>>
    BY DEF Moves, Pooled
  <2>2. /\ c \in Pooled => phase[c] # "none"
        /\ c \in ToSet(waitingFifo) => phase[c] \in {"new", "end"} /\ c \notin running
        /\ phase[c] \in {"run", "done"} => c \in running
        /\ \A t \in Threads : Due(t, "delete", c) => phase[c] = "end"
    BY DEF IInv, PhaseInv, QueueInv
  <2>3. \A t \in Threads : Due(t, "delete", c)' => Due(t, "delete", c) \/ phase'[c] = "end"
    BY DEF Moves, TodoMoves
  <2> QED
    BY <2>1, <2>2, <2>3 DEF PhaseMoves
<1> QED
  BY <1>1, <1>2 DEF PhaseInv

\* What is left of the event thread's queue after a step.
LEMMA MovesTakeOne ==
  ASSUME IInv, Moves
  PROVE  /\ ToSet(tasks') \subseteq ToSet(tasks)
         /\ \A c \in Contexts :
              /\ Once(tasks', Op("start", c))
              /\ StartDue(c)' => StartDue(c)
<1>1. tasks \in Seq(Tasks) /\ \A c \in Contexts : Once(tasks, Op("start", c))
  BY DEF IInv, TypeOK, StartInv
<1>2. ToSet(tasks') \subseteq ToSet(tasks) /\ \A c \in Contexts : Once(tasks', Op("start", c))
  <2>1. tasks # <<>> => /\ ToSet(Tail(tasks)) \subseteq ToSet(tasks)
                        /\ \A x : Once(tasks, x) => Once(Tail(tasks), x)
    BY <1>1, TailFacts
  <2> QED
    BY <1>1, <2>1 DEF Moves, TasksMove
<1> QED
  BY <1>2 DEF Moves, TodoMoves, StartDue

LEMMA MovesKeepStarts ==
  ASSUME IInv, Moves
  PROVE  ScheduleInv' /\ StartInv'
<1>1. /\ ToSet(tasks') \subseteq ToSet(tasks)
      /\ \A c \in Contexts : Once(tasks', Op("start", c)) /\ (StartDue(c)' => StartDue(c))
  BY MovesTakeOne
<1>2. Pooled' = Pooled /\ waitingFifo' = waitingFifo
  BY DEF Moves, Pooled
<1>3. ASSUME NEW c \in Contexts, NEW t \in Threads
      PROVE  /\ Due(t, "schedule", c)' =>
                  t = Home(c) /\ phase'[c] = "new" /\ c \notin Pooled' /\ ~StartDue(c)'
             /\ Once(todo'[t], Op("schedule", c))
  <2>1. PhaseMoves(c) /\ TodoMoves(t)
    BY DEF Moves
  <2>2. /\ Due(t, "schedule", c) => t = Home(c) /\ phase[c] = "new" /\ c \notin Pooled /\ ~StartDue(c)
        /\ Once(todo[t], Op("schedule", c))
        /\ StartDue(c) => phase[c] \in {"new", "end"}
        /\ c \in Pooled => phase[c] # "none"
    BY DEF IInv, ScheduleInv, StartInv, PhaseInv
  <2>3. Once(todo'[t], Op("schedule", c))
    BY <2>1, <2>2 DEF TodoMoves
  <2>4. ASSUME Due(t, "schedule", c)'
        PROVE  t = Home(c) /\ phase'[c] = "new" /\ c \notin Pooled' /\ ~StartDue(c)'
    <3>1. \/ Due(t, "schedule", c)
          \/ t = Home(c) /\ phase[c] = "none" /\ phase'[c] = "new"
      BY <2>1, <2>4 DEF TodoMoves
    <3>2. CASE Due(t, "schedule", c)
      <4>1. Head(tasks) = Op("start", c) /\ tasks # <<>> => StartDue(c)
        <5>1. tasks \in Seq(Tasks)
          BY DEF IInv, TypeOK
        <5> QED
          BY <5>1, TailFacts DEF StartDue
      <4> QED
        BY <1>1, <1>2, <2>1, <2>2, <2>4, <3>2, <4>1 DEF PhaseMoves
    <3>3. CASE t = Home(c) /\ phase[c] = "none" /\ phase'[c] = "new"
      BY <1>1, <1>2, <2>2, <3>3
    <3> QED
      BY <3>1, <3>2, <3>3
  <2> QED
    BY <2>3, <2>4
<1>4. ASSUME NEW c \in Contexts
      PROVE  /\ StartDue(c)' => c \notin ToSet(waitingFifo') /\ phase'[c] \in {"new", "end"}
             /\ Once(tasks', Op("start", c))
             /\ \A t \in Threads :
                  /\ Once(todo'[t], Op("postStart", c))
                  /\ Due(t, "postStart", c)' =>
                       /\ Op("start", c) \notin ToSet(tasks')
                       /\ \A u \in Threads : Due(u, "postStart", c)' => u = t
  <2>1. /\ StartDue(c) => c \notin ToSet(waitingFifo) /\ phase[c] \in {"new", "end"}
        /\ Once(tasks, Op("start", c))
        /\ \A t \in Threads :
             /\ Once(todo[t], Op("postStart", c))
             /\ Due(t, "postStart", c) =>
                  /\ Op("start", c) \notin ToSet(tasks)
                  /\ \A u \in Threads : Due(u, "postStart", c) => u = t
    BY DEF IInv, StartInv
  <2>2. PhaseMoves(c) /\ \A t \in Threads : TodoMoves(t)
    BY DEF Moves
  <2>3. ASSUME NEW t \in Threads
        PROVE  /\ Once(todo'[t], Op("postStart", c))
               /\ Due(t, "postStart", c)' => Due(t, "postStart", c)
    BY <2>1, <2>2 DEF TodoMoves
  <2>4. ASSUME tasks # <<>>, Head(tasks) = Op("start", c), tasks' = Tail(tasks)
        PROVE  ~StartDue(c)'
    <3>1. tasks \in Seq(Tasks)
      BY DEF IInv, TypeOK
    <3>2. Op("start", c) \in ToSet(tasks) /\ Op("start", c) \notin ToSet(tasks')
      BY <2>1, <2>4, <3>1, TailFacts
    <3> QED
      BY <2>1, <2>3, <3>2 DEF StartDue
  <2>5. StartDue(c)' => phase'[c] \in {"new", "end"}
    BY <1>1, <2>1, <2>2, <2>4 DEF PhaseMoves
  <2> QED
    BY <1>1, <1>2, <2>1, <2>3, <2>5
<1>5. ScheduleInv'
  BY <1>3 DEF ScheduleInv
<1>6. StartInv'
  BY <1>4 DEF StartInv
<1> QED
  BY <1>5, <1>6

LEMMA MovesKeepSlot ==
  ASSUME IInv, Moves
  PROVE  SlotInv'
<1> SUFFICES ASSUME NEW x \in Requests \cap running, NEW y \in Requests \cap running,
                    x # y, Contends(x, y)
             PROVE  Settled(x)' \/ Settled(y)' \/ Ahead(x, y)' \/ Ahead(y, x)'
  BY DEF SlotInv, Moves
<1>1. tasks \in Seq(Tasks) /\ TasksMove /\ \A u \in Threads : TodoMoves(u)
  BY DEF IInv, TypeOK, Moves
<1>2. ASSUME NEW z \in Requests \cap running, Settled(z)
      PROVE  Settled(z)'
  <2>1. PhaseMoves(z) /\ told \subseteq told'
    BY ContextFacts DEF Moves
  <2> QED
    BY <1>2, <2>1 DEF Settled, PhaseMoves
<1>3. ASSUME NEW a \in Requests \cap running, NEW b \in Requests \cap running, Ahead(a, b),
             ~Settled(a)', ~Settled(b)'
      PROVE  Ahead(a, b)'
  <2>1. tasks' = tasks \/ (tasks # <<>> /\ tasks' = Tail(tasks) /\ Head(tasks) # Op("stop", a))
    BY <1>1, <1>3 DEF TasksMove
  <2>2. /\ Before(tasks', Op("stop", a), Op("start", b))
        /\ Op("stop", a) \in ToSet(tasks) => Op("stop", a) \in ToSet(tasks')
        /\ tasks # <<>> /\ tasks' = Tail(tasks) /\ tasks' # tasks => Head(tasks) # Op("start", b)
    <3>1. tasks # <<>> =>
            /\ ToSet(tasks) = {Head(tasks)} \cup ToSet(Tail(tasks))
            /\ Before(tasks, Op("stop", a), Op("start", b)) =>
                 (Op("stop", a) # Head(tasks) =>
                    Before(Tail(tasks), Op("stop", a), Op("start", b)) /\ Op("start", b) # Head(tasks))
      BY <1>1, TailFacts
    <3>2. Before(tasks, Op("stop", a), Op("start", b))
      BY <1>3 DEF Ahead
    <3> QED
      BY <2>1, <3>1, <3>2
  <2>3. phase'[b] = "new"
    <3>1. PhaseMoves(b) /\ phase[b] = "new"
      BY <1>3, ContextFacts DEF Moves, Ahead
    <3>2. tasks # <<>> => Tail(tasks) # tasks
      BY <1>1, HeadTailProperties
    <3> QED
      BY <1>3, <2>2, <3>1, <3>2 DEF PhaseMoves, Settled
  <2>4. ASSUME NEW t \in Threads, Due(t, "postStart", b)'
        PROVE  \/ Op("stop", a) \in ToSet(tasks')
               \/ Before(todo'[t], Op("postStop", a), Op("postStart", b))
    BY <1>1, <1>3, <2>2, <2>4, ContextFacts DEF Ahead, TodoMoves
  <2> QED
    BY <2>2, <2>3, <2>4 DEF Ahead
<1>4. Settled(x) \/ Settled(y) \/ Ahead(x, y) \/ Ahead(y, x)
  BY DEF IInv, SlotInv
<1> QED
  BY <1>2, <1>3, <1>4

\* A thread is given a new list of things to do, without a start among them.
LEMMA Overwritten ==
  ASSUME TypeOK, NEW t \in Threads, NEW q \in Seq(Ops), todo' = [todo EXCEPT ![t] = q],
         \A c \in Contexts :
           /\ Op("postStart", c) \notin ToSet(q)
           /\ Op("schedule", c) \in ToSet(q) => t = Home(c) /\ phase[c] = "none" /\ phase'[c] = "new"
           /\ Op("delete", c) \in ToSet(q) => phase'[c] = "end"
           /\ Once(q, Op("schedule", c))
  PROVE  todo' \in [Threads -> Seq(Ops)] /\ \A u \in Threads : TodoMoves(u)
<1>1. todo' \in [Threads -> Seq(Ops)] /\ \A u \in Threads : todo'[u] = IF u = t THEN q ELSE todo[u]
  BY DEF TypeOK
<1>2. TodoMoves(t)
  <2> SUFFICES ASSUME NEW c \in Contexts
               PROVE  /\ Due(t, "postStart", c)' => Due(t, "postStart", c)
                      /\ Due(t, "schedule", c)' =>
                           \/ Due(t, "schedule", c)
                           \/ t = Home(c) /\ phase[c] = "none" /\ phase'[c] = "new"
                      /\ Due(t, "delete", c)' => Due(t, "delete", c) \/ phase'[c] = "end"
                      /\ Once(todo'[t], Op("postStart", c))
                      /\ Once(todo'[t], Op("schedule", c))
                      /\ \A x : Before(todo'[t], Op("postStop", x), Op("postStart", c))
    BY DEF TodoMoves
  <2>1. Once(q, Op("postStart", c)) /\ \A x : Before(q, Op("postStop", x), Op("postStart", c))
    BY AbsentFacts
  <2> QED
    BY <1>1, <2>1 DEF Due
<1>3. ASSUME NEW u \in Threads, u # t
      PROVE  TodoMoves(u)
  BY <1>1, <1>3 DEF TodoMoves, Due
<1> QED
  BY <1>1, <1>2, <1>3

\* A thread has done the first thing of its list, which was not to post a stop.
LEMMA HeadReplaced ==
  ASSUME TypeOK, NEW t \in Threads, NEW q \in Seq(Ops), todo' = [todo EXCEPT ![t] = q \o Tail(@)],
         todo[t] # <<>>,
         \A c : Head(todo[t]) # Op("postStop", c),
         \A c \in Contexts :
           /\ Op("postStart", c) \notin ToSet(q)
           /\ Op("schedule", c) \notin ToSet(q)
           /\ Op("delete", c) \in ToSet(q) => phase'[c] = "end"
  PROVE  todo' \in [Threads -> Seq(Ops)] /\ \A u \in Threads : TodoMoves(u)
<1> DEFINE s == todo[t]
           r == q \o Tail(s)
<1>1. s \in Seq(Ops) /\ s # <<>>
  BY DEF TypeOK
<1>2. todo' = [todo EXCEPT ![t] = r]
  OBVIOUS
<1> HIDE DEF s
<1>3. /\ Tail(s) \in Seq(Ops)
      /\ ToSet(s) = {Head(s)} \cup ToSet(Tail(s))
      /\ \A x : Once(s, x) => Once(Tail(s), x)
      /\ \A a, b : Before(s, a, b) => (a # Head(s) => Before(Tail(s), a, b))
  BY <1>1, TailFacts
<1>4. /\ r \in Seq(Ops)
      /\ ToSet(r) = ToSet(q) \cup ToSet(Tail(s))
      /\ \A x : Once(q, x) /\ Once(Tail(s), x) /\ ~(x \in ToSet(q) /\ x \in ToSet(Tail(s))) => Once(r, x)
      /\ \A a, b : Before(q, a, b) /\ Before(Tail(s), a, b) => Before(r, a, b)
  BY <1>3, ConcatFacts
<1> HIDE DEF r
<1>5. todo' \in [Threads -> Seq(Ops)] /\ \A u \in Threads : todo'[u] = IF u = t THEN r ELSE todo[u]
  BY <1>2, <1>4 DEF TypeOK
<1>6. ASSUME NEW u \in Threads, u # t
      PROVE  TodoMoves(u)
  BY <1>5, <1>6 DEF TodoMoves, Due
<1>7. TodoMoves(t)
  <2> SUFFICES ASSUME NEW c \in Contexts
               PROVE  /\ Due(t, "postStart", c)' => Due(t, "postStart", c)
                      /\ Due(t, "schedule", c)' => Due(t, "schedule", c)
                      /\ Due(t, "delete", c)' => Due(t, "delete", c) \/ phase'[c] = "end"
                      /\ Once(todo[t], Op("postStart", c)) => Once(todo'[t], Op("postStart", c))
                      /\ Once(todo[t], Op("schedule", c)) => Once(todo'[t], Op("schedule", c))
                      /\ \A x : Before(todo[t], Op("postStop", x), Op("postStart", c))
                                  => Before(todo'[t], Op("postStop", x), Op("postStart", c))
    BY DEF TodoMoves
  <2>1. /\ Once(q, Op("postStart", c)) /\ Once(q, Op("schedule", c))
        /\ \A x : Before(q, Op("postStop", x), Op("postStart", c))
    BY AbsentFacts
  <2>2. todo'[t] = r /\ todo[t] = s
    BY <1>5 DEF s
  <2>3. \A x : Head(s) # Op("postStop", x)
    BY DEF s
  <2>4. /\ Due(t, "postStart", c)' => Due(t, "postStart", c)
        /\ Due(t, "schedule", c)' => Due(t, "schedule", c)
        /\ Due(t, "delete", c)' => Due(t, "delete", c) \/ phase'[c] = "end"
    BY <1>3, <1>4, <2>2 DEF Due
  <2>5. /\ Once(s, Op("postStart", c)) => Once(r, Op("postStart", c))
        /\ Once(s, Op("schedule", c)) => Once(r, Op("schedule", c))
        /\ \A x : Before(s, Op("postStop", x), Op("postStart", c))
                    => Before(r, Op("postStop", x), Op("postStart", c))
    BY <1>3, <1>4, <2>1, <2>3
  <2> QED
    BY <2>2, <2>4, <2>5
<1> QED
  BY <1>5, <1>6, <1>7

LEMMA CancelKept ==
  ASSUME IInv, Moves, cancelled' = cancelled,
         \A c \in cancelRequested \ cancelRequested' :
           c \notin Pooled \/ phase[c] # "new" \/ phase'[c] = "end",
         \A c \in Contexts : phase[c] = "new" /\ phase'[c] = "run" => c \notin cancelRequested
  PROVE  CancelInv'
<1> SUFFICES ASSUME NEW c \in Contexts, cancelled[c] = "unstarted"
             PROVE  \/ phase'[c] = "end"
                    \/ phase'[c] = "new" /\ c \in Pooled' /\ c \in cancelRequested'
  BY DEF CancelInv
<1>1. phase[c] = "end" \/ (phase[c] = "new" /\ c \in Pooled /\ c \in cancelRequested)
  BY DEF IInv, CancelInv
<1>2. PhaseMoves(c) /\ Pooled' = Pooled
  BY DEF Moves, Pooled
<1> QED
  BY <1>1, <1>2 DEF PhaseMoves

\* The parts of the invariant that hold after any step that moves as above.
LEMMA MovesKeep ==
  ASSUME IInv, Moves
  PROVE  QueueInv' /\ PhaseInv' /\ ScheduleInv' /\ StartInv' /\ SlotInv'
BY MovesKeepPhases, MovesKeepStarts, MovesKeepSlot

\* A context reports its result.
LEMMA ReportMoves ==
  ASSUME IInv, NEW t \in Threads, NEW c \in Contexts, NEW code \in Codes, NEW next \in {"done", "end"},
         Report(t, c, code, next),
         phase[c] = "run" \/ (phase[c] = "new" /\ next = "end"),
         c \in Sudos => phase[c] = "new",
         \A u \in Threads : ~Due(u, "schedule", c)
  PROVE  /\ phase' \in [Contexts -> {"none", "new", "run", "done", "end"}]
         /\ answers' \in [Contexts -> Seq(Codes)]
         /\ dialog' \subseteq Contexts
         /\ todo' \in [Threads -> Seq(Ops)]
         /\ phase'[c] = next
         /\ \A d \in Contexts : PhaseMoves(d) /\ (phase'[d] # phase[d] => phase'[d] \in {"done", "end"})
         /\ \A u \in Threads : TodoMoves(u)
         /\ FamilyInv' /\ AnswerInv'
<1> DEFINE s == Parent(c)
           bye == IF next = "end" THEN <<Op("delete", c)>> ELSE <<>>
<1>1. /\ TypeOK /\ PhaseInv /\ ScheduleInv /\ FamilyInv /\ AnswerInv
      /\ phase \in [Contexts -> {"none", "new", "run", "done", "end"}]
      /\ answers \in [Contexts -> Seq(Codes)] /\ dialog \subseteq Contexts
  BY DEF IInv, TypeOK
<1>2. bye \in Seq(Ops) /\ ToSet(bye) = IF next = "end" THEN {Op("delete", c)} ELSE {}
  BY OpFacts, SingleFacts, EmptyFacts
<1>3. CASE c \in Children
  <2>1. s \in Sudos /\ s \in Contexts /\ c \in ChildrenOf(s) /\ c # s
    BY <1>3, ContextFacts
  <2>2. phase[s] = "run"
    BY <1>1, <2>1 DEF FamilyInv
  <2>3. /\ answers' = [answers EXCEPT ![c] = Append(@, code), ![s] = Append(@, SudoCode(s, code))]
        /\ phase' = [phase EXCEPT ![c] = next, ![s] = "end"]
        /\ dialog' = dialog \ {s}
        /\ todo' = [todo EXCEPT ![t] = <<Op("delete", s)>> \o bye]
    BY <1>3, <2>2 DEF Report
  <2>4. SudoCode(s, code) \in Codes
    BY DEF SudoCode, Codes
  <2>5. /\ phase' \in [Contexts -> {"none", "new", "run", "done", "end"}]
        /\ \A d \in Contexts : phase'[d] = IF d = s THEN "end" ELSE IF d = c THEN next ELSE phase[d]
        /\ \A d \in Contexts \ {c, s} : answers'[d] = answers[d]
    BY <1>1, <2>1, <2>3
  <2>6. answers' \in [Contexts -> Seq(Codes)]
    <3>1. \A d \in Contexts : answers[d] \in Seq(Codes)
      BY <1>1
    <3>2. Append(answers[c], code) \in Seq(Codes) /\ Append(answers[s], SudoCode(s, code)) \in Seq(Codes)
      BY <2>1, <2>4, <3>1, AppendProperties
    <3>3. answers' = [answers EXCEPT ![c] = Append(answers[c], code),
                                     ![s] = Append(answers[s], SudoCode(s, code))]
      BY <2>1, <2>3
    <3> HIDE DEF s
    <3> QED
      BY <1>1, <2>1, <3>2, <3>3
  <2> DEFINE q == <<Op("delete", s)>> \o bye
  <2>7. /\ <<Op("delete", s)>> \in Seq(Ops) /\ ToSet(<<Op("delete", s)>>) = {Op("delete", s)}
    BY <2>1, OpFacts, SingleFacts
  <2> HIDE DEF bye
  <2>8. q \in Seq(Ops) /\ ToSet(q) = {Op("delete", s)} \cup ToSet(bye)
    <3> DEFINE p == <<Op("delete", s)>>
    <3> HIDE DEF p
    <3>1. p \in Seq(Ops) /\ ToSet(p) = {Op("delete", s)} /\ bye \in Seq(Ops)
      BY <1>2, <2>7 DEF p
    <3>2. p \o bye \in Seq(Ops) /\ ToSet(p \o bye) = ToSet(p) \cup ToSet(bye)
      BY <3>1, ConcatFacts
    <3> QED
      BY <3>1, <3>2 DEF p
  <2> HIDE DEF q
  <2>9. \A d \in Contexts :
           /\ Op("postStart", d) \notin ToSet(q)
           /\ Op("schedule", d) \notin ToSet(q)
           /\ Op("delete", d) \in ToSet(q) => phase'[d] = "end"
    BY <1>2, <2>1, <2>5, <2>8, OpFacts
  <2>10. \A d \in Contexts : Once(q, Op("schedule", d))
    BY <2>9, AbsentFacts
  <2>11. todo' \in [Threads -> Seq(Ops)] /\ \A u \in Threads : TodoMoves(u)
    BY <1>1, <2>3, <2>8, <2>9, <2>10, Overwritten DEF q
  <2>12. \A u \in Threads, d \in Contexts : Due(u, "schedule", d)' => phase[d] \in {"none", "new"} /\ d # c
    BY <1>1, <2>11 DEF TodoMoves, ScheduleInv
  <2>13. ASSUME NEW d \in Contexts
         PROVE  PhaseMoves(d) /\ (phase'[d] # phase[d] => phase'[d] \in {"done", "end"})
    BY <2>2, <2>5, <2>12 DEF PhaseMoves
  <2>14. FamilyInv'
    <3> SUFFICES ASSUME NEW r \in Sudos
                 PROVE  /\ phase'[r] \in {"none", "new"} => \A d \in ChildrenOf(r) : phase'[d] = "none"
                        /\ \E d \in ChildrenOf(r) : phase'[d] = "none"
                        /\ \A d \in ChildrenOf(r) : phase'[d] \in {"new", "run"} => phase'[r] = "run"
      BY DEF FamilyInv
    <3>1. /\ phase[r] \in {"none", "new"} => \A d \in ChildrenOf(r) : phase[d] = "none"
          /\ \E d \in ChildrenOf(r) : phase[d] = "none"
          /\ \A d \in ChildrenOf(r) : phase[d] \in {"new", "run"} => phase[r] = "run"
          /\ \A d \in ChildrenOf(r) : d \in Contexts /\ d # s /\ Parent(d) = r
          /\ r \in Contexts /\ r # c
      BY <1>1, <1>3, <2>1, ContextFacts DEF FamilyInv
    <3>2. CASE r = s
      <4>1. \A d \in ChildrenOf(s) : d = c \/ phase[d] = "none"
        BY <2>1, <3>1, <3>2 DEF ChildrenOf
      <4> QED
        BY <2>5, <3>1, <3>2, <4>1
    <3>3. CASE r # s
      BY <2>5, <3>1, <3>3
    <3> QED
      BY <3>2, <3>3
  <2>15. AnswerInv'
    BY <1>1, <2>5 DEF AnswerInv
  <2> QED
    BY <1>1, <2>1, <2>3, <2>5, <2>6, <2>11, <2>13, <2>14, <2>15
<1>4. CASE c \notin Children
  <2>1. c \in Requests
    BY <1>4 DEF Contexts
  <2>2. /\ answers' = [answers EXCEPT ![c] = Append(@, code)]
        /\ phase' = [phase EXCEPT ![c] = next]
        /\ todo' = [todo EXCEPT ![t] = bye]
        /\ dialog' = dialog
    BY <1>4 DEF Report
  <2>3. /\ phase' \in [Contexts -> {"none", "new", "run", "done", "end"}]
        /\ \A d \in Contexts : phase'[d] = IF d = c THEN next ELSE phase[d]
        /\ answers' \in [Contexts -> Seq(Codes)]
        /\ \A d \in Contexts \ {c} : answers'[d] = answers[d]
    BY <1>1, <2>2
  <2> HIDE DEF bye
  <2>4. \A d \in Contexts :
           /\ Op("postStart", d) \notin ToSet(bye)
           /\ Op("schedule", d) \notin ToSet(bye)
           /\ Op("delete", d) \in ToSet(bye) => phase'[d] = "end"
    BY <1>2, <2>3, OpFacts
  <2>5. \A d \in Contexts : Once(bye, Op("schedule", d))
    BY <2>4, AbsentFacts
  <2>6. todo' \in [Threads -> Seq(Ops)] /\ \A u \in Threads : TodoMoves(u)
    BY <1>1, <1>2, <2>2, <2>4, <2>5, Overwritten
  <2>7. \A u \in Threads, d \in Contexts : Due(u, "schedule", d)' => d # c
    BY <1>1, <2>6 DEF TodoMoves, ScheduleInv
  <2>8. ASSUME NEW d \in Contexts
        PROVE  PhaseMoves(d) /\ (phase'[d] # phase[d] => phase'[d] \in {"done", "end"})
    BY <2>3, <2>7 DEF PhaseMoves
  <2>9. FamilyInv'
    <3> SUFFICES ASSUME NEW r \in Sudos
                 PROVE  /\ phase'[r] \in {"none", "new"} => \A d \in ChildrenOf(r) : phase'[d] = "none"
                        /\ \E d \in ChildrenOf(r) : phase'[d] = "none"
                        /\ \A d \in ChildrenOf(r) : phase'[d] \in {"new", "run"} => phase'[r] = "run"
      BY DEF FamilyInv
    <3>1. /\ phase[r] \in {"none", "new"} => \A d \in ChildrenOf(r) : phase[d] = "none"
          /\ \E d \in ChildrenOf(r) : phase[d] = "none"
          /\ \A d \in ChildrenOf(r) : phase[d] \in {"new", "run"} => phase[r] = "run"
          /\ \A d \in ChildrenOf(r) : d \in Contexts /\ d # c
          /\ r \in Contexts
      BY <1>1, <1>4, <2>1, ContextFacts DEF FamilyInv
    <3> QED
      BY <2>3, <3>1
  <2>10. AnswerInv'
    BY <1>1, <2>3 DEF AnswerInv
  <2> QED
    BY <1>1, <2>2, <2>3, <2>6, <2>8, <2>9, <2>10
<1> QED
  BY <1>3, <1>4

LEMMA TodoSame ==
  ASSUME todo' = todo
  PROVE  \A u \in Threads : TodoMoves(u)
BY DEF TodoMoves, Due

LEMMA TakeFacts ==
  ASSUME TypeOK, NEW op \in {"start", "stop"}, NEW c \in Contexts, Take(op, c)
  PROVE  /\ tasks # <<>> /\ Head(tasks) = Op(op, c) /\ Op(op, c) \in ToSet(tasks)
         /\ tasks' = Tail(tasks) /\ tasks' \in Seq(Tasks)
         /\ cancelRequested' \subseteq Contexts /\ cancelRequested \ cancelRequested' \subseteq {c}
         /\ op = "start" => cancelRequested' = cancelRequested
         /\ UNCHANGED <<waitingFifo, running, Pooled, cancelCalls, cancelled>>
<1>1. tasks \in Seq(Tasks) /\ tasks # <<>> /\ Head(tasks) = Op(op, c) /\ tasks' = Tail(tasks)
  BY DEF TypeOK, Take
<1>2. Head(tasks) \in ToSet(tasks) /\ Tail(tasks) \in Seq(Tasks)
  BY <1>1, TailFacts
<1> QED
  BY <1>1, <1>2 DEF Take, TypeOK, Pooled

\* A stop that comes too late, or a start: nothing but the queue and the mark change.
LEMMA TooLateKeeps ==
  ASSUME IInv, NEW c \in Contexts, StopTooLate(c) \/ StartTooLate(c)
  PROVE  IInv'
<1>1. TypeOK
  BY DEF IInv
<1>2. PICK op \in {"start", "stop"} :
        /\ Take(op, c)
        /\ op = "stop" => c \notin Pooled \/ phase[c] \in {"done", "end"}
        /\ UNCHANGED <<clock, createTime, todo, contextVars>>
  BY DEF StopTooLate, StartTooLate
<1>3. /\ tasks # <<>> /\ Head(tasks) = Op(op, c)
      /\ tasks' = Tail(tasks) /\ tasks' \in Seq(Tasks)
      /\ cancelRequested' \subseteq Contexts /\ cancelRequested \ cancelRequested' \subseteq {c}
      /\ op = "start" => cancelRequested' = cancelRequested
      /\ UNCHANGED <<waitingFifo, running, Pooled, cancelCalls, cancelled>>
  BY <1>1, <1>2, TakeFacts
<1>4. UNCHANGED <<phase, told, dialog, answers>>
  BY <1>2 DEF contextVars
<1>5. TasksMove
  BY <1>2, <1>3, <1>4, OpFacts DEF TasksMove, Settled, Pooled
<1>6. \A d \in Contexts : PhaseMoves(d)
  BY <1>4 DEF PhaseMoves
<1>7. Moves
  BY <1>2, <1>3, <1>4, <1>5, <1>6, TodoSame DEF Moves
<1>8. CancelInv'
  BY <1>2, <1>3, <1>4, <1>7, CancelKept
<1>9. TypeOK' /\ FamilyInv' /\ AnswerInv'
  BY <1>2, <1>3, <1>4 DEF IInv, TypeOK, FamilyInv, AnswerInv
<1> QED
  BY <1>7, <1>8, <1>9, MovesKeep DEF IInv

\* Stop of a started context that reports later.
LEMMA StopRunningKeeps ==
  ASSUME IInv, NEW c \in Contexts, StopSimple(c) \/ StopSudo(c)
  PROVE  IInv'
<1>1. TypeOK
  BY DEF IInv
<1>2. /\ Take("stop", c) /\ phase[c] = "run" /\ told' = told \cup {c}
      /\ UNCHANGED <<clock, createTime, phase, dialog, answers>>
  BY DEF StopSimple, StopSudo, Stoppable
<1>3. /\ tasks # <<>> /\ Head(tasks) = Op("stop", c)
      /\ tasks' = Tail(tasks) /\ tasks' \in Seq(Tasks)
      /\ cancelRequested' \subseteq Contexts /\ cancelRequested \ cancelRequested' \subseteq {c}
      /\ UNCHANGED <<waitingFifo, running, Pooled, cancelCalls, cancelled>>
  BY <1>1, <1>2, TakeFacts
<1>4. todo' \in [Threads -> Seq(Ops)] /\ \A u \in Threads : TodoMoves(u)
  <2>1. CASE StopSimple(c)
    BY <1>1, <2>1, TodoSame DEF StopSimple, TypeOK
  <2>2. CASE StopSudo(c)
    <3>1. PICK child \in ChildrenOf(c) :
            todo' = [todo EXCEPT ![EventThread] = <<Op("cancel", child)>>]
      BY <2>2 DEF StopSudo
    <3>2. child \in Contexts /\ EventThread \in Threads
      BY <2>2, ContextFacts DEF StopSudo
    <3> DEFINE q == <<Op("cancel", child)>>
    <3>3. q \in Seq(Ops) /\ ToSet(q) = {Op("cancel", child)}
      BY <3>2, OpFacts, SingleFacts
    <3> HIDE DEF q
    <3>4. \A d \in Contexts :
            /\ Op("postStart", d) \notin ToSet(q)
            /\ Op("schedule", d) \notin ToSet(q)
            /\ Op("delete", d) \notin ToSet(q)
      BY <3>3, OpFacts
    <3>5. \A d \in Contexts : Once(q, Op("schedule", d))
      BY <3>4, AbsentFacts
    <3>6. todo' = [todo EXCEPT ![EventThread] = q]
      BY <3>1 DEF q
    <3> QED
      BY <1>1, <3>2, <3>3, <3>4, <3>5, <3>6, Overwritten
  <2> QED
    BY <2>1, <2>2
<1>5. TasksMove
  BY <1>2, <1>3, OpFacts DEF TasksMove, Settled
<1>6. \A d \in Contexts : PhaseMoves(d)
  BY <1>2 DEF PhaseMoves
<1>7. Moves
  BY <1>2, <1>3, <1>4, <1>5, <1>6 DEF Moves
<1>8. CancelInv'
  BY <1>2, <1>3, <1>7, CancelKept
<1>9. TypeOK' /\ FamilyInv' /\ AnswerInv'
  BY <1>2, <1>3, <1>4 DEF IInv, TypeOK, FamilyInv, AnswerInv
<1> QED
  BY <1>7, <1>8, <1>9, MovesKeep DEF IInv

\* Tasks that end with a report: a stop before the start, the stop of a widget, a
\* start that fails.
LEMMA TaskReportKeeps ==
  ASSUME IInv, NEW c \in Contexts, StopBeforeStart(c) \/ StopWidget(c) \/ StartFails(c)
  PROVE  IInv'
<1>1. TypeOK /\ ScheduleInv /\ StartInv
  BY DEF IInv
<1>2. PICK op \in {"start", "stop"}, code \in Codes, next \in {"done", "end"} :
        /\ Take(op, c)
        /\ Report(EventThread, c, code, next)
        /\ op = "stop" => c \in Pooled
        /\ op = "stop" /\ Kind(c) # "widget" => phase[c] = "new"
        /\ next = "done" => phase[c] = "run"
        /\ phase[c] \in {"new", "run"}
        /\ UNCHANGED <<clock, createTime, told>>
  BY DEF StopBeforeStart, StopWidget, StartFails, Stoppable, Startable, Codes
<1>3. /\ tasks # <<>> /\ Head(tasks) = Op(op, c) /\ Op(op, c) \in ToSet(tasks)
      /\ tasks' = Tail(tasks) /\ tasks' \in Seq(Tasks)
      /\ cancelRequested' \subseteq Contexts /\ cancelRequested \ cancelRequested' \subseteq {c}
      /\ op = "start" => cancelRequested' = cancelRequested
      /\ UNCHANGED <<waitingFifo, running, Pooled, cancelCalls, cancelled>>
  BY <1>1, <1>2, TakeFacts
<1>4. op = "start" => StartDue(c) /\ phase[c] = "new"
  BY <1>1, <1>2, <1>3 DEF StartDue, StartInv
<1>5. \A u \in Threads : ~Due(u, "schedule", c)
  BY <1>1, <1>2, <1>4 DEF ScheduleInv
<1>6. /\ phase[c] = "run" \/ (phase[c] = "new" /\ next = "end")
      /\ c \in Sudos => phase[c] = "new"
  BY <1>2, <1>4, ContextFacts
<1>7. /\ phase' \in [Contexts -> {"none", "new", "run", "done", "end"}]
      /\ answers' \in [Contexts -> Seq(Codes)]
      /\ dialog' \subseteq Contexts
      /\ todo' \in [Threads -> Seq(Ops)]
      /\ phase'[c] = next
      /\ \A d \in Contexts : PhaseMoves(d) /\ (phase'[d] # phase[d] => phase'[d] \in {"done", "end"})
      /\ \A u \in Threads : TodoMoves(u)
      /\ FamilyInv' /\ AnswerInv'
  BY <1>2, <1>5, <1>6, ContextFacts, ReportMoves
<1>8. TasksMove
  BY <1>2, <1>3, <1>7, OpFacts DEF TasksMove, Settled
<1>9. Moves
  BY <1>2, <1>3, <1>7, <1>8 DEF Moves
<1>10. CancelInv'
  <2>1. \A d \in Contexts : ~(phase[d] = "new" /\ phase'[d] = "run")
    BY <1>7
  <2> QED
    BY <1>2, <1>3, <1>6, <1>7, <1>9, <2>1, CancelKept
<1>11. TypeOK'
  BY <1>1, <1>2, <1>3, <1>7 DEF TypeOK
<1> QED
  BY <1>7, <1>9, <1>10, <1>11, MovesKeep DEF IInv

LEMMA StartContextKeeps ==
  ASSUME IInv, NEW c \in Contexts, StartContext(c)
  PROVE  IInv'
<1>1. TypeOK /\ FamilyInv /\ AnswerInv
  BY DEF IInv
<1>2. /\ Take("start", c) /\ c \in running /\ c \notin cancelRequested
      /\ phase[c] = "new" /\ Kind(c) # "sudo"
      /\ phase' = [phase EXCEPT ![c] = "run"]
      /\ UNCHANGED <<clock, createTime, todo, told, dialog, answers>>
  BY DEF StartContext, Startable
<1>3. /\ tasks # <<>> /\ Head(tasks) = Op("start", c)
      /\ tasks' = Tail(tasks) /\ tasks' \in Seq(Tasks)
      /\ cancelRequested' = cancelRequested
      /\ UNCHANGED <<waitingFifo, running, Pooled, cancelCalls, cancelled>>
  BY <1>1, <1>2, TakeFacts
<1>4. /\ phase' \in [Contexts -> {"none", "new", "run", "done", "end"}]
      /\ \A d \in Contexts : phase'[d] = IF d = c THEN "run" ELSE phase[d]
  BY <1>1, <1>2 DEF TypeOK
<1>5. TasksMove
  BY <1>3, OpFacts DEF TasksMove
<1>6. \A d \in Contexts : PhaseMoves(d)
  BY <1>2, <1>3, <1>4 DEF PhaseMoves
<1>7. Moves
  BY <1>2, <1>3, <1>5, <1>6, TodoSame DEF Moves
<1>8. CancelInv'
  BY <1>2, <1>3, <1>4, <1>7, CancelKept
<1>9. TypeOK'
  BY <1>1, <1>2, <1>3, <1>4 DEF TypeOK
<1>10. AnswerInv'
  BY <1>1, <1>2, <1>4 DEF AnswerInv
<1>11. FamilyInv'
  <2> SUFFICES ASSUME NEW r \in Sudos
               PROVE  /\ phase'[r] \in {"none", "new"} => \A d \in ChildrenOf(r) : phase'[d] = "none"
                      /\ \E d \in ChildrenOf(r) : phase'[d] = "none"
                      /\ \A d \in ChildrenOf(r) : phase'[d] \in {"new", "run"} => phase'[r] = "run"
    BY DEF FamilyInv
  <2>1. /\ phase[r] \in {"none", "new"} => \A d \in ChildrenOf(r) : phase[d] = "none"
        /\ \E d \in ChildrenOf(r) : phase[d] = "none"
        /\ \A d \in ChildrenOf(r) : phase[d] \in {"new", "run"} => phase[r] = "run"
        /\ \A d \in ChildrenOf(r) : d \in Contexts
        /\ r \in Contexts /\ r # c
    BY <1>1, <1>2, ContextFacts DEF FamilyInv
  <2> QED
    BY <1>2, <1>4, <2>1
<1> QED
  BY <1>7, <1>8, <1>9, <1>10, <1>11, MovesKeep DEF IInv

LEMMA StartSudoKeeps ==
  ASSUME IInv, NEW s \in Contexts, StartSudo(s)
  PROVE  IInv'
<1>1. TypeOK /\ FamilyInv /\ AnswerInv
  BY DEF IInv
<1>2. /\ Take("start", s) /\ s \in running /\ s \notin cancelRequested
      /\ phase[s] = "new" /\ Kind(s) = "sudo"
      /\ UNCHANGED <<told, answers>>
  BY DEF StartSudo, Startable
<1>3. /\ tasks # <<>> /\ Head(tasks) = Op("start", s)
      /\ tasks' = Tail(tasks) /\ tasks' \in Seq(Tasks)
      /\ cancelRequested' = cancelRequested
      /\ UNCHANGED <<waitingFifo, running, Pooled, cancelCalls, cancelled>>
  BY <1>1, <1>2, TakeFacts
<1>4. PICK child \in ChildrenOf(s) :
        /\ clock' = clock + 1
        /\ createTime' = [createTime EXCEPT ![child] = clock + 1]
        /\ phase' = [phase EXCEPT ![s] = "run", ![child] = "new"]
        /\ dialog' \in {dialog, dialog \cup {s}}
        /\ \/ todo' = [todo EXCEPT ![EventThread] = <<Op("notify", s), Op("schedule", child)>>]
           \/ todo' = [todo EXCEPT ![EventThread] = <<Op("schedule", child)>>]
  BY DEF StartSudo
<1>5. /\ s \in Sudos /\ child \in Children /\ child \in Contexts /\ child \notin Requests /\ child # s
      /\ EventThread \in Threads /\ Home(child) = EventThread /\ Parent(child) = s
  BY <1>2, ContextFacts DEF Home
<1>6. \A d \in ChildrenOf(s) : phase[d] = "none"
  BY <1>1, <1>2, <1>5 DEF FamilyInv
<1>7. /\ phase' \in [Contexts -> {"none", "new", "run", "done", "end"}]
      /\ \A d \in Contexts : phase'[d] = IF d = child THEN "new" ELSE IF d = s THEN "run" ELSE phase[d]
  BY <1>1, <1>4, <1>5 DEF TypeOK
<1>8. PICK q \in Seq(Ops) :
        /\ todo' = [todo EXCEPT ![EventThread] = q]
        /\ ToSet(q) \subseteq {Op("notify", s), Op("schedule", child)}
        /\ \A x : Once(q, x)
  <2>1. Op("notify", s) \in Ops /\ Op("schedule", child) \in Ops /\ Op("notify", s) # Op("schedule", child)
    BY <1>5, OpFacts
  <2> DEFINE p == <<Op("notify", s), Op("schedule", child)>>
             r == <<Op("schedule", child)>>
  <2>2. p \in Seq(Ops) /\ ToSet(p) = {Op("notify", s), Op("schedule", child)} /\ \A x : Once(p, x)
    BY <2>1, PairFacts
  <2>3. r \in Seq(Ops) /\ ToSet(r) = {Op("schedule", child)} /\ \A x : Once(r, x)
    BY <2>1, SingleFacts
  <2>4. todo' = [todo EXCEPT ![EventThread] = p] \/ todo' = [todo EXCEPT ![EventThread] = r]
    BY <1>4
  <2> HIDE DEF p, r
  <2> QED
    BY <2>2, <2>3, <2>4
<1>9. \A d \in Contexts :
        /\ Op("postStart", d) \notin ToSet(q)
        /\ Op("schedule", d) \in ToSet(q) => d = child
        /\ Op("delete", d) \notin ToSet(q)
  BY <1>8, OpFacts
<1>10. todo' \in [Threads -> Seq(Ops)] /\ \A u \in Threads : TodoMoves(u)
  BY <1>1, <1>4, <1>5, <1>6, <1>7, <1>8, <1>9, Overwritten
<1>11. TasksMove
  BY <1>3, OpFacts DEF TasksMove
<1>12. \A d \in Contexts : PhaseMoves(d)
  BY <1>2, <1>3, <1>4, <1>6, <1>7 DEF PhaseMoves
<1>13. Moves
  BY <1>2, <1>3, <1>10, <1>11, <1>12 DEF Moves
<1>14. CancelInv'
  BY <1>2, <1>3, <1>7, <1>13, CancelKept
<1>15. TypeOK'
  <2>1. clock' \in Nat /\ createTime' \in [Contexts -> Nat] /\ dialog' \subseteq Contexts
    BY <1>1, <1>4, <1>5 DEF TypeOK
  <2> QED
    BY <1>1, <1>2, <1>3, <1>7, <1>10, <2>1 DEF TypeOK
<1>16. AnswerInv'
  BY <1>1, <1>2, <1>4, <1>6, <1>7 DEF AnswerInv
<1>17. FamilyInv'
  <2> SUFFICES ASSUME NEW r \in Sudos
               PROVE  /\ phase'[r] \in {"none", "new"} => \A d \in ChildrenOf(r) : phase'[d] = "none"
                      /\ \E d \in ChildrenOf(r) : phase'[d] = "none"
                      /\ \A d \in ChildrenOf(r) : phase'[d] \in {"new", "run"} => phase'[r] = "run"
    BY DEF FamilyInv
  <2>1. /\ phase[r] \in {"none", "new"} => \A d \in ChildrenOf(r) : phase[d] = "none"
        /\ \E d \in ChildrenOf(r) : phase[d] = "none"
        /\ \A d \in ChildrenOf(r) : phase[d] \in {"new", "run"} => phase[r] = "run"
        /\ \A d \in ChildrenOf(r) : d \in Contexts /\ d \notin Requests /\ Parent(d) = r
        /\ r \in Contexts /\ r \in Requests
    BY <1>1, ContextFacts DEF FamilyInv
  <2>2. CASE r = s
    <3>1. \E d \in ChildrenOf(s) : d # child
      BY <1>5, ContextFacts DEF ChildrenOf
    <3> QED
      BY <1>5, <1>6, <1>7, <2>1, <2>2, <3>1
  <2>3. CASE r # s
    <3>1. s \in Requests
      BY <1>5, ContextFacts
    <3>2. phase'[r] = phase[r] /\ \A d \in ChildrenOf(r) : phase'[d] = phase[d]
      BY <1>5, <1>7, <2>1, <2>3, <3>1
    <3> QED
      BY <2>1, <3>2
  <2> QED
    BY <2>2, <2>3
<1> QED
  BY <1>13, <1>14, <1>15, <1>16, <1>17, MovesKeep DEF IInv

LEMMA FinishKeeps ==
  ASSUME IInv, NEW t \in {EventThread, TimerThread}, NEW c \in Contexts, NEW code \in Codes,
         Finish(t, c, code)
  PROVE  IInv'
<1>1. TypeOK /\ ScheduleInv
  BY DEF IInv
<1>2. PICK next \in {"done", "end"} :
        /\ Report(t, c, code, next) /\ phase[c] = "run" /\ Kind(c) # "sudo"
        /\ UNCHANGED <<clock, createTime, poolVars, tasks, told, cancelCalls, cancelled>>
  BY DEF Finish
<1>3. /\ t \in Threads /\ c \notin Sudos /\ \A u \in Threads : ~Due(u, "schedule", c)
      /\ UNCHANGED <<waitingFifo, running, cancelRequested>>
  BY <1>1, <1>2, ContextFacts DEF ScheduleInv, poolVars
<1>4. /\ phase' \in [Contexts -> {"none", "new", "run", "done", "end"}]
      /\ answers' \in [Contexts -> Seq(Codes)]
      /\ dialog' \subseteq Contexts
      /\ todo' \in [Threads -> Seq(Ops)]
      /\ \A d \in Contexts : PhaseMoves(d) /\ (phase'[d] # phase[d] => phase'[d] \in {"done", "end"})
      /\ \A u \in Threads : TodoMoves(u)
      /\ FamilyInv' /\ AnswerInv'
  BY <1>2, <1>3, ReportMoves
<1>5. Moves
  BY <1>2, <1>3, <1>4 DEF Moves, TasksMove
<1>6. CancelInv'
  BY <1>2, <1>3, <1>4, <1>5, CancelKept
<1>7. TypeOK'
  BY <1>1, <1>2, <1>3, <1>4 DEF TypeOK
<1> QED
  BY <1>4, <1>5, <1>6, <1>7, MovesKeep DEF IInv

LEMMA ReleaseKeeps ==
  ASSUME IInv, NEW t \in {EventThread, TimerThread}, NEW c \in Contexts, Release(t, c)
  PROVE  IInv'
<1>1. TypeOK /\ FamilyInv /\ AnswerInv
  BY DEF IInv
<1>2. /\ phase[c] = "done" /\ phase' = [phase EXCEPT ![c] = "end"]
      /\ todo' = [todo EXCEPT ![t] = <<Op("delete", c)>>]
      /\ UNCHANGED <<clock, createTime, poolVars, tasks, told, dialog, answers, cancelCalls, cancelled>>
      /\ UNCHANGED <<waitingFifo, running, cancelRequested>>
  BY DEF Release, poolVars
<1>3. /\ phase' \in [Contexts -> {"none", "new", "run", "done", "end"}]
      /\ \A d \in Contexts : phase'[d] = IF d = c THEN "end" ELSE phase[d]
  BY <1>1, <1>2 DEF TypeOK
<1>4. t \in Threads
  BY ContextFacts
<1> DEFINE q == <<Op("delete", c)>>
<1>5. q \in Seq(Ops) /\ ToSet(q) = {Op("delete", c)} /\ \A x : Once(q, x)
  BY OpFacts, SingleFacts
<1>6. todo' = [todo EXCEPT ![t] = q]
  BY <1>2
<1> HIDE DEF q
<1>7. \A d \in Contexts :
        /\ Op("postStart", d) \notin ToSet(q)
        /\ Op("schedule", d) \notin ToSet(q)
        /\ Op("delete", d) \in ToSet(q) => phase'[d] = "end"
  BY <1>3, <1>5, OpFacts
<1>8. todo' \in [Threads -> Seq(Ops)] /\ \A u \in Threads : TodoMoves(u)
  BY <1>1, <1>4, <1>5, <1>6, <1>7, Overwritten
<1>9. \A d \in Contexts : PhaseMoves(d)
  BY <1>2, <1>3 DEF PhaseMoves
<1>10. Moves
  BY <1>2, <1>8, <1>9 DEF Moves, TasksMove
<1>11. CancelInv'
  BY <1>2, <1>3, <1>10, CancelKept
<1>12. TypeOK'
  BY <1>1, <1>2, <1>3, <1>8 DEF TypeOK
<1>13. FamilyInv' /\ AnswerInv'
  BY <1>1, <1>2, <1>3, ContextFacts DEF FamilyInv, AnswerInv
<1> QED
  BY <1>10, <1>11, <1>12, <1>13, MovesKeep DEF IInv

LEMMA CreateKeeps ==
  ASSUME IInv, NEW r \in Requests, Create(r)
  PROVE  IInv'
<1>1. TypeOK /\ FamilyInv /\ AnswerInv /\ r \in Contexts /\ r \in Threads /\ Home(r) = r
  BY ContextFacts DEF IInv, Home
<1>2. /\ phase[r] = "none" /\ phase' = [phase EXCEPT ![r] = "new"]
      /\ clock' = clock + 1 /\ createTime' = [createTime EXCEPT ![r] = clock + 1]
      /\ todo' = [todo EXCEPT ![r] = <<Op("schedule", r)>>]
      /\ UNCHANGED <<waitingFifo, running, cancelRequested>>
      /\ UNCHANGED <<tasks, told, dialog, answers, cancelCalls, cancelled>>
  BY DEF Create, poolVars
<1>3. /\ phase' \in [Contexts -> {"none", "new", "run", "done", "end"}]
      /\ \A d \in Contexts : phase'[d] = IF d = r THEN "new" ELSE phase[d]
      /\ clock' \in Nat /\ createTime' \in [Contexts -> Nat]
  BY <1>1, <1>2 DEF TypeOK
<1> DEFINE q == <<Op("schedule", r)>>
<1>4. q \in Seq(Ops) /\ ToSet(q) = {Op("schedule", r)} /\ \A x : Once(q, x)
  BY <1>1, OpFacts, SingleFacts
<1>5. todo' = [todo EXCEPT ![r] = q]
  BY <1>2
<1> HIDE DEF q
<1>6. \A d \in Contexts :
        /\ Op("postStart", d) \notin ToSet(q)
        /\ Op("schedule", d) \in ToSet(q) => d = r
        /\ Op("delete", d) \notin ToSet(q)
  BY <1>4, OpFacts
<1>7. todo' \in [Threads -> Seq(Ops)] /\ \A u \in Threads : TodoMoves(u)
  BY <1>1, <1>2, <1>3, <1>4, <1>5, <1>6, Overwritten
<1>8. \A d \in Contexts : PhaseMoves(d)
  BY <1>2, <1>3 DEF PhaseMoves
<1>9. Moves
  BY <1>2, <1>7, <1>8 DEF Moves, TasksMove
<1>10. CancelInv'
  BY <1>2, <1>3, <1>9, CancelKept
<1>11. TypeOK'
  BY <1>1, <1>2, <1>3, <1>7 DEF TypeOK
<1>12. AnswerInv'
  BY <1>1, <1>2, <1>3 DEF AnswerInv
<1>13. FamilyInv'
  BY <1>1, <1>2, <1>3, ContextFacts DEF FamilyInv
<1> QED
  BY <1>9, <1>10, <1>11, <1>12, <1>13, MovesKeep DEF IInv

LEMMA CallKeeps ==
  ASSUME IInv,
         (\E c \in Contexts : RequestCancel(c)) \/ CancelAll
  PROVE  IInv'
<1>1. TypeOK
  BY DEF IInv
<1>2. PICK cs \in Seq(Contexts) :
        /\ cancelCalls < MaxCancels /\ cancelCalls' = cancelCalls + 1
        /\ todo' = [todo EXCEPT ![cancelCalls + 1] = OpsFor("cancel", cs)]
        /\ UNCHANGED <<clock, createTime, poolVars, tasks, contextVars, cancelled>>
  <2>1. ASSUME NEW c \in Contexts, RequestCancel(c)
        PROVE  /\ <<c>> \in Seq(Contexts)
               /\ todo' = [todo EXCEPT ![cancelCalls + 1] = OpsFor("cancel", <<c>>)]
    <3>1. OpsFor("cancel", <<c>>) = <<Op("cancel", c)>>
      BY DEF OpsFor
    <3>2. todo' = [todo EXCEPT ![cancelCalls + 1] = <<Op("cancel", c)>>]
      BY <2>1 DEF RequestCancel
    <3> DEFINE p == <<c>>
    <3>3. p \in Seq(Contexts)
      BY SingleFacts
    <3>4. todo' = [todo EXCEPT ![cancelCalls + 1] = OpsFor("cancel", p)]
      BY <3>1, <3>2, Zenon
    <3> QED
      BY <3>3, <3>4
  <2>2. ASSUME CancelAll
        PROVE  \E cs \in Seq(Contexts) :
                 todo' = [todo EXCEPT ![cancelCalls + 1] = OpsFor("cancel", cs)]
    <3>1. PICK order \in SetToSeqs(running) :
            todo' = [todo EXCEPT ![cancelCalls + 1] = OpsFor("cancel", order \o waitingFifo)]
      BY <2>2 DEF CancelAll
    <3>2. order \in Seq(running)
      BY <1>1, SetToSeqsFacts DEF TypeOK
    <3>3. order \in Seq(Contexts) /\ waitingFifo \in Seq(Contexts)
      BY <1>1, <3>2 DEF TypeOK
    <3>4. order \o waitingFifo \in Seq(Contexts)
      BY <3>3, ConcatProperties
    <3> QED
      BY <3>1, <3>4
  <2> QED
    BY <2>1, <2>2 DEF RequestCancel, CancelAll
<1>3. UNCHANGED <<waitingFifo, running, cancelRequested, phase, told, dialog, answers>>
  BY <1>2 DEF poolVars, contextVars
<1>4. cancelCalls + 1 \in Threads /\ cancelCalls' \in 0..MaxCancels
  BY <1>1, <1>2, PoolAssumption DEF TypeOK, Threads, Cancellers
<1> DEFINE q == OpsFor("cancel", cs)
<1>5. q \in Seq(Ops) /\ ToSet(q) = {Op("cancel", c) : c \in ToSet(cs)}
  BY OpsForFacts
<1> HIDE DEF q
<1>6. \A d \in Contexts :
        /\ Op("postStart", d) \notin ToSet(q)
        /\ Op("schedule", d) \notin ToSet(q)
        /\ Op("delete", d) \notin ToSet(q)
  BY <1>5, OpFacts
<1>7. \A d \in Contexts : Once(q, Op("schedule", d))
  BY <1>6, AbsentFacts
<1>8. todo' = [todo EXCEPT ![cancelCalls + 1] = q]
  BY <1>2 DEF q
<1>9. todo' \in [Threads -> Seq(Ops)] /\ \A u \in Threads : TodoMoves(u)
  BY <1>1, <1>4, <1>5, <1>6, <1>7, <1>8, Overwritten
<1>10. \A d \in Contexts : PhaseMoves(d)
  BY <1>3 DEF PhaseMoves
<1>11. Moves
  BY <1>2, <1>3, <1>9, <1>10 DEF Moves, TasksMove
<1>12. CancelInv'
  BY <1>2, <1>3, <1>11, CancelKept
<1>13. TypeOK' /\ FamilyInv' /\ AnswerInv'
  BY <1>2, <1>3, <1>4, <1>9 DEF IInv, TypeOK, FamilyInv, AnswerInv
<1> QED
  BY <1>11, <1>12, <1>13, MovesKeep DEF IInv

\* What a thread is about to do is still due.
LEMMA AtFacts ==
  ASSUME TypeOK, NEW t \in Threads, NEW op, NEW c, At(t, op, c)
  PROVE  todo[t] \in Seq(Ops) /\ todo[t] # <<>> /\ Head(todo[t]) = Op(op, c) /\ Due(t, op, c)
<1>1. todo[t] \in Seq(Ops) /\ todo[t] # <<>> /\ Head(todo[t]) = Op(op, c)
  BY DEF TypeOK, At
<1> QED
  BY <1>1, TailFacts DEF Due

LEMMA ScheduleRefusesKeeps ==
  ASSUME IInv, NEW t \in Threads, NEW c \in Contexts, ScheduleRefuses(t, c)
  PROVE  IInv'
<1> DEFINE payer == IF c \in Requests THEN c ELSE Parent(c)
<1>1. TypeOK /\ ScheduleInv /\ FamilyInv /\ AnswerInv
  BY DEF IInv
<1>2. /\ At(t, "schedule", c)
      /\ phase' = [phase EXCEPT ![c] = "end", ![payer] = "end"]
      /\ answers' = [answers EXCEPT ![payer] = Append(@, "FAIL")]
      /\ dialog' = dialog \ {payer}
      /\ todo' = [todo EXCEPT ![t] = <<Op("delete", payer)>> \o Tail(@)]
      /\ UNCHANGED <<clock, createTime, tasks, told, cancelCalls, cancelled>>
      /\ UNCHANGED <<waitingFifo, running, cancelRequested>>
  BY DEF ScheduleRefuses, poolVars
<1>3. todo[t] \in Seq(Ops) /\ todo[t] # <<>> /\ Head(todo[t]) = Op("schedule", c) /\ Due(t, "schedule", c)
  BY <1>1, <1>2, AtFacts
<1>4. phase[c] = "new" /\ t = Home(c) /\ Once(todo[t], Op("schedule", c))
  BY <1>1, <1>3 DEF ScheduleInv
<1>5. /\ payer \in Contexts
      /\ payer = c \/ (payer \in Sudos /\ phase[payer] = "run" /\ c \in ChildrenOf(payer) /\ c # payer)
  <2>1. CASE c \in Requests
    BY <2>1
  <2>2. CASE c \notin Requests
    <3>1. payer \in Sudos /\ payer \in Contexts /\ c \in ChildrenOf(payer) /\ c # payer
      BY <2>2, ContextFacts DEF Contexts
    <3> QED
      BY <1>1, <1>4, <3>1 DEF FamilyInv
  <2> QED
    BY <2>1, <2>2
<1>6. c \in Sudos => payer = c
  BY ContextFacts
<1> HIDE DEF payer
<1>7. /\ phase' \in [Contexts -> {"none", "new", "run", "done", "end"}]
      /\ \A d \in Contexts : phase'[d] = IF d \in {c, payer} THEN "end" ELSE phase[d]
  BY <1>1, <1>2, <1>5 DEF TypeOK
<1>8. /\ answers' \in [Contexts -> Seq(Codes)]
      /\ \A d \in Contexts \ {payer} : answers'[d] = answers[d]
  <2>1. answers[payer] \in Seq(Codes) /\ "FAIL" \in Codes
    BY <1>1, <1>5 DEF TypeOK, Codes
  <2>2. Append(answers[payer], "FAIL") \in Seq(Codes)
    BY <2>1, AppendProperties
  <2> QED
    BY <1>1, <1>2, <1>5, <2>2 DEF TypeOK
<1> DEFINE q == <<Op("delete", payer)>>
<1>9. q \in Seq(Ops) /\ ToSet(q) = {Op("delete", payer)}
  BY <1>5, OpFacts, SingleFacts
<1>10. todo' = [todo EXCEPT ![t] = q \o Tail(@)]
  BY <1>2
<1> HIDE DEF q
<1>11. \A d \in Contexts :
         /\ Op("postStart", d) \notin ToSet(q)
         /\ Op("schedule", d) \notin ToSet(q)
         /\ Op("delete", d) \in ToSet(q) => phase'[d] = "end"
  BY <1>7, <1>9, OpFacts
<1>12. \A d : Head(todo[t]) # Op("postStop", d)
  BY <1>3, OpFacts
<1>13. todo' \in [Threads -> Seq(Ops)] /\ \A u \in Threads : TodoMoves(u)
  BY <1>1, <1>3, <1>9, <1>10, <1>11, <1>12, HeadReplaced
<1>14. \A u \in Threads : ~Due(u, "schedule", c)'
  <2>1. Tail(todo[t]) \in Seq(Ops) /\ Op("schedule", c) \notin ToSet(Tail(todo[t]))
    BY <1>3, <1>4, TailFacts
  <2>2. ToSet(q \o Tail(todo[t])) = ToSet(q) \cup ToSet(Tail(todo[t]))
    <3> DEFINE r == Tail(todo[t])
    <3> HIDE DEF r
    <3>1. r \in Seq(Ops)
      BY <2>1 DEF r
    <3>2. ToSet(q \o r) = ToSet(q) \cup ToSet(r)
      BY <1>9, <3>1, ConcatFacts
    <3> QED
      BY <3>2 DEF r
  <2>3. todo'[t] = q \o Tail(todo[t])
    BY <1>1, <1>10 DEF TypeOK
  <2>4. ~Due(t, "schedule", c)'
    BY <1>11, <2>1, <2>2, <2>3 DEF Due
  <2>5. ASSUME NEW u \in Threads, u # t
        PROVE  ~Due(u, "schedule", c)'
    BY <1>1, <1>4, <1>13, <2>5 DEF TodoMoves, ScheduleInv
  <2> QED
    BY <2>4, <2>5
<1>15. payer # c => \A u \in Threads : ~Due(u, "schedule", payer)'
  BY <1>1, <1>5, <1>13 DEF TodoMoves, ScheduleInv
<1>16. \A d \in Contexts : PhaseMoves(d)
  BY <1>4, <1>5, <1>7, <1>14, <1>15 DEF PhaseMoves
<1>17. Moves
  BY <1>2, <1>13, <1>16 DEF Moves, TasksMove
<1>18. CancelInv'
  BY <1>2, <1>7, <1>17, CancelKept
<1>19. TypeOK'
  BY <1>1, <1>2, <1>7, <1>8, <1>13 DEF TypeOK
<1>20. AnswerInv'
  BY <1>1, <1>7, <1>8 DEF AnswerInv
<1>21. FamilyInv'
  <2> SUFFICES ASSUME NEW r \in Sudos
               PROVE  /\ phase'[r] \in {"none", "new"} => \A d \in ChildrenOf(r) : phase'[d] = "none"
                      /\ \E d \in ChildrenOf(r) : phase'[d] = "none"
                      /\ \A d \in ChildrenOf(r) : phase'[d] \in {"new", "run"} => phase'[r] = "run"
    BY DEF FamilyInv
  <2>1. /\ phase[r] \in {"none", "new"} => \A d \in ChildrenOf(r) : phase[d] = "none"
        /\ \E d \in ChildrenOf(r) : phase[d] = "none"
        /\ \A d \in ChildrenOf(r) : phase[d] \in {"new", "run"} => phase[r] = "run"
        /\ \A d \in ChildrenOf(r) : d \in Contexts /\ d \notin Requests /\ Parent(d) = r
        /\ r \in Contexts /\ r \in Requests
    BY <1>1, ContextFacts DEF FamilyInv
  <2>2. CASE r = payer
    <3>1. \A d \in ChildrenOf(r) : d = c \/ phase[d] = "none"
      BY <1>4, <1>5, <2>1, <2>2 DEF ChildrenOf
    <3>2. \A d \in ChildrenOf(r) : d # payer
      BY <2>1, <2>2
    <3>3. \E d \in ChildrenOf(r) : d # c /\ phase[d] = "none"
      BY <1>4, <2>1
    <3> QED
      BY <1>7, <2>1, <2>2, <3>1, <3>2, <3>3
  <2>3. CASE r # payer
    <3>1. r # c /\ \A d \in ChildrenOf(r) : d # c /\ d # payer
      <4>1. \A d \in ChildrenOf(r) : d # payer
        BY <1>5, <2>1, ContextFacts DEF payer
      <4>2. \A d \in ChildrenOf(r) : d # c
        BY <2>1, <2>3 DEF payer
      <4> QED
        BY <1>6, <2>3, <4>1, <4>2
    <3>2. phase'[r] = phase[r] /\ \A d \in ChildrenOf(r) : phase'[d] = phase[d]
      BY <1>7, <2>1, <2>3, <3>1
    <3> QED
      BY <2>1, <3>2
  <2> QED
    BY <2>2, <2>3
<1> QED
  BY <1>17, <1>18, <1>19, <1>20, <1>21, MovesKeep DEF IInv

\* Delete of a context that is not in the pool: nothing but the thread's list changes.
LEMMA DeleteNothingKeeps ==
  ASSUME IInv, NEW t \in Threads, NEW c \in Contexts, Delete(t, c), c \notin Pooled
  PROVE  IInv'
<1>1. TypeOK
  BY DEF IInv
<1>2. /\ At(t, "delete", c) /\ todo' = [todo EXCEPT ![t] = Tail(@)]
      /\ UNCHANGED <<waitingFifo, running, cancelRequested, phase, told, dialog, answers>>
      /\ UNCHANGED <<clock, createTime, tasks, cancelCalls, cancelled>>
  BY DEF Delete, Done, contextVars
<1>3. todo[t] \in Seq(Ops) /\ todo[t] # <<>> /\ Head(todo[t]) = Op("delete", c)
  BY <1>1, <1>2, AtFacts
<1> DEFINE q == <<>>
<1>4. q \in Seq(Ops) /\ ToSet(q) = {}
  BY EmptyFacts
<1>5. todo' = [todo EXCEPT ![t] = q \o Tail(@)]
  <2>1. Tail(todo[t]) \in Seq(Ops)
    BY <1>3, TailFacts
  <2>2. <<>> \o Tail(todo[t]) = Tail(todo[t])
    BY <2>1, ConcatEmptySeq
  <2> QED
    BY <1>2, <2>2
<1> HIDE DEF q
<1>6. todo' \in [Threads -> Seq(Ops)] /\ \A u \in Threads : TodoMoves(u)
  <2>1. \A d : Head(todo[t]) # Op("postStop", d)
    BY <1>3, OpFacts
  <2>2. \A x : x \notin ToSet(q)
    BY <1>4
  <2> QED
    BY <1>1, <1>3, <1>4, <1>5, <2>1, <2>2, HeadReplaced
<1>7. \A d \in Contexts : PhaseMoves(d)
  BY <1>2 DEF PhaseMoves
<1>8. Moves
  BY <1>2, <1>6, <1>7 DEF Moves, TasksMove
<1>9. CancelInv'
  BY <1>2, <1>8, CancelKept
<1>10. TypeOK' /\ FamilyInv' /\ AnswerInv'
  BY <1>2, <1>6 DEF IInv, TypeOK, FamilyInv, AnswerInv
<1> QED
  BY <1>8, <1>9, <1>10, MovesKeep DEF IInv

LEMMA CancelKeeps ==
  ASSUME IInv, NEW t \in Threads, NEW c \in Contexts, Cancel(t, c)
  PROVE  IInv'
<1>1. TypeOK /\ CancelInv
  BY DEF IInv
<1>2. /\ At(t, "cancel", c)
      /\ cancelRequested' = cancelRequested \cup {c}
      /\ todo' = [todo EXCEPT ![t] = <<Op("postStop", c)>> \o Tail(@)]
      /\ cancelled' = [cancelled EXCEPT ![c] = IF @ = "never" THEN When(c) ELSE @]
      /\ UNCHANGED <<waitingFifo, running, phase, told, dialog, answers>>
      /\ UNCHANGED <<clock, createTime, tasks, cancelCalls>>
  BY DEF Cancel, contextVars
<1>3. todo[t] \in Seq(Ops) /\ todo[t] # <<>> /\ Head(todo[t]) = Op("cancel", c)
  BY <1>1, <1>2, AtFacts
<1> DEFINE q == <<Op("postStop", c)>>
<1>4. q \in Seq(Ops) /\ ToSet(q) = {Op("postStop", c)}
  BY OpFacts, SingleFacts
<1>5. todo' = [todo EXCEPT ![t] = q \o Tail(@)]
  BY <1>2
<1> HIDE DEF q
<1>6. todo' \in [Threads -> Seq(Ops)] /\ \A u \in Threads : TodoMoves(u)
  <2>1. \A d : Head(todo[t]) # Op("postStop", d)
    BY <1>3, OpFacts
  <2>2. \A d : /\ Op("postStart", d) \notin ToSet(q)
               /\ Op("schedule", d) \notin ToSet(q)
               /\ Op("delete", d) \notin ToSet(q)
    BY <1>4, OpFacts
  <2> QED
    BY <1>1, <1>3, <1>4, <1>5, <2>1, <2>2, HeadReplaced
<1>7. \A d \in Contexts : PhaseMoves(d)
  BY <1>2 DEF PhaseMoves
<1>8. Moves
  BY <1>2, <1>6, <1>7 DEF Moves, TasksMove
<1>9. /\ cancelled' \in [Contexts -> {"never", "unpooled", "unstarted", "started"}]
      /\ \A d \in Contexts : cancelled'[d] = "unstarted" =>
           \/ cancelled[d] = "unstarted"
           \/ d = c /\ c \in Pooled /\ phase[c] = "new"
  <2>1. When(c) \in {"unpooled", "unstarted", "started"}
    BY DEF When
  <2>2. When(c) = "unstarted" => c \in Pooled /\ phase[c] = "new"
    BY DEF When
  <2> HIDE DEF When
  <2> QED
    BY <1>1, <1>2, <2>1, <2>2 DEF TypeOK
<1>10. CancelInv'
  BY <1>1, <1>2, <1>9 DEF CancelInv, Pooled
<1>11. TypeOK' /\ FamilyInv' /\ AnswerInv'
  BY <1>2, <1>6, <1>9 DEF IInv, TypeOK, FamilyInv, AnswerInv
<1> QED
  BY <1>8, <1>10, <1>11, MovesKeep DEF IInv

\* A task is posted: the first of a plan's operations moves to the event thread.
LEMMA PostTaskKeeps ==
  ASSUME IInv, NEW t \in Threads, NEW c \in Contexts, PostTask(t, c)
  PROVE  IInv'
<1> DEFINE s == todo[t]
<1>1. TypeOK /\ ScheduleInv /\ StartInv /\ SlotInv /\ tasks \in Seq(Tasks)
  BY DEF IInv, TypeOK
<1>2. PICK e \in {<<"postStop", "stop">>, <<"postStart", "start">>} :
        At(t, e[1], c) /\ tasks' = Append(tasks, Op(e[2], c))
  BY DEF PostTask
<1>3. /\ todo' = [todo EXCEPT ![t] = Tail(@)]
      /\ UNCHANGED <<waitingFifo, running, Pooled, cancelRequested, phase, told, dialog, answers>>
      /\ UNCHANGED <<clock, createTime, cancelCalls, cancelled>>
  BY DEF PostTask, Done, contextVars, poolVars, Pooled
<1>4. s \in Seq(Ops) /\ s # <<>> /\ Head(s) = Op(e[1], c) /\ Due(t, e[1], c)
  BY <1>1, <1>2, AtFacts
<1>5. todo'[t] = Tail(s) /\ \A u \in Threads \ {t} : todo'[u] = todo[u]
  BY <1>1, <1>3 DEF TypeOK
<1>6. todo[t] = s
  OBVIOUS
<1> HIDE DEF s
<1>7. /\ Tail(s) \in Seq(Ops)
      /\ ToSet(s) = {Head(s)} \cup ToSet(Tail(s))
      /\ \A x : Once(s, x) => Once(Tail(s), x) /\ (x = Head(s) => x \notin ToSet(Tail(s)))
      /\ \A a, b : Before(s, a, b) => (a # Head(s) => Before(Tail(s), a, b) /\ b # Head(s))
  BY <1>4, TailFacts
<1>8. todo' \in [Threads -> Seq(Ops)]
  BY <1>1, <1>3, <1>6, <1>7 DEF TypeOK
<1>9. Op(e[2], c) \in Tasks
  BY OpFacts
<1>10. /\ tasks' \in Seq(Tasks)
       /\ ToSet(tasks') = ToSet(tasks) \cup {Op(e[2], c)}
       /\ \A x : Once(tasks, x) /\ (x = Op(e[2], c) => x \notin ToSet(tasks)) => Once(tasks', x)
       /\ \A a, b : Before(tasks, a, b) /\ (b = Op(e[2], c) => a \in ToSet(tasks))
                      => Before(tasks', a, b)
  BY <1>1, <1>2, <1>9, AppendFacts
<1>11. \A u \in Threads : /\ ToSet(todo'[u]) \subseteq ToSet(todo[u])
                          /\ \A x : Once(todo[u], x) => Once(todo'[u], x)
  BY <1>5, <1>6, <1>7
<1>12. \A d \in Contexts : Op("start", d) = Op(e[2], c) => Due(t, "postStart", d) /\ d = c
  BY <1>4, OpFacts
<1>13. \A d \in Contexts : StartDue(d)' => StartDue(d)
  BY <1>10, <1>11, <1>12 DEF StartDue, Due
<1>14. TypeOK'
  BY <1>1, <1>3, <1>8, <1>10 DEF TypeOK
<1>15. QueueInv' /\ PhaseInv' /\ CancelInv' /\ FamilyInv' /\ AnswerInv'
  BY <1>3, <1>11 DEF IInv, QueueInv, PhaseInv, CancelInv, FamilyInv, AnswerInv, Due
<1>16. ScheduleInv'
  BY <1>1, <1>3, <1>11, <1>13 DEF ScheduleInv, Due
<1>17. StartInv'
  <2> SUFFICES ASSUME NEW d \in Contexts
               PROVE  /\ StartDue(d)' => d \notin ToSet(waitingFifo') /\ phase'[d] \in {"new", "end"}
                      /\ Once(tasks', Op("start", d))
                      /\ \A u \in Threads :
                           /\ Once(todo'[u], Op("postStart", d))
                           /\ Due(u, "postStart", d)' =>
                                /\ Op("start", d) \notin ToSet(tasks')
                                /\ \A v \in Threads : Due(v, "postStart", d)' => v = u
    BY DEF StartInv
  <2>1. /\ StartDue(d) => d \notin ToSet(waitingFifo) /\ phase[d] \in {"new", "end"}
        /\ Once(tasks, Op("start", d))
        /\ \A u \in Threads :
             /\ Once(todo[u], Op("postStart", d))
             /\ Due(u, "postStart", d) =>
                  /\ Op("start", d) \notin ToSet(tasks)
                  /\ \A v \in Threads : Due(v, "postStart", d) => v = u
    BY <1>1 DEF StartInv
  <2>2. \A u \in Threads : Due(u, "postStart", d)' => Due(u, "postStart", d)
    BY <1>11 DEF Due
  <2>3. Once(tasks', Op("start", d))
    BY <1>10, <1>12, <2>1
  <2>4. ASSUME NEW u \in Threads, Due(u, "postStart", d)'
        PROVE  Op("start", d) # Op(e[2], c)
    <3> SUFFICES ASSUME Op("start", d) = Op(e[2], c)
                 PROVE  FALSE
      OBVIOUS
    <3>1. u = t /\ Head(s) = Op("postStart", d)
      BY <1>4, <1>12, <2>1, <2>2, <2>4, OpFacts
    <3>2. Op("postStart", d) \notin ToSet(Tail(s))
      BY <1>6, <1>7, <2>1, <3>1
    <3> QED
      BY <1>5, <2>4, <3>1, <3>2 DEF Due
  <2> QED
    BY <1>3, <1>10, <1>11, <1>13, <2>1, <2>2, <2>3, <2>4
<1>18. SlotInv'
  <2> SUFFICES ASSUME NEW x \in Requests \cap running, NEW y \in Requests \cap running,
                      x # y, Contends(x, y)
               PROVE  Settled(x)' \/ Settled(y)' \/ Ahead(x, y)' \/ Ahead(y, x)'
    BY <1>3 DEF SlotInv
  <2>1. Settled(x) \/ Settled(y) \/ Ahead(x, y) \/ Ahead(y, x)
    BY <1>1 DEF SlotInv
  <2>2. \A z : Settled(z)' <=> Settled(z)
    BY <1>3 DEF Settled
  <2>3. ASSUME NEW a \in Contexts, NEW b \in Contexts, Ahead(a, b)
        PROVE  Ahead(a, b)'
    <3> DEFINE ps == Op("postStop", a)
               pb == Op("postStart", b)
    <3>1. Head(s) = pb => Op("stop", a) \in ToSet(tasks)
      <4>1. Head(s) = pb => Head(s) # ps
        BY OpFacts
      <4>2. Head(s) = pb => Due(t, "postStart", b)
        BY <1>6, <1>7 DEF Due
      <4>3. Before(s, ps, pb) => (ps # Head(s) => pb # Head(s))
        BY <1>7
      <4> QED
        BY <1>6, <2>3, <4>1, <4>2, <4>3 DEF Ahead
    <3>2. Before(tasks', Op("stop", a), Op("start", b))
      <4>1. Op("start", b) = Op(e[2], c) => Head(s) = pb
        BY <1>4, OpFacts
      <4> QED
        BY <1>10, <2>3, <3>1, <4>1 DEF Ahead
    <3>3. ASSUME NEW u \in Threads, Due(u, "postStart", b)'
          PROVE  Op("stop", a) \in ToSet(tasks') \/ Before(todo'[u], ps, pb)
      <4>1. Op("stop", a) \in ToSet(tasks) \/ Before(todo[u], ps, pb)
        BY <1>11, <2>3, <3>3 DEF Ahead, Due
      <4>2. Head(s) = ps => Op(e[2], c) = Op("stop", a)
        BY <1>4, OpFacts
      <4>3. u = t /\ Before(s, ps, pb) /\ ps # Head(s) => Before(todo'[u], ps, pb)
        BY <1>5, <1>7
      <4> QED
        BY <1>5, <1>6, <1>10, <4>1, <4>2, <4>3
    <3> QED
      BY <1>3, <2>3, <3>2, <3>3 DEF Ahead
  <2> QED
    BY <2>1, <2>2, <2>3, ContextFacts
<1> QED
  BY <1>14, <1>15, <1>16, <1>17, <1>18 DEF IInv

-------------------------------------------------------------------------------
(* The admission round keeps the invariant.                                *)

\* Thread t is at op for c and goes on with a round over the queue fifo, of contexts
\* that were never admitted, beside run; whoever left the pool has ended.
Round(t, op, c, fifo, run) ==
  /\ At(t, op, c) /\ op \notin {"postStop", "postStart"}
  /\ fifo \in Seq(Contexts) /\ Distinct(fifo)
  /\ run \subseteq running
  /\ \A d \in ToSet(fifo) :
       /\ d \notin running /\ phase[d] \in {"new", "end"} /\ ~StartDue(d)
       /\ \A u \in Threads : Due(u, "schedule", d) => op = "schedule" /\ d = c
  /\ \A d \in Pooled : d \in run \cup ToSet(fifo) \/ phase[d] = "end"
  /\ PromoteWaiting(t, fifo, run)
  /\ UNCHANGED <<clock, createTime, cancelRequested, tasks, contextVars, cancelCalls, cancelled>>

\* What a round does to the queue, the running contexts and the thread's list.
Outcome(t, op, c, fifo, run, plan) ==
  LET A == Admitted(fifo, run)
      V == Victims(fifo, run)
      s == todo[t]
  IN  /\ A \subseteq ToSet(fifo)
      /\ waitingFifo' \in Seq(Contexts) /\ Distinct(waitingFifo')
      /\ ToSet(waitingFifo') = ToSet(fifo) \ A
      /\ running' = run \cup A /\ IsFiniteSet(running') /\ running' \subseteq Contexts
      /\ ToSet(plan) = {Op("postStop", d) : d \in V} \cup {Op("postStart", d) : d \in A}
      /\ \A d : Once(plan, Op("postStart", d))
      /\ \A v \in V : \A d : Before(plan, Op("postStop", v), Op("postStart", d))
      /\ s \in Seq(Ops) /\ s # <<>> /\ Head(s) = Op(op, c)
      /\ todo' = [todo EXCEPT ![t] = plan \o Tail(s)]

LEMMA RoundFacts ==
  ASSUME IInv, NEW t \in Threads, NEW op, NEW c \in Contexts, NEW fifo, NEW run,
         Round(t, op, c, fifo, run)
  PROVE  \E plan \in Seq(Ops) : Outcome(t, op, c, fifo, run, plan)
<1> DEFINE A == Admitted(fifo, run)
           V == Victims(fifo, run)
<1>1. /\ TypeOK /\ fifo \in Seq(Contexts) /\ Distinct(fifo)
      /\ run \subseteq Contexts /\ IsFiniteSet(run)
  <2>1. TypeOK /\ fifo \in Seq(Contexts) /\ Distinct(fifo) /\ run \subseteq running
    BY DEF IInv, Round
  <2>2. running \subseteq Contexts /\ IsFiniteSet(running)
    BY <2>1 DEF TypeOK
  <2> QED
    BY <2>1, <2>2, FS_Subset
<1>2. PICK plan \in Plans(fifo, run) : todo' = [todo EXCEPT ![t] = plan \o Tail(todo[t])]
  BY DEF Round, PromoteWaiting
<1>3. /\ plan \in Seq(Ops)
      /\ ToSet(plan) = {Op("postStop", d) : d \in V} \cup {Op("postStart", d) : d \in A}
      /\ \A d : Once(plan, Op("postStart", d))
      /\ \A v \in V : \A d : Before(plan, Op("postStop", v), Op("postStart", d))
  BY <1>1, PlanFacts
<1>4. A \subseteq ToSet(fifo) /\ IsFiniteSet(ToSet(fifo)) /\ ToSet(fifo) \subseteq Contexts
  BY <1>1, AdmissionFacts, ToSetFinite
<1> HIDE DEF A, V
<1>5. /\ waitingFifo' \in Seq(Contexts) /\ Distinct(waitingFifo')
      /\ ToSet(waitingFifo') = ToSet(fifo) \ A
  <2>1. waitingFifo' = Keep(fifo, ToSet(fifo) \ A)
    BY DEF Round, PromoteWaiting, A
  <2>2. /\ Keep(fifo, ToSet(fifo) \ A) \in Seq(Contexts)
        /\ ToSet(Keep(fifo, ToSet(fifo) \ A)) = ToSet(fifo) \cap (ToSet(fifo) \ A)
        /\ Distinct(fifo) => Distinct(Keep(fifo, ToSet(fifo) \ A))
    BY <1>1, KeepFacts
  <2> QED
    BY <1>1, <2>1, <2>2
<1>6. running' = run \cup A /\ IsFiniteSet(running') /\ running' \subseteq Contexts
  <2>1. running' = run \cup A
    BY DEF Round, PromoteWaiting, A
  <2>2. IsFiniteSet(A)
    BY <1>4, FS_Subset
  <2> QED
    BY <1>1, <1>4, <2>1, <2>2, FS_Union
<1>7. todo[t] \in Seq(Ops) /\ todo[t] # <<>> /\ Head(todo[t]) = Op(op, c)
  BY <1>1, AtFacts DEF Round
<1> QED
  BY <1>2, <1>3, <1>4, <1>5, <1>6, <1>7 DEF A, V, Outcome

LEMMA RoundKeeps ==
  ASSUME IInv, NEW t \in Threads, NEW op, NEW c \in Contexts, NEW fifo, NEW run,
         Round(t, op, c, fifo, run)
  PROVE  IInv'
<1> DEFINE A == Admitted(fifo, run)
           V == Victims(fifo, run)
           s == todo[t]
<1>0. PICK plan \in Seq(Ops) : Outcome(t, op, c, fifo, run, plan)
  BY RoundFacts
<1>1. /\ plan \in Seq(Ops)
      /\ A \subseteq ToSet(fifo)
      /\ waitingFifo' \in Seq(Contexts) /\ Distinct(waitingFifo')
      /\ ToSet(waitingFifo') = ToSet(fifo) \ A
      /\ running' = run \cup A /\ IsFiniteSet(running') /\ running' \subseteq Contexts
      /\ ToSet(plan) = {Op("postStop", d) : d \in V} \cup {Op("postStart", d) : d \in A}
      /\ \A d : Once(plan, Op("postStart", d))
      /\ \A v \in V : \A d : Before(plan, Op("postStop", v), Op("postStart", d))
      /\ s \in Seq(Ops) /\ s # <<>> /\ Head(s) = Op(op, c)
      /\ todo' = [todo EXCEPT ![t] = plan \o Tail(s)]
  BY <1>0 DEF Outcome
<1>2. /\ TypeOK /\ QueueInv /\ PhaseInv /\ ScheduleInv /\ StartInv /\ SlotInv /\ CancelInv
      /\ FamilyInv /\ AnswerInv
  BY DEF IInv
<1>3. /\ op \notin {"postStop", "postStart"} /\ run \subseteq running
      /\ \A d \in ToSet(fifo) :
           /\ d \notin running /\ phase[d] \in {"new", "end"} /\ ~StartDue(d)
           /\ \A u \in Threads : Due(u, "schedule", d) => op = "schedule" /\ d = c
      /\ \A d \in Pooled : d \in run \cup ToSet(fifo) \/ phase[d] = "end"
      /\ UNCHANGED <<phase, told, dialog, answers>>
      /\ UNCHANGED <<clock, createTime, cancelRequested, tasks, cancelCalls, cancelled>>
  BY DEF Round, contextVars
<1>4. /\ \A x \in run, y \in A : Contends(x, y) => x \in V
      /\ \A x, y \in A : x # y /\ Contends(x, y) => x \in V \/ y \in V
  <2>1. fifo \in Seq(Contexts) /\ Distinct(fifo)
    BY DEF Round
  <2> QED
    BY <2>1, AdmissionFacts
<1>5. s = todo[t]
  OBVIOUS
<1> HIDE DEF A, V, s
<1> DEFINE r == plan \o Tail(s)
<1>6. /\ Tail(s) \in Seq(Ops)
      /\ ToSet(s) = {Head(s)} \cup ToSet(Tail(s))
      /\ \A x : Once(s, x) => Once(Tail(s), x) /\ (x = Head(s) => x \notin ToSet(Tail(s)))
      /\ \A a, b : Before(s, a, b) => (a # Head(s) => Before(Tail(s), a, b) /\ b # Head(s))
  BY <1>1, TailFacts
<1>7. /\ r \in Seq(Ops)
      /\ ToSet(r) = ToSet(plan) \cup ToSet(Tail(s))
      /\ \A x : Once(plan, x) /\ Once(Tail(s), x) /\ ~(x \in ToSet(plan) /\ x \in ToSet(Tail(s)))
                  => Once(r, x)
      /\ \A a, b : Before(plan, a, b) /\ (Before(Tail(s), a, b) \/ a \in ToSet(plan)) => Before(r, a, b)
  BY <1>6, ConcatFacts
<1>8. todo' = [todo EXCEPT ![t] = r]
  BY <1>1
<1> HIDE DEF r
<1>9. /\ todo' \in [Threads -> Seq(Ops)]
      /\ todo'[t] = r /\ \A u \in Threads \ {t} : todo'[u] = todo[u]
  BY <1>2, <1>7, <1>8 DEF TypeOK
<1>10. /\ \A d : Op("postStart", d) \in ToSet(plan) <=> d \in A
       /\ \A d \in V : Op("postStop", d) \in ToSet(plan)
       /\ \A d : Op("schedule", d) \notin ToSet(plan) /\ Op("delete", d) \notin ToSet(plan)
  BY <1>1, OpFacts
<1>11. Pooled' = run \cup ToSet(fifo)
  BY <1>1 DEF Pooled
<1>12. \A u \in Threads, d \in Contexts :
         /\ Due(u, "schedule", d)' => Due(u, "schedule", d)
         /\ Due(u, "delete", d)' => Due(u, "delete", d)
         /\ Due(u, "postStart", d)' => Due(u, "postStart", d) \/ (u = t /\ d \in A)
  BY <1>5, <1>6, <1>7, <1>9, <1>10 DEF Due
<1>13. \A d \in Contexts : StartDue(d)' => StartDue(d) \/ d \in A
  BY <1>3, <1>12 DEF StartDue
<1>14. TypeOK'
  BY <1>1, <1>2, <1>3, <1>9 DEF TypeOK
<1>15. QueueInv'
  BY <1>1, <1>3 DEF QueueInv
<1>16. PhaseInv'
  <2> SUFFICES ASSUME NEW d \in Contexts
               PROVE  /\ d \in Pooled' => phase[d] # "none"
                      /\ d \in ToSet(waitingFifo') => phase[d] \in {"new", "end"}
                      /\ phase[d] \in {"run", "done"} => d \in running'
                      /\ \A u \in Threads : Due(u, "delete", d)' => phase[d] = "end"
    BY <1>3 DEF PhaseInv
  <2>1. /\ d \in Pooled => phase[d] # "none"
        /\ phase[d] \in {"run", "done"} => d \in running
        /\ \A u \in Threads : Due(u, "delete", d) => phase[d] = "end"
        /\ d \in running => d \in Pooled
    BY <1>2 DEF PhaseInv, Pooled
  <2> QED
    BY <1>1, <1>3, <1>11, <1>12, <2>1
<1>17. ScheduleInv'
  <2> SUFFICES ASSUME NEW d \in Contexts, NEW u \in Threads
               PROVE  /\ Due(u, "schedule", d)' =>
                           u = Home(d) /\ phase[d] = "new" /\ d \notin Pooled' /\ ~StartDue(d)'
                      /\ Once(todo'[u], Op("schedule", d))
    BY <1>3 DEF ScheduleInv
  <2>1. /\ Due(u, "schedule", d) => u = Home(d) /\ phase[d] = "new" /\ d \notin Pooled /\ ~StartDue(d)
        /\ Due(t, "schedule", d) => t = Home(d)
        /\ Once(todo[u], Op("schedule", d))
    BY <1>2 DEF ScheduleInv
  <2>2. Once(todo'[u], Op("schedule", d))
    <3>1. Once(plan, Op("schedule", d))
      BY <1>10, AbsentFacts
    <3> QED
      BY <1>5, <1>6, <1>7, <1>9, <1>10, <2>1, <3>1
  <2>3. ASSUME Due(u, "schedule", d)'
        PROVE  d \notin ToSet(fifo)
    <3> SUFFICES ASSUME d \in ToSet(fifo)
                 PROVE  FALSE
      OBVIOUS
    <3>1. Head(s) = Op("schedule", d) /\ Due(t, "schedule", d)
      BY <1>1, <1>3, <1>5, <1>6, <1>12, <2>3 DEF Due
    <3>2. u = t
      BY <1>12, <2>1, <2>3, <3>1
    <3>3. Op("schedule", d) \notin ToSet(Tail(s))
      BY <1>5, <1>6, <2>1, <3>1, <3>2
    <3> QED
      BY <1>7, <1>9, <1>10, <2>3, <3>2, <3>3 DEF Due
  <2>4. run \subseteq Pooled
    BY <1>3 DEF Pooled
  <2> QED
    BY <1>1, <1>11, <1>12, <1>13, <2>1, <2>2, <2>3, <2>4
<1>18. StartInv'
  <2> SUFFICES ASSUME NEW d \in Contexts
               PROVE  /\ StartDue(d)' => d \notin ToSet(waitingFifo') /\ phase[d] \in {"new", "end"}
                      /\ Once(tasks, Op("start", d))
                      /\ \A u \in Threads :
                           /\ Once(todo'[u], Op("postStart", d))
                           /\ Due(u, "postStart", d)' =>
                                /\ Op("start", d) \notin ToSet(tasks)
                                /\ \A v \in Threads : Due(v, "postStart", d)' => v = u
    BY <1>3 DEF StartInv
  <2>1. /\ StartDue(d) => phase[d] \in {"new", "end"}
        /\ Once(tasks, Op("start", d))
        /\ \A u \in Threads :
             /\ Once(todo[u], Op("postStart", d))
             /\ Due(u, "postStart", d) =>
                  /\ Op("start", d) \notin ToSet(tasks)
                  /\ \A v \in Threads : Due(v, "postStart", d) => v = u
    BY <1>2 DEF StartInv
  <2>2. d \in A => /\ Op("start", d) \notin ToSet(tasks)
                   /\ \A u \in Threads : ~Due(u, "postStart", d)
    BY <1>1, <1>3 DEF StartDue
  <2>3. Once(r, Op("postStart", d))
    <3>1. ~(Op("postStart", d) \in ToSet(plan) /\ Op("postStart", d) \in ToSet(Tail(s)))
      BY <1>5, <1>6, <1>10, <2>2 DEF Due
    <3> QED
      BY <1>1, <1>5, <1>6, <1>7, <2>1, <3>1
  <2>4. StartDue(d)' => d \notin ToSet(waitingFifo') /\ phase[d] \in {"new", "end"}
    BY <1>1, <1>3, <1>13, <2>1
  <2>5. ASSUME NEW u \in Threads, Due(u, "postStart", d)'
        PROVE  /\ Op("start", d) \notin ToSet(tasks)
               /\ \A v \in Threads : Due(v, "postStart", d)' => v = u
    BY <1>12, <2>1, <2>2, <2>5
  <2>6. \A u \in Threads : Once(todo'[u], Op("postStart", d))
    BY <1>9, <2>1, <2>3
  <2> QED
    BY <2>1, <2>4, <2>5, <2>6
<1>19. CancelInv' /\ FamilyInv' /\ AnswerInv'
  BY <1>2, <1>3, <1>11 DEF CancelInv, FamilyInv, AnswerInv
<1>20. SlotInv'
  <2> SUFFICES ASSUME NEW x \in Requests \cap running', NEW y \in Requests \cap running',
                      x # y, Contends(x, y)
               PROVE  Settled(x)' \/ Settled(y)' \/ Ahead(x, y)' \/ Ahead(y, x)'
    BY DEF SlotInv
  <2>1. \A z : Settled(z)' <=> Settled(z)
    BY <1>3 DEF Settled
  <2>2. ASSUME NEW a \in V, NEW b \in A
        PROVE  Settled(b)' \/ Ahead(a, b)'
    <3>1. b \in ToSet(fifo) /\ phase[b] \in {"new", "end"} /\ ~StartDue(b)
      BY <1>1, <1>3, <2>2
    <3>2. Before(tasks, Op("stop", a), Op("start", b))
      BY <3>1, AbsentFacts DEF StartDue
    <3>3. Before(r, Op("postStop", a), Op("postStart", b))
      BY <1>1, <1>7, <1>10, <2>2
    <3>4. \A u \in Threads : Due(u, "postStart", b)' => u = t
      BY <1>9, <3>1 DEF StartDue, Due
    <3> QED
      BY <1>3, <1>9, <3>1, <3>2, <3>3, <3>4 DEF Settled, Ahead
  <2>3. ASSUME NEW a \in run, NEW b \in run, b \in Contexts, Ahead(a, b)
        PROVE  Ahead(a, b)'
    <3>1. b \notin A
      BY <1>1, <1>3, <2>3
    <3>2. Before(plan, Op("postStop", a), Op("postStart", b))
      BY <1>10, <3>1, AbsentFacts
    <3>3. Head(s) # Op("postStop", a)
      BY <1>1, <1>3, OpFacts
    <3>4. Before(s, Op("postStop", a), Op("postStart", b))
            => Before(r, Op("postStop", a), Op("postStart", b))
      BY <1>6, <1>7, <3>2, <3>3
    <3>5. ASSUME NEW u \in Threads, Due(u, "postStart", b)'
          PROVE  \/ Op("stop", a) \in ToSet(tasks)
                 \/ Before(todo'[u], Op("postStop", a), Op("postStart", b))
      BY <1>5, <1>9, <1>12, <2>3, <3>1, <3>4, <3>5 DEF Ahead
    <3> QED
      BY <1>3, <2>3, <3>5 DEF Ahead
  <2>4. x \in Contexts /\ y \in Contexts /\ Contends(y, x)
    BY ContextFacts, PolicyFacts
  <2>5. CASE x \in run /\ y \in run
    <3>1. Settled(x) \/ Settled(y) \/ Ahead(x, y) \/ Ahead(y, x)
      BY <1>2, <1>3, <2>5 DEF SlotInv
    <3> QED
      BY <2>1, <2>3, <2>4, <2>5, <3>1
  <2>6. CASE x \in A \/ y \in A
    <3>1. x \in run \cup A /\ y \in run \cup A
      BY <1>1
    <3>2. \/ x \in run /\ y \in A /\ x \in V
          \/ y \in run /\ x \in A /\ y \in V
          \/ x \in A /\ y \in A /\ (x \in V \/ y \in V)
      BY <1>4, <2>4, <2>6, <3>1
    <3> QED
      BY <2>2, <3>2
  <2> QED
    BY <1>1, <2>5, <2>6
<1> QED
  BY <1>14, <1>15, <1>16, <1>17, <1>18, <1>19, <1>20 DEF IInv

LEMMA WaiterFacts ==
  ASSUME IInv, NEW d \in ToSet(waitingFifo)
  PROVE  /\ d \in Contexts /\ d \in Pooled /\ d \notin running
         /\ phase[d] \in {"new", "end"} /\ ~StartDue(d)
         /\ \A u \in Threads : ~Due(u, "schedule", d)
<1>1. waitingFifo \in Seq(Contexts)
  BY DEF IInv, TypeOK
<1>2. d \in Contexts
  BY <1>1, ToSetFinite
<1>3. d \in Pooled
  BY DEF Pooled
<1> QED
  BY <1>2, <1>3 DEF IInv, QueueInv, PhaseInv, StartInv, ScheduleInv

\* Schedule, NotifyPreemptStateChanged and Delete go on with a round.
LEMMA AreRounds ==
  ASSUME IInv, NEW t \in Threads, NEW c \in Contexts
  PROVE  /\ ScheduleAdmits(t, c) => Round(t, "schedule", c, Append(waitingFifo, c), running)
         /\ NotifyPreemptStateChanged(t, c) => Round(t, "notify", c, waitingFifo, running)
         /\ Delete(t, c) /\ c \in Pooled =>
              Round(t, "delete", c, Keep(waitingFifo, ToSet(waitingFifo) \ {c}), running \ {c})
<1>1. /\ TypeOK /\ waitingFifo \in Seq(Contexts) /\ Distinct(waitingFifo)
      /\ ScheduleInv /\ PhaseInv
  BY DEF IInv, TypeOK, QueueInv
<1>2. \A d \in ToSet(waitingFifo) :
        /\ d \in Contexts /\ d \in Pooled /\ d \notin running
        /\ phase[d] \in {"new", "end"} /\ ~StartDue(d)
        /\ \A u \in Threads : ~Due(u, "schedule", d)
  BY WaiterFacts
<1>3. Pooled = running \cup ToSet(waitingFifo)
  BY DEF Pooled
<1>4. ASSUME ScheduleAdmits(t, c)
      PROVE  Round(t, "schedule", c, Append(waitingFifo, c), running)
  <2> DEFINE q == Append(waitingFifo, c)
  <2>1. At(t, "schedule", c) /\ c \notin Pooled /\ PromoteWaiting(t, q, running)
    BY <1>4 DEF ScheduleAdmits
  <2>2. Due(t, "schedule", c)
    BY <1>1, <2>1, AtFacts
  <2>3. phase[c] = "new" /\ ~StartDue(c)
    BY <1>1, <2>2 DEF ScheduleInv
  <2>4. /\ q \in Seq(Contexts) /\ ToSet(q) = ToSet(waitingFifo) \cup {c}
        /\ \A x : Once(waitingFifo, x) /\ (x = c => x \notin ToSet(waitingFifo)) => Once(q, x)
    BY <1>1, AppendFacts
  <2>5. \A x : Once(waitingFifo, x)
    BY <1>1 DEF Distinct, Once
  <2> HIDE DEF q
  <2>6. \A x : Once(q, x)
    BY <1>3, <2>1, <2>4, <2>5
  <2>7. Distinct(q)
    BY <2>6 DEF Distinct, Once
  <2>8. Round(t, "schedule", c, q, running)
    BY <1>2, <1>3, <1>4, <2>1, <2>3, <2>4, <2>7 DEF Round, ScheduleAdmits
  <2> QED
    BY <2>8 DEF q
<1>5. ASSUME NotifyPreemptStateChanged(t, c)
      PROVE  Round(t, "notify", c, waitingFifo, running)
  BY <1>1, <1>2, <1>3, <1>5 DEF Round, NotifyPreemptStateChanged
<1>6. ASSUME Delete(t, c), c \in Pooled
      PROVE  Round(t, "delete", c, Keep(waitingFifo, ToSet(waitingFifo) \ {c}), running \ {c})
  <2> DEFINE q == Keep(waitingFifo, ToSet(waitingFifo) \ {c})
  <2>1. At(t, "delete", c) /\ PromoteWaiting(t, q, running \ {c})
    BY <1>6 DEF Delete
  <2>2. Due(t, "delete", c)
    BY <1>1, <2>1, AtFacts
  <2>3. phase[c] = "end"
    BY <1>1, <2>2 DEF PhaseInv
  <2>4. /\ q \in Seq(Contexts)
        /\ ToSet(q) = ToSet(waitingFifo) \cap (ToSet(waitingFifo) \ {c})
        /\ Distinct(waitingFifo) => Distinct(q)
    BY <1>1, KeepFacts
  <2> HIDE DEF q
  <2>5. Round(t, "delete", c, q, running \ {c})
    BY <1>1, <1>2, <1>3, <1>6, <2>1, <2>3, <2>4 DEF Round, Delete
  <2> QED
    BY <2>5 DEF q
<1> QED
  BY <1>4, <1>5, <1>6

LEMMA InitInvariant ==
  ASSUME Init
  PROVE  IInv
<1>1. /\ <<>> \in Seq(Contexts) /\ <<>> \in Seq(Tasks) /\ <<>> \in Seq(Ops) /\ <<>> \in Seq(Codes)
      /\ ToSet(<<>>) = {} /\ \A e : Once(<<>>, e)
  BY EmptyFacts
<1>2. waitingFifo = <<>> /\ tasks = <<>> /\ running = {} /\ \A t \in Threads : todo[t] = <<>>
  BY DEF Init
<1>3. IsFiniteSet({}) /\ 0 \in 0..MaxCancels
  BY FS_EmptySet, PoolAssumption
<1>4. TypeOK
  BY <1>1, <1>3 DEF Init, TypeOK
<1>5. Distinct(<<>>)
  BY DEF Distinct
<1>6. /\ \A t \in Threads : \A op, c : ~Due(t, op, c)
      /\ \A c : ~StartDue(c)
  BY <1>1, <1>2 DEF Due, StartDue
<1>7. QueueInv /\ PhaseInv /\ ScheduleInv /\ StartInv
  BY <1>1, <1>2, <1>5, <1>6 DEF Init, QueueInv, PhaseInv, ScheduleInv, StartInv, Pooled
<1>8. CancelInv /\ AnswerInv /\ SlotInv
  BY DEF Init, CancelInv, AnswerInv, SlotInv
<1>9. FamilyInv
  BY ContextFacts DEF Init, FamilyInv, ChildrenOf
<1> QED
  BY <1>4, <1>7, <1>8, <1>9 DEF IInv

\* Every step of the pool, of its threads and of its contexts keeps the invariant.
LEMMA NextInvariant ==
  ASSUME IInv, [Next]_vars
  PROVE  IInv'
<1>1. ASSUME NEW t \in Threads, NEW c \in Contexts, ScheduleAdmits(t, c)
      PROVE  IInv'
  BY <1>1, AreRounds, RoundKeeps
<1>2. ASSUME NEW t \in Threads, NEW c \in Contexts, ScheduleRefuses(t, c)
      PROVE  IInv'
  BY <1>2, ScheduleRefusesKeeps
<1>3. ASSUME NEW t \in Threads, NEW c \in Contexts, NotifyPreemptStateChanged(t, c)
      PROVE  IInv'
  BY <1>3, AreRounds, RoundKeeps
<1>4. ASSUME NEW t \in Threads, NEW c \in Contexts, Delete(t, c)
      PROVE  IInv'
  <2>1. CASE c \in Pooled
    BY <1>4, <2>1, AreRounds, RoundKeeps
  <2>2. CASE c \notin Pooled
    BY <1>4, <2>2, DeleteNothingKeeps
  <2> QED
    BY <2>1, <2>2
<1>5. ASSUME NEW t \in Threads, NEW c \in Contexts, Cancel(t, c)
      PROVE  IInv'
  BY <1>5, CancelKeeps
<1>6. ASSUME NEW t \in Threads, NEW c \in Contexts, PostTask(t, c)
      PROVE  IInv'
  BY <1>6, PostTaskKeeps
<1>7. ASSUME NEW r \in Requests, Create(r)
      PROVE  IInv'
  BY <1>7, CreateKeeps
<1>8. ASSUME NEW c \in Contexts, RunTask(c)
      PROVE  IInv'
  BY <1>8, TooLateKeeps, StopRunningKeeps, TaskReportKeeps, StartContextKeeps, StartSudoKeeps
     DEF RunTask
<1>9. ASSUME NEW t \in {EventThread, TimerThread}, NEW c \in Contexts, NEW code \in Codes,
             Finish(t, c, code)
      PROVE  IInv'
  BY <1>9, FinishKeeps
<1>10. ASSUME NEW t \in {EventThread, TimerThread}, NEW c \in Contexts, Release(t, c)
       PROVE  IInv'
  BY <1>10, ReleaseKeeps
<1>11. ASSUME (\E c \in Contexts : RequestCancel(c)) \/ CancelAll
       PROVE  IInv'
  BY <1>11, CallKeeps
<1>12. CASE UNCHANGED vars
  BY <1>12 DEF vars, poolVars, contextVars, IInv, TypeOK, QueueInv, PhaseInv, ScheduleInv, StartInv,
               CancelInv, FamilyInv, AnswerInv, SlotInv, Due, StartDue, Settled, Ahead, Pooled
<1> QED
  BY <1>1, <1>2, <1>3, <1>4, <1>5, <1>6, <1>7, <1>8, <1>9, <1>10, <1>11, <1>12 DEF Next, Step

-------------------------------------------------------------------------------
(* The theorems.                                                           *)

\* The invariant holds for any requests, limits and numbers of cancellations.
THEOREM PoolInvariant == Spec => []IInv
<1>1. Init => IInv
  BY InitInvariant
<1>2. IInv /\ [Next]_vars => IInv'
  BY NextInvariant
<1> QED
  BY <1>1, <1>2, PTL DEF Spec

\* Two requests that contend for a user's PIN are never under way together unless
\* one of them was told to stop: ExecutePlan posts the stops in front of the starts,
\* and each waiter is judged against the waiters in front of it.
THEOREM SlotTheorem == Spec => []PinSlotExclusive
<1>1. IInv => PinSlotExclusive
  <2> SUFFICES ASSUME IInv, NEW x \in Requests, NEW y \in Requests,
                      x # y, phase[x] = "run", phase[y] = "run", Contends(x, y)
               PROVE  x \in told \/ y \in told
    BY DEF PinSlotExclusive
  <2>1. x \in running /\ y \in running
    BY ContextFacts DEF IInv, PhaseInv
  <2> QED
    BY <2>1 DEF IInv, SlotInv, Settled, Ahead
<1> QED
  BY <1>1, PoolInvariant, PTL

\* A context cancelled between its pooling and its start is never started: Cancel
\* leaves its mark in cancelRequestedIds_ until the context was stopped.
THEOREM CancelTheorem == Spec => []CancelledNeverStarts
<1>1. IInv => CancelledNeverStarts
  BY DEF IInv, CancelInv, CancelledNeverStarts
<1> QED
  BY <1>1, PoolInvariant, PTL

\* The child of a sudo never outlives the sudo, whoever ends it.
THEOREM ChildTheorem == Spec => []ChildHasParent
<1>1. IInv => ChildHasParent
  BY ContextFacts DEF IInv, FamilyInv, ChildHasParent
<1> QED
  BY <1>1, PoolInvariant, PTL

\* In a round a waiter is admitted in front of a contending one only when that one is
\* displaced, and then the round's thread has its stop to post.
LEMMA RoundOrder ==
  ASSUME IInv, NEW t \in Threads, NEW op, NEW c \in Contexts, NEW fifo, NEW run,
         Round(t, op, c, fifo, run),
         NEW k \in DOMAIN fifo, NEW l \in DOMAIN fifo, k < l,
         Contends(fifo[l], fifo[k]), fifo[l] \in running'
  PROVE  Op("postStop", fifo[k]) \in ToSet(todo'[t])
<1>1. PICK plan \in Seq(Ops) : Outcome(t, op, c, fifo, run, plan)
  BY RoundFacts
<1>2. fifo[l] \in Admitted(fifo, run)
  <2>1. fifo[l] \in ToSet(fifo)
    BY DEF ToSet
  <2>2. running' = run \cup Admitted(fifo, run)
    BY <1>1 DEF Outcome
  <2> QED
    BY <2>1, <2>2 DEF Round
<1>3. fifo[k] \in Victims(fifo, run)
  <2>1. fifo \in Seq(Contexts) /\ Distinct(fifo)
    BY DEF Round
  <2> QED
    BY <1>2, <2>1, AdmissionFacts
<1>4. Op("postStop", fifo[k]) \in ToSet(plan)
  BY <1>1, <1>3 DEF Outcome
<1>5. /\ todo[t] \in Seq(Ops) /\ todo[t] # <<>>
      /\ todo' = [todo EXCEPT ![t] = plan \o Tail(todo[t])]
  BY <1>1 DEF Outcome
<1> DEFINE r == Tail(todo[t])
<1>6. r \in Seq(Ops)
  BY <1>5, TailFacts
<1>7. todo'[t] = plan \o r
  BY <1>5 DEF IInv, TypeOK
<1> HIDE DEF r
<1>8. ToSet(plan \o r) = ToSet(plan) \cup ToSet(r)
  BY <1>6, ConcatFacts
<1> QED
  BY <1>4, <1>7, <1>8

\* A request never overtakes a contending one that was queued before it, unless the
\* same admission round stops that one (PromoteWaitingLocked).
THEOREM QueueTheorem == Spec => NoOvertaking
<1> DEFINE Fair(i, j) == \E t \in Threads : Op("postStop", waitingFifo[i]) \in ToSet(todo'[t])
<1>1. ASSUME IInv, [Next]_vars,
             NEW i \in DOMAIN waitingFifo, NEW j \in DOMAIN waitingFifo, i < j,
             Contends(waitingFifo[j], waitingFifo[i]),
             waitingFifo[j] \in running', waitingFifo[i] \in ToSet(waitingFifo')
      PROVE  Fair(i, j)
  <2>1. waitingFifo[i] \in ToSet(waitingFifo) /\ waitingFifo[j] \in ToSet(waitingFifo)
    BY DEF ToSet
  <2>2. waitingFifo[j] \notin running
    BY <1>1, <2>1, WaiterFacts
  <2>3. waitingFifo \in Seq(Contexts)
    BY <1>1 DEF IInv, TypeOK
  <2>4. ASSUME NEW t \in Threads, NEW c \in Contexts, ScheduleAdmits(t, c)
        PROVE  Fair(i, j)
    <3> DEFINE q == Append(waitingFifo, c)
    <3>1. Round(t, "schedule", c, q, running)
      BY <1>1, <2>4, AreRounds
    <3>2. i \in DOMAIN q /\ j \in DOMAIN q /\ q[i] = waitingFifo[i] /\ q[j] = waitingFifo[j]
      BY <2>3, AppendProperties, LenProperties
    <3> HIDE DEF q
    <3>3. Op("postStop", q[i]) \in ToSet(todo'[t])
      BY <1>1, <3>1, <3>2, RoundOrder
    <3> QED
      BY <3>2, <3>3
  <2>5. ASSUME NEW t \in Threads, NEW c \in Contexts, NotifyPreemptStateChanged(t, c)
        PROVE  Fair(i, j)
    <3>1. Round(t, "notify", c, waitingFifo, running)
      BY <1>1, <2>5, AreRounds
    <3>2. Op("postStop", waitingFifo[i]) \in ToSet(todo'[t])
      BY <1>1, <3>1, RoundOrder
    <3> QED
      BY <3>2
  <2>6. ASSUME NEW t \in Threads, NEW c \in Contexts, Delete(t, c), c \in Pooled
        PROVE  Fair(i, j)
    <3> DEFINE S == ToSet(waitingFifo) \ {c}
               q == Keep(waitingFifo, S)
    <3>1. Round(t, "delete", c, q, running \ {c})
      BY <1>1, <2>6, AreRounds
    <3>2. /\ ToSet(q) = ToSet(waitingFifo) \cap S
          /\ waitingFifo[i] \in S /\ waitingFifo[j] \in S =>
               \E k, l \in DOMAIN q : k < l /\ q[k] = waitingFifo[i] /\ q[l] = waitingFifo[j]
      <4> HIDE DEF S
      <4>1. waitingFifo[i] \in S /\ waitingFifo[j] \in S =>
              \E k, l \in DOMAIN Keep(waitingFifo, S) :
                k < l /\ Keep(waitingFifo, S)[k] = waitingFifo[i] /\ Keep(waitingFifo, S)[l] = waitingFifo[j]
        BY <1>1, <2>3, KeepOrder
      <4>2. ToSet(Keep(waitingFifo, S)) = ToSet(waitingFifo) \cap S
        BY <2>3, KeepFacts
      <4> QED
        BY <4>1, <4>2
    <3> HIDE DEF q, S
    <3>3. PICK plan \in Seq(Ops) : Outcome(t, "delete", c, q, running \ {c}, plan)
      BY <1>1, <3>1, RoundFacts
    <3>4. /\ running' \subseteq running \cup ToSet(q)
          /\ ToSet(waitingFifo') \subseteq ToSet(q)
      <4>1. /\ Admitted(q, running \ {c}) \subseteq ToSet(q)
            /\ running' = (running \ {c}) \cup Admitted(q, running \ {c})
            /\ ToSet(waitingFifo') = ToSet(q) \ Admitted(q, running \ {c})
        BY <3>3 DEF Outcome
      <4> QED
        BY <4>1
    <3>5. waitingFifo[i] \in S /\ waitingFifo[j] \in S
      BY <1>1, <2>2, <3>2, <3>4
    <3>6. PICK k \in DOMAIN q, l \in DOMAIN q : k < l /\ q[k] = waitingFifo[i] /\ q[l] = waitingFifo[j]
      BY <3>2, <3>5
    <3>7. Op("postStop", q[k]) \in ToSet(todo'[t])
      BY <1>1, <3>1, <3>6, RoundOrder
    <3> QED
      BY <3>6, <3>7
  <2>7. running' # running
    BY <1>1, <2>2
  <2>8. ASSUME NEW t \in Threads, Step(t)
        PROVE  Fair(i, j)
    <3>1. PICK c \in Contexts : \/ ScheduleAdmits(t, c)
                                \/ NotifyPreemptStateChanged(t, c)
                                \/ Delete(t, c) /\ c \in Pooled
      BY <2>7, <2>8 DEF Step, ScheduleRefuses, Delete, Cancel, PostTask, poolVars
    <3> QED
      BY <2>4, <2>5, <2>6, <3>1
  <2>9. \E t \in Threads : Step(t)
    BY <1>1, <2>7 DEF Next, vars, poolVars, Create, RunTask, Take, StopTooLate, Stoppable, StopBeforeStart,
                      StopSimple, StopWidget, StopSudo, StartTooLate, Startable, StartFails,
                      StartContext, StartSudo, Finish, Release, RequestCancel, CancelAll
  <2> QED
    BY <2>8, <2>9
<1> DEFINE Goal ==
      \A i, j \in DOMAIN waitingFifo :
        i < j /\ Contends(waitingFifo[j], waitingFifo[i])
              /\ waitingFifo[j] \in running' /\ waitingFifo[i] \in ToSet(waitingFifo')
          => Fair(i, j)
<1>2. IInv /\ [Next]_vars => [Goal]_vars
  BY <1>1
<1> QED
  BY <1>2, PoolInvariant, PTL DEF Spec, NoOvertaking

\* What a step may do to the answers of d: nothing, or the first one.
FirstAnswer(d) ==
  \/ answers'[d] = answers[d]
  \/ \E code \in Codes :
       /\ answers[d] = <<>>
       /\ d \in told /\ Kind(d) = "sudo" => code # "SUCCESS"
       /\ answers'[d] = Append(answers[d], code)

LEMMA ReportAnswers ==
  ASSUME IInv, NEW t, NEW c \in Contexts, NEW code \in Codes, NEW next, Report(t, c, code, next),
         phase[c] \in {"new", "run"},
         Kind(c) = "sudo" => code # "SUCCESS"
  PROVE  \A d \in Contexts : FirstAnswer(d)
<1>1. answers \in [Contexts -> Seq(Codes)] /\ AnswerInv
  BY DEF IInv, TypeOK
<1>2. CASE c \in Children /\ phase[Parent(c)] = "run"
  <2> DEFINE s == Parent(c)
  <2>1. s \in Contexts /\ c # s
    BY <1>2, ContextFacts
  <2>2. answers' = [answers EXCEPT ![c] = Append(@, code), ![s] = Append(@, SudoCode(s, code))]
    BY <1>2 DEF Report
  <2>3. answers[c] = <<>> /\ answers[s] = <<>>
    BY <1>1, <1>2, <2>1 DEF AnswerInv
  <2>4. SudoCode(s, code) \in Codes /\ (s \in told => SudoCode(s, code) # "SUCCESS")
    BY DEF SudoCode, Codes
  <2> HIDE DEF s
  <2>5. /\ answers'[c] = Append(answers[c], code)
        /\ answers'[s] = Append(answers[s], SudoCode(s, code))
        /\ \A d \in Contexts \ {c, s} : answers'[d] = answers[d]
    BY <1>1, <2>1, <2>2
  <2> QED
    BY <2>1, <2>3, <2>4, <2>5 DEF FirstAnswer
<1>3. CASE ~(c \in Children /\ phase[Parent(c)] = "run")
  <2>1. answers' = [answers EXCEPT ![c] = Append(@, code)]
    BY <1>3, Zenon DEF Report
  <2>2. answers[c] = <<>>
    BY <1>1 DEF AnswerInv
  <2> QED
    BY <1>1, <2>1, <2>2 DEF FirstAnswer
<1> QED
  BY <1>2, <1>3

\* A step gives first answers, or tells one context to stop, or neither.
LEMMA StepAnswers ==
  ASSUME IInv, [Next]_vars
  PROVE  \/ told' = told /\ \A d \in Contexts : FirstAnswer(d)
         \/ answers' = answers /\ told \subseteq told'
<1>1. ASSUME UNCHANGED <<told, answers>>
      PROVE  told' = told /\ \A d \in Contexts : FirstAnswer(d)
  BY <1>1 DEF FirstAnswer
<1>2. ASSUME NEW t \in Threads, NEW c \in Contexts, ScheduleRefuses(t, c)
      PROVE  told' = told /\ \A d \in Contexts : FirstAnswer(d)
  <2> DEFINE payer == IF c \in Requests THEN c ELSE Parent(c)
  <2>1. answers' = [answers EXCEPT ![payer] = Append(@, "FAIL")] /\ told' = told /\ At(t, "schedule", c)
    BY <1>2 DEF ScheduleRefuses
  <2>2. Due(t, "schedule", c)
    BY <2>1, AtFacts DEF IInv
  <2>3. phase[c] = "new"
    BY <2>2 DEF IInv, ScheduleInv
  <2>4. payer \in Contexts /\ phase[payer] \in {"new", "run"}
    <3>1. CASE c \in Requests
      BY <2>3, <3>1
    <3>2. CASE c \notin Requests
      <4>1. Parent(c) \in Sudos /\ Parent(c) \in Contexts /\ c \in ChildrenOf(Parent(c))
        BY <3>2, ContextFacts DEF Contexts
      <4> QED
        BY <2>3, <3>2, <4>1 DEF IInv, FamilyInv
    <3> QED
      BY <3>1, <3>2
  <2> HIDE DEF payer
  <2>5. answers[payer] = <<>> /\ answers \in [Contexts -> Seq(Codes)]
    BY <2>4 DEF IInv, AnswerInv, TypeOK
  <2>6. "FAIL" \in Codes /\ "FAIL" # "SUCCESS"
    BY DEF Codes
  <2> QED
    BY <2>1, <2>4, <2>5, <2>6 DEF FirstAnswer
<1>3. ASSUME NEW t \in Threads, Step(t)
      PROVE  told' = told /\ \A d \in Contexts : FirstAnswer(d)
  <2>1. \/ \E c \in Contexts : ScheduleRefuses(t, c)
        \/ UNCHANGED <<told, answers>>
    BY <1>3 DEF Step, ScheduleAdmits, NotifyPreemptStateChanged, Delete, Cancel, PostTask, contextVars
  <2> QED
    BY <1>1, <1>2, <2>1
<1>4. ASSUME NEW c \in Contexts, StopBeforeStart(c) \/ StopWidget(c) \/ StartFails(c)
      PROVE  told' = told /\ \A d \in Contexts : FirstAnswer(d)
  <2>1. \E code \in {"CANCELED", "FAIL"}, next \in {"done", "end"} :
          Report(EventThread, c, code, next) /\ phase[c] \in {"new", "run"} /\ told' = told
    BY <1>4 DEF StopBeforeStart, StopWidget, StartFails, Startable
  <2> QED
    BY <2>1, ReportAnswers DEF Codes
<1>5. ASSUME NEW t, NEW c \in Contexts, NEW code \in Codes, Finish(t, c, code)
      PROVE  told' = told /\ \A d \in Contexts : FirstAnswer(d)
  BY <1>5, ReportAnswers DEF Finish
<1>6. ASSUME NEW c \in Contexts, RunTask(c)
      PROVE  \/ told' = told /\ \A d \in Contexts : FirstAnswer(d)
             \/ answers' = answers /\ told \subseteq told'
  <2>1. \/ StopBeforeStart(c) \/ StopWidget(c) \/ StartFails(c)
        \/ answers' = answers /\ told \subseteq told'
    BY <1>6 DEF RunTask, StopTooLate, StopSimple, StopSudo, StartTooLate, StartContext, StartSudo,
                Startable, contextVars
  <2> QED
    BY <1>4, <2>1
<1>7. \/ \E t \in Threads : Step(t)
      \/ \E c \in Contexts : RunTask(c)
      \/ \E t \in {EventThread, TimerThread}, c \in Contexts, code \in Codes : Finish(t, c, code)
      \/ UNCHANGED <<told, answers>>
  BY DEF Next, vars, contextVars, Create, Release, RequestCancel, CancelAll
<1> QED
  BY <1>1, <1>3, <1>5, <1>6, <1>7

\* Every context gives one answer at most, and a sudo that was told to stop never
\* SUCCESS: each context implements the promise OneShot states, step by step.  A context
\* of another kind counts as given up never, so of it only the first half is claimed.
THEOREM PromiseTheorem == Spec => KeepsPromise
<1>1. Init => \A c \in Contexts : Promise(c)!Init
  BY DEF Init, Promise!Init
<1>2. ASSUME IInv, [Next]_vars, NEW c \in Contexts
      PROVE  [Promise(c)!Next]_(Promise(c)!vars)
  <2>1. CASE told' = told /\ FirstAnswer(c)
    BY <2>1 DEF FirstAnswer, Promise!Next, Promise!Answer, Promise!vars
  <2>2. CASE answers' = answers /\ told \subseteq told'
    BY <2>2 DEF Promise!Next, Promise!GiveUp, Promise!vars
  <2> QED
    BY <1>2, <2>1, <2>2, StepAnswers
<1> DEFINE Goal == \A c \in Contexts : [Promise(c)!Next]_(Promise(c)!vars)
<1>3. IInv /\ [Next]_vars => [Goal]_vars
  BY <1>2
<1>4. KeepsPromise <=> (\A c \in Contexts : Promise(c)!Init) /\ [][Goal]_vars
  BY DEF KeepsPromise
<1> HIDE DEF Goal
<1> QED
  BY <1>1, <1>3, <1>4, PoolInvariant, PTL DEF Spec
===============================================================================
