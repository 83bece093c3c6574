------------------------- MODULE WidgetSession_proofs -------------------------
(***************************************************************************)
(* What a session of the widget keeps whatever types it offers, however    *)
(* many attempts are made and notices come: one answer, one attempt at a   *)
(* type, and no child that outlives the session unless there was a         *)
(* rotation.                                                               *)
(*                                                                         *)
(* A handler is a chain of operators on the record w, so the lemmas follow *)
(* the chain: what each operator leaves alone, then what it keeps of the   *)
(* invariant.  The last property needs an argument about the queue of the  *)
(* machine: every RELEASE in it comes after an event that will end the     *)
(* session first.                                                          *)
(***************************************************************************)
EXTENDS WidgetSession, FiniteSetTheorems, TLAPS

\* The phases of a session that has been started.
Phases == {"RUNNING", "RESULT_DELIVERED", "RELEASED"}

ChildStates == {"none", "live", "cancelled", "done"}

\* A started session whose list of tasks mentions attempts in T.
Session(T) ==
  [phase : Phases, fsm : States, queue : Seq(Events), running : SUBSET Types,
   toStart : SUBSET Types, toStop : SUBSET Types, told : Codes, asked : BOOLEAN,
   tasks : SUBSET T, child : [Children -> ChildStates], active : Nat, error : Codes,
   verdict : {"none", "success", "complexity"}, released : BOOLEAN, timer : BOOLEAN,
   listed : BOOLEAN, current : {"none", "this", "other"}, conn : BOOLEAN, shown : BOOLEAN,
   results : Seq(Codes)]

Live(s, c) == s.child[c] = "live"

NoneLive(s) == \A c \in Children : ~Live(s, c)

\* runningAuthTypeSet_, runTaskInfoList_ and the children agree.
Books(s) ==
  /\ s.phase # "RELEASED" => \A c \in Children : Live(s, c) => c \in s.tasks
  /\ \A c \in s.tasks : TypeOf(c) \in s.running
  /\ \A c, d \in s.tasks : TypeOf(c) = TypeOf(d) => c = d
  /\ \A c, d \in Children : Live(s, c) /\ Live(s, d) /\ TypeOf(c) = TypeOf(d) => c = d

Answer(s) == Len(s.results) = IF Ended(s) THEN 1 ELSE 0

\* What holds of the session s also in the middle of a handler, after r rotations.
Base(s, r) ==
  /\ s \in Session(s.tasks)
  /\ Books(s)
  /\ Answer(s)
  /\ Ended(s) /\ r = 0 => NoneLive(s)

-------------------------------------------------------------------------------
(* The queue of the machine                                                *)

\* The events that end a session which is running children, and one which is not.
AllEnders == {"CANCEL_AUTH", "STOP_AUTH", "COMPLETE_AUTH"}
Enders(f) == IF f = "AUTH_RUNNING" THEN AllEnders ELSE {"CANCEL_AUTH"}

\* Every RELEASE comes after an event of E.
Guarded(q, E) ==
  \A i \in 1..Len(q) : q[i] = "RELEASE" => \E j \in 1..(i - 1) : q[j] \in E

Rotates(q) == \E i \in 1..Len(q) : q[i] = "RELOAD"

\* p has got longer, by events that keep a guarded queue guarded.
Longer(q, p, E) ==
  /\ Len(q) <= Len(p)
  /\ \A i \in 1..Len(q) : p[i] = q[i]
  /\ Guarded(q, E) => Guarded(p, E)
  /\ Rotates(p) => Rotates(q)

\* The event that opens the session is at the front; in a direct one an event comes
\* before it that means nothing yet.
Opens(q) ==
  /\ Len(q) > 0
  /\ para.mode = "direct" =>
       \/ q[1] = "START_DIRECT"
       \/ Len(q) > 1 /\ q[1] = "START_AUTH" /\ q[2] = "START_DIRECT"
  /\ para.mode = "remote" => q[1] = "GET_PARAM"
  /\ para.mode = "widget" => q[1] = "START_WIDGET"

\* A session under way that was never rotated: it is not released before it ends.
Running(s) ==
  /\ ~s.timer
  /\ ~s.released
  /\ s.fsm \in {"INIT", "PARAM_WAITING", "WAITING", "AUTH_RUNNING"}
  /\ Guarded(s.queue, Enders(s.fsm))
  /\ ~Rotates(s.queue)
  /\ s.fsm = "INIT" => Opens(s.queue)
  /\ s.fsm # "AUTH_RUNNING" => \A c \in Children : s.child[c] \notin {"live", "cancelled"}

Safe(s, r) ==
  /\ Base(s, r)
  /\ s.phase = "RUNNING" /\ r = 0 => Running(s)

WidgetInv ==
  /\ para \in Paras
  /\ reloads \in Nat
  /\ notices \in Nat
  /\ w = NewSession \/ Safe(w, reloads)

\* A queue that is not touched.
LEMMA LongerSame ==
  ASSUME NEW q \in Seq(Events), NEW E
  PROVE  Longer(q, q, E)
BY DEF Longer

\* One growth after another.
LEMMA LongerTwice ==
  ASSUME NEW q \in Seq(Events), NEW p \in Seq(Events), NEW o \in Seq(Events), NEW E,
         Longer(q, p, E), Longer(p, o, E)
  PROVE  Longer(q, o, E)
<1>1. Len(q) \in Nat /\ Len(p) \in Nat /\ Len(o) \in Nat
  OBVIOUS
<1>2. \A i \in 1..Len(q) : o[i] = q[i]
  BY <1>1 DEF Longer
<1> QED
  BY <1>1, <1>2 DEF Longer

\* An event that neither releases nor rotates.
LEMMA LongerAppend ==
  ASSUME NEW q \in Seq(Events), NEW e \in Events \ {"RELEASE", "RELOAD"}, NEW E
  PROVE  Append(q, e) \in Seq(Events) /\ Longer(q, Append(q, e), E)
<1>1. /\ Append(q, e) \in Seq(Events) /\ Len(Append(q, e)) = Len(q) + 1 /\ Len(q) \in Nat
      /\ Append(q, e)[Len(q) + 1] = e
      /\ \A i \in 1..Len(q) : Append(q, e)[i] = q[i]
  OBVIOUS
<1>2. Guarded(q, E) => Guarded(Append(q, e), E)
  BY <1>1 DEF Guarded
<1>3. Rotates(Append(q, e)) => Rotates(q)
  BY <1>1 DEF Rotates
<1> QED
  BY <1>1, <1>2, <1>3 DEF Longer

\* An ending event and a RELEASE after it (ClearSchedule).
LEMMA LongerRelease ==
  ASSUME NEW q \in Seq(Events), NEW E, NEW e \in (E \cap Events) \ {"RELEASE", "RELOAD"}
  PROVE  /\ Append(Append(q, e), "RELEASE") \in Seq(Events)
         /\ Longer(q, Append(Append(q, e), "RELEASE"), E)
<1> DEFINE p == Append(q, e)
<1>1. p \in Seq(Events) /\ Longer(q, p, E) /\ Len(p) = Len(q) + 1 /\ p[Len(q) + 1] = e
      /\ Len(q) \in Nat
  BY LongerAppend
<1> HIDE DEF p
<1>2. /\ Append(p, "RELEASE") \in Seq(Events) /\ Len(Append(p, "RELEASE")) = Len(p) + 1
      /\ Append(p, "RELEASE")[Len(p) + 1] = "RELEASE"
      /\ \A i \in 1..Len(p) : Append(p, "RELEASE")[i] = p[i]
  BY <1>1 DEF Events
<1> DEFINE o == Append(p, "RELEASE")
<1> HIDE DEF o
<1>3. /\ o \in Seq(Events) /\ Len(o) = Len(q) + 2 /\ o[Len(q) + 2] = "RELEASE"
      /\ o[Len(q) + 1] = e
      /\ \A i \in 1..Len(p) : o[i] = p[i]
  BY <1>1, <1>2 DEF o
<1>4. ASSUME Guarded(q, E) PROVE Guarded(o, E)
  <2>1. Guarded(p, E)
    BY <1>1, <1>4 DEF Longer
  <2>2. ASSUME NEW i \in 1..Len(o), o[i] = "RELEASE"
        PROVE  \E j \in 1..(i - 1) : o[j] \in E
    <3>1. CASE i = Len(q) + 2
      <4>1. Len(q) + 1 \in 1..(i - 1)
        BY <1>1, <3>1
      <4> QED
        BY <1>3, <4>1
    <3>2. CASE i # Len(q) + 2
      <4>1. i \in 1..Len(p) /\ p[i] = "RELEASE"
        BY <1>1, <1>3, <2>2, <3>2
      <4>2. PICK j \in 1..(i - 1) : p[j] \in E
        BY <2>1, <4>1 DEF Guarded
      <4>3. j \in 1..Len(p)
        BY <1>1, <4>1
      <4> QED
        BY <1>3, <4>2, <4>3
    <3> QED
      BY <3>1, <3>2
  <2> QED
    BY <2>2 DEF Guarded
<1>5. Rotates(o) => Rotates(q)
  <2>1. Rotates(o) => Rotates(p)
    BY <1>1, <1>3 DEF Rotates
  <2> QED
    BY <1>1, <2>1 DEF Longer
<1>6. Len(q) <= Len(o) /\ \A i \in 1..Len(q) : o[i] = q[i]
  BY <1>1, <1>3 DEF Longer
<1>7. Longer(q, o, E)
  BY <1>4, <1>5, <1>6 DEF Longer
<1> QED
  BY <1>3, <1>7 DEF o, p

\* Several events that neither release nor rotate (Refuse).
LEMMA LongerConcat ==
  ASSUME NEW q \in Seq(Events), NEW n \in Nat, NEW E
  PROVE  LET p == q \o [i \in 1..n |-> "UPDATE_AUTH"]
         IN p \in Seq(Events) /\ Longer(q, p, E)
<1> DEFINE x == [i \in 1..n |-> "UPDATE_AUTH"]
<1>1. x \in Seq(Events) /\ Len(x) = n /\ \A i \in 1..n : x[i] = "UPDATE_AUTH"
  <2>1. "UPDATE_AUTH" \in Events
    BY DEF Events
  <2>2. x \in [1..n -> Events]
    BY <2>1
  <2> QED
    BY <2>2
<1> HIDE DEF x
<1> DEFINE p == q \o x
<1>2. /\ p \in Seq(Events) /\ Len(p) = Len(q) + n /\ Len(q) \in Nat
      /\ \A i \in 1..Len(q) : p[i] = q[i]
      /\ \A i \in (Len(q) + 1)..(Len(q) + n) : p[i] = x[i - Len(q)]
  BY <1>1
<1> HIDE DEF p
<1>3. \A i \in 1..Len(p) : i \in 1..Len(q) \/ p[i] = "UPDATE_AUTH"
  BY <1>1, <1>2
<1>4. ASSUME Guarded(q, E) PROVE Guarded(p, E)
  <2>1. ASSUME NEW i \in 1..Len(p), p[i] = "RELEASE"
        PROVE  \E j \in 1..(i - 1) : p[j] \in E
    <3>1. i \in 1..Len(q) /\ q[i] = "RELEASE"
      BY <1>2, <1>3, <2>1
    <3>2. PICK j \in 1..(i - 1) : q[j] \in E
      BY <1>4, <3>1 DEF Guarded
    <3>3. j \in 1..Len(q)
      BY <1>2, <3>1
    <3> QED
      BY <1>2, <3>2, <3>3
  <2> QED
    BY <2>1 DEF Guarded
<1>5. Rotates(p) => Rotates(q)
  BY <1>2, <1>3 DEF Rotates
<1>6. Longer(q, p, E)
  BY <1>2, <1>4, <1>5 DEF Longer
<1> QED
  BY <1>2, <1>6 DEF p, x

\* The event at the head is taken.  A guarded queue does not begin with RELEASE, and
\* loses its guard only with an ending event.
LEMMA GuardedTail ==
  ASSUME NEW q \in Seq(Events), q # <<>>, NEW E
  PROVE  /\ Head(q) \in Events /\ Head(q) = q[1] /\ Tail(q) \in Seq(Events)
         /\ Guarded(q, E) => Head(q) # "RELEASE"
         /\ Guarded(q, E) /\ Head(q) \notin E => Guarded(Tail(q), E)
         /\ ~Rotates(q) => Head(q) # "RELOAD" /\ ~Rotates(Tail(q))
<1>1. /\ Tail(q) \in Seq(Events) /\ Len(Tail(q)) = Len(q) - 1 /\ Head(q) = q[1]
      /\ Len(q) \in Nat /\ Len(q) > 0 /\ Head(q) \in Events
  OBVIOUS
<1>2. \A j \in 1..Len(Tail(q)) : Tail(q)[j] = q[j + 1]
  OBVIOUS
<1> DEFINE p == Tail(q)
<1> HIDE DEF p
<1>3. ASSUME Guarded(q, E), Head(q) \notin E PROVE Guarded(p, E)
  <2>1. ASSUME NEW i \in 1..Len(p), p[i] = "RELEASE"
        PROVE  \E j \in 1..(i - 1) : p[j] \in E
    <3>1. i + 1 \in 1..Len(q) /\ q[i + 1] = "RELEASE" /\ i \in Nat
      BY <1>1, <1>2, <2>1 DEF p
    <3>2. PICK j \in 1..((i + 1) - 1) : q[j] \in E
      BY <1>3, <3>1 DEF Guarded
    <3>3. j # 1
      BY <1>1, <1>3, <3>2
    <3>4. j - 1 \in 1..(i - 1) /\ j - 1 \in 1..Len(p)
      BY <2>1, <3>1, <3>2, <3>3
    <3>5. p[j - 1] = q[j]
      BY <1>2, <3>4 DEF p
    <3> QED
      BY <3>2, <3>4, <3>5
  <2> QED
    BY <2>1 DEF Guarded
<1>4. Guarded(q, E) => Head(q) # "RELEASE"
  BY <1>1 DEF Guarded
<1>5. ~Rotates(q) => Head(q) # "RELOAD" /\ ~Rotates(p)
  BY <1>1, <1>2 DEF Rotates, p
<1> QED
  BY <1>1, <1>3, <1>4, <1>5 DEF p

-------------------------------------------------------------------------------
(* Operators that touch neither the answer nor the children                *)

\* t has what the invariant speaks of from s, and at most a longer queue.
Quiet(s, t, E) ==
  /\ t.phase = s.phase
  /\ t.fsm = s.fsm
  /\ t.results = s.results
  /\ t.tasks = s.tasks
  /\ t.child = s.child
  /\ t.running = s.running
  /\ t.released = s.released
  /\ t.timer = s.timer
  /\ Longer(s.queue, t.queue, E)

\* A session is one over its own tasks.
LEMMA SessionOwn ==
  ASSUME NEW T, NEW s \in Session(T)
  PROVE  s \in Session(s.tasks) /\ s.queue \in Seq(Events)
BY DEF Session

LEMMA QuietTwice ==
  ASSUME NEW T, NEW s \in Session(T), NEW t \in Session(T), NEW u \in Session(T), NEW E,
         Quiet(s, t, E), Quiet(t, u, E)
  PROVE  Quiet(s, u, E)
<1>1. s.queue \in Seq(Events) /\ t.queue \in Seq(Events) /\ u.queue \in Seq(Events)
  BY SessionOwn
<1>2. Longer(s.queue, u.queue, E)
  BY <1>1, LongerTwice DEF Quiet
<1> QED
  BY <1>2 DEF Quiet

\* What is quiet keeps the invariant.
LEMMA QuietBase ==
  ASSUME NEW T, NEW s, NEW t \in Session(T), NEW r, NEW E, Base(s, r), Quiet(s, t, E)
  PROVE  Base(t, r)
<1>1. t \in Session(t.tasks)
  BY SessionOwn
<1>2. Ended(t) <=> Ended(s)
  BY DEF Quiet, Ended
<1>3. \A c \in Children : Live(t, c) <=> Live(s, c)
  BY DEF Quiet, Live
<1>4. Books(t)
  BY <1>3 DEF Base, Books, Quiet
<1>5. Answer(t)
  BY <1>2 DEF Base, Answer, Quiet
<1> QED
  BY <1>1, <1>2, <1>3, <1>4, <1>5 DEF Base, NoneLive

\* The opening event stays at the front of a queue that grows.
LEMMA OpensLonger ==
  ASSUME NEW q \in Seq(Events), NEW p \in Seq(Events), NEW E, Longer(q, p, E), Opens(q)
  PROVE  Opens(p)
<1>1. Len(q) \in Nat /\ Len(p) \in Nat /\ Len(q) > 0 /\ Len(q) <= Len(p)
  BY DEF Longer, Opens
<1>2. p[1] = q[1] /\ (Len(q) > 1 => p[2] = q[2])
  BY <1>1 DEF Longer
<1> QED
  BY <1>1, <1>2 DEF Opens

LEMMA QuietSafe ==
  ASSUME NEW T, NEW s, NEW t \in Session(T), NEW r, Safe(s, r), Quiet(s, t, Enders(s.fsm))
  PROVE  Safe(t, r)
<1>1. Base(t, r)
  BY QuietBase DEF Safe
<1>2. ASSUME t.phase = "RUNNING", r = 0 PROVE Running(t)
  <2>1. Running(s)
    BY <1>2 DEF Safe, Quiet
  <2>2. s.queue \in Seq(Events) /\ t.queue \in Seq(Events)
    BY SessionOwn DEF Safe, Base
  <2>3. Guarded(t.queue, Enders(t.fsm)) /\ ~Rotates(t.queue)
    BY <2>1 DEF Running, Quiet, Longer
  <2>4. s.fsm = "INIT" => Opens(t.queue)
    BY <2>1, <2>2, OpensLonger DEF Running, Quiet
  <2> QED
    BY <2>1, <2>3, <2>4 DEF Running, Quiet
<1> QED
  BY <1>1, <1>2 DEF Safe

LEMMA KickFacts ==
  ASSUME NEW T, NEW s \in Session(T), NEW e \in Events \ {"RELEASE", "RELOAD"}, NEW E
  PROVE  Kick(s, e) \in Session(T) /\ Quiet(s, Kick(s, e), E)
<1>1. s.queue \in Seq(Events)
  BY SessionOwn
<1>2. Append(s.queue, e) \in Seq(Events) /\ Longer(s.queue, Append(s.queue, e), E)
  BY <1>1, LongerAppend
<1>3. Kick(s, e) \in Session(T) /\ Kick(s, e).queue = Append(s.queue, e)
  BY <1>2 DEF Session, Kick
<1>4. /\ Kick(s, e).phase = s.phase /\ Kick(s, e).fsm = s.fsm /\ Kick(s, e).results = s.results
      /\ Kick(s, e).tasks = s.tasks /\ Kick(s, e).child = s.child
      /\ Kick(s, e).running = s.running /\ Kick(s, e).released = s.released
      /\ Kick(s, e).timer = s.timer
  BY DEF Session, Kick
<1> QED
  BY <1>2, <1>3, <1>4 DEF Quiet

\* An ending event and a release.
LEMMA KickRelease ==
  ASSUME NEW T, NEW s \in Session(T), NEW E, NEW e \in (E \cap Events) \ {"RELEASE", "RELOAD"}
  PROVE  /\ Kick(Kick(s, e), "RELEASE") \in Session(T)
         /\ Quiet(s, Kick(Kick(s, e), "RELEASE"), E)
<1> DEFINE q == Append(Append(s.queue, e), "RELEASE")
           t == [s EXCEPT !.queue = q]
<1>1. s.queue \in Seq(Events)
  BY SessionOwn
<1>2. q \in Seq(Events) /\ Longer(s.queue, q, E)
  BY <1>1, LongerRelease
<1>3. Kick(Kick(s, e), "RELEASE") = t
  BY DEF Kick, Session
<1> HIDE DEF q
<1>4. t \in Session(T) /\ t.queue = q
  BY <1>2 DEF Session
<1>5. /\ t.phase = s.phase /\ t.fsm = s.fsm /\ t.results = s.results /\ t.tasks = s.tasks
      /\ t.child = s.child /\ t.running = s.running /\ t.released = s.released
      /\ t.timer = s.timer
  BY DEF Session
<1> QED
  BY <1>2, <1>3, <1>4, <1>5 DEF Quiet

\* The fields that the invariant does not speak of.
LEMMA FieldFacts ==
  ASSUME NEW T, NEW s \in Session(T), NEW E
  PROVE  /\ \A v \in SUBSET Types : /\ [s EXCEPT !.toStart = v] \in Session(T)
                                    /\ Quiet(s, [s EXCEPT !.toStart = v], E)
                                    /\ [s EXCEPT !.toStop = v] \in Session(T)
                                    /\ Quiet(s, [s EXCEPT !.toStop = v], E)
         /\ \A v \in Codes : /\ [s EXCEPT !.told = v] \in Session(T)
                             /\ Quiet(s, [s EXCEPT !.told = v], E)
                             /\ [s EXCEPT !.error = v] \in Session(T)
                             /\ Quiet(s, [s EXCEPT !.error = v], E)
         /\ \A v \in {"none", "success", "complexity"} :
               /\ [s EXCEPT !.verdict = v] \in Session(T)
               /\ Quiet(s, [s EXCEPT !.verdict = v], E)
         /\ \A v \in {"none", "this", "other"} : /\ [s EXCEPT !.current = v] \in Session(T)
                                                 /\ Quiet(s, [s EXCEPT !.current = v], E)
<1>1. Longer(s.queue, s.queue, E)
  BY SessionOwn, LongerSame
<1>2. ASSUME NEW v \in SUBSET Types
      PROVE  /\ [s EXCEPT !.toStart = v] \in Session(T) /\ Quiet(s, [s EXCEPT !.toStart = v], E)
             /\ [s EXCEPT !.toStop = v] \in Session(T) /\ Quiet(s, [s EXCEPT !.toStop = v], E)
  BY <1>1 DEF Session, Quiet
<1>3. ASSUME NEW v \in Codes
      PROVE  /\ [s EXCEPT !.told = v] \in Session(T) /\ Quiet(s, [s EXCEPT !.told = v], E)
             /\ [s EXCEPT !.error = v] \in Session(T) /\ Quiet(s, [s EXCEPT !.error = v], E)
  BY <1>1 DEF Session, Quiet
<1>4. ASSUME NEW v \in {"none", "success", "complexity"}
      PROVE  [s EXCEPT !.verdict = v] \in Session(T) /\ Quiet(s, [s EXCEPT !.verdict = v], E)
  BY <1>1 DEF Session, Quiet
<1>5. ASSUME NEW v \in {"none", "this", "other"}
      PROVE  [s EXCEPT !.current = v] \in Session(T) /\ Quiet(s, [s EXCEPT !.current = v], E)
  BY <1>1 DEF Session, Quiet
<1> QED
  BY <1>2, <1>3, <1>4, <1>5

\* The flags among them.
LEMMA FlagFacts ==
  ASSUME NEW T, NEW s \in Session(T), NEW E
  PROVE  /\ [s EXCEPT !.asked = TRUE] \in Session(T) /\ Quiet(s, [s EXCEPT !.asked = TRUE], E)
         /\ [s EXCEPT !.shown = TRUE] \in Session(T) /\ Quiet(s, [s EXCEPT !.shown = TRUE], E)
         /\ [s EXCEPT !.conn = TRUE] \in Session(T) /\ Quiet(s, [s EXCEPT !.conn = TRUE], E)
         /\ [s EXCEPT !.conn = FALSE] \in Session(T) /\ Quiet(s, [s EXCEPT !.conn = FALSE], E)
         /\ [s EXCEPT !.conn = TRUE, !.shown = TRUE] \in Session(T)
         /\ Quiet(s, [s EXCEPT !.conn = TRUE, !.shown = TRUE], E)
<1>1. Longer(s.queue, s.queue, E)
  BY SessionOwn, LongerSame
<1> QED
  BY <1>1 DEF Session, Quiet

LEMMA ClearScheduleFacts ==
  ASSUME NEW T, NEW s \in Session(T), NEW E, "CANCEL_AUTH" \in E
  PROVE  ClearScheduleOfClient(s) \in Session(T) /\ Quiet(s, ClearScheduleOfClient(s), E)
<1>1. CASE s.listed
  <2> DEFINE t == Kick(Kick(s, "CANCEL_AUTH"), "RELEASE")
             c == IF t.current = "this" THEN "none" ELSE t.current
  <2>1. "CANCEL_AUTH" \in (E \cap Events) \ {"RELEASE", "RELOAD"}
    BY DEF Events
  <2>2. t \in Session(T) /\ Quiet(s, t, E)
    BY <2>1, KickRelease
  <2>3. ClearScheduleOfClient(s) = [t EXCEPT !.listed = FALSE, !.current = c]
    BY <1>1 DEF ClearScheduleOfClient
  <2> HIDE DEF t
  <2>4. c \in {"none", "this", "other"}
    BY <2>2 DEF Session
  <2> HIDE DEF c
  <2>5. /\ [t EXCEPT !.listed = FALSE, !.current = c] \in Session(T)
        /\ Quiet(s, [t EXCEPT !.listed = FALSE, !.current = c], E)
    BY <2>2, <2>4 DEF Session, Quiet
  <2> QED
    BY <2>3, <2>5
<1>2. CASE ~s.listed
  <2>1. Longer(s.queue, s.queue, E)
    BY SessionOwn, LongerSame
  <2>2. ClearScheduleOfClient(s) = s
    BY <1>2 DEF ClearScheduleOfClient
  <2> QED
    BY <2>1, <2>2 DEF Quiet
<1> QED
  BY <1>1, <1>2

LEMMA DisconnectFacts ==
  ASSUME NEW T, NEW s \in Session(T), NEW E
  PROVE  DisconnectExtension(s) \in Session(T) /\ Quiet(s, DisconnectExtension(s), E)
<1> DEFINE t == Kick(s, "CANCEL_AUTH")
<1>1. t \in Session(T) /\ Quiet(s, t, E)
  BY KickFacts DEF Events
<1> HIDE DEF t
<1>2. [t EXCEPT !.conn = FALSE] \in Session(T) /\ Quiet(t, [t EXCEPT !.conn = FALSE], E)
  BY <1>1, FlagFacts
<1>3. DisconnectExtension(s) = [t EXCEPT !.conn = FALSE]
  BY DEF DisconnectExtension, t
<1> QED
  BY <1>1, <1>2, <1>3, QuietTwice

-------------------------------------------------------------------------------
(* Operators that cancel children and end the session                      *)

\* Only tasks are cancelled, and what they were goes on for the others.
LEMMA CancelTasksFacts ==
  ASSUME NEW T, NEW s \in Session(T), NEW cs, NEW E
  PROVE  LET t == CancelTasks(s, cs)
         IN /\ t \in Session(T)
            /\ t.phase = s.phase /\ t.fsm = s.fsm /\ t.results = s.results
            /\ t.running = s.running /\ t.released = s.released /\ t.timer = s.timer
            /\ t.tasks = s.tasks \ cs
            /\ t.queue = s.queue
            /\ \A c \in Children : Live(t, c) <=> Live(s, c) /\ c \notin cs
            /\ \A c \in Children : t.child[c] \in {"live", "cancelled"} <=> s.child[c] \in {"live", "cancelled"}
<1> DEFINE ch == [c \in Children |-> IF c \in cs /\ s.child[c] = "live" THEN "cancelled" ELSE s.child[c]]
           ts == s.tasks \ cs
           t == [s EXCEPT !.tasks = ts, !.child = ch]
<1>1. CancelTasks(s, cs) = t
  BY DEF CancelTasks
<1>2. ch \in [Children -> ChildStates] /\ ts \in SUBSET T
  BY DEF Session, ChildStates
<1>3. \A c \in Children : ch[c] = IF c \in cs /\ s.child[c] = "live" THEN "cancelled" ELSE s.child[c]
  OBVIOUS
<1> HIDE DEF ch, ts
<1>4. /\ t \in Session(T)
      /\ t.phase = s.phase /\ t.fsm = s.fsm /\ t.results = s.results
      /\ t.running = s.running /\ t.released = s.released /\ t.timer = s.timer
      /\ t.tasks = ts /\ t.child = ch
      /\ t.queue = s.queue
  BY <1>2 DEF Session
<1> HIDE DEF t
<1>5. \A c \in Children : Live(t, c) <=> Live(s, c) /\ c \notin cs
  BY <1>3, <1>4 DEF Live
<1>6. \A c \in Children : t.child[c] \in {"live", "cancelled"} <=> s.child[c] \in {"live", "cancelled"}
  BY <1>3, <1>4
<1> QED
  BY <1>1, <1>4, <1>5, <1>6 DEF ts

\* The books stay right, and the answer is not touched.
LEMMA CancelTasksBase ==
  ASSUME NEW s, NEW r, NEW cs, Base(s, r)
  PROVE  Base(CancelTasks(s, cs), r)
<1> DEFINE t == CancelTasks(s, cs)
<1>1. s \in Session(s.tasks)
  BY DEF Base
<1>2. /\ t \in Session(s.tasks)
      /\ t.phase = s.phase /\ t.results = s.results /\ t.running = s.running
      /\ t.tasks = s.tasks \ cs
      /\ \A c \in Children : Live(t, c) <=> Live(s, c) /\ c \notin cs
  BY <1>1, CancelTasksFacts
<1> HIDE DEF t
<1>3. t \in Session(t.tasks)
  BY <1>2, SessionOwn
<1>4. Books(t)
  BY <1>2 DEF Base, Books
<1>5. Answer(t) /\ (Ended(t) <=> Ended(s))
  BY <1>2 DEF Base, Answer, Ended
<1> QED
  BY <1>2, <1>3, <1>4, <1>5 DEF Base, NoneLive, t

\* Nothing lives on after StopAllRunTask.
LEMMA StopAllFacts ==
  ASSUME NEW s, NEW r, NEW code, Base(s, r), s.phase # "RELEASED"
  PROVE  LET t == StopAllRunTask(s, code)
         IN /\ Base(t, r)
            /\ NoneLive(t)
            /\ t.phase = s.phase /\ t.results = s.results /\ t.released = s.released
<1> DEFINE i == CancelTasks(s, s.tasks)
<1>1. s \in Session(s.tasks)
  BY DEF Base
<1>2. /\ i \in Session(s.tasks)
      /\ i.phase = s.phase /\ i.results = s.results /\ i.released = s.released
      /\ \A c \in Children : Live(i, c) <=> Live(s, c) /\ c \notin s.tasks
  BY <1>1, CancelTasksFacts
<1>3. Base(i, r)
  BY CancelTasksBase
<1> HIDE DEF i
<1>4. NoneLive(i)
  BY <1>2 DEF NoneLive, Base, Books
<1> DEFINE t == StopAllRunTask(s, code)
<1>5. t = i \/ t = DisconnectExtension(i)
  BY DEF StopAllRunTask, i
<1> HIDE DEF t
<1>6. CASE t = i
  BY <1>2, <1>3, <1>4, <1>6 DEF t
<1>7. CASE t = DisconnectExtension(i)
  <2>1. t \in Session(s.tasks) /\ Quiet(i, t, {})
    BY <1>2, <1>7, DisconnectFacts
  <2>2. Base(t, r)
    BY <1>3, <2>1, QuietBase
  <2>3. NoneLive(t)
    BY <1>4, <2>1 DEF NoneLive, Live, Quiet
  <2> QED
    BY <1>2, <2>1, <2>2, <2>3 DEF Quiet, t
<1> QED
  BY <1>5, <1>6, <1>7

\* Who ends a session: one that has answered is released, one that has not answers
\* as it goes.
LEMMA EndLockedBase ==
  ASSUME NEW s, NEW r, Base(s, r), Ended(s) \/ r # 0 \/ NoneLive(s)
  PROVE  Base(EndLocked(s), r) /\ Ended(EndLocked(s))
<1>0. s \in Session(s.tasks)
  BY DEF Base
<1> DEFINE a == [s EXCEPT !.phase = "RELEASED", !.timer = FALSE]
           b == ClearScheduleOfClient(a)
           gone == Deleted(b)
<1>1. a \in Session(s.tasks) /\ a.phase = "RELEASED" /\ a.results = s.results /\ a.child = s.child
  BY <1>0 DEF Session, Phases
<1> HIDE DEF a
<1>2. b \in Session(s.tasks) /\ b.phase = "RELEASED" /\ b.results = s.results /\ b.child = s.child
  BY <1>1, ClearScheduleFacts DEF Quiet
<1> HIDE DEF b
<1>3. /\ gone \in Session({}) /\ gone.phase = "RELEASED" /\ gone.results = s.results
      /\ gone.child = s.child /\ gone.tasks = {}
  <2>1. <<>> \in Seq(Events)
    OBVIOUS
  <2> QED
    BY <1>2, <2>1 DEF Session, Deleted
<1>4. /\ s.phase = "RELEASED" => EndLocked(s) = s
      /\ s.phase = "RESULT_DELIVERED" => EndLocked(s) = gone
      /\ ~Ended(s) => EndLocked(s) = [gone EXCEPT !.results = Append(@, "CANCELED")]
  BY DEF EndLocked, Ended, gone, b, a
<1> HIDE DEF gone
<1>5. \A c \in Children : Live(gone, c) <=> Live(s, c)
  BY <1>3 DEF Live
<1>6. Books(gone)
  BY <1>3, <1>5 DEF Base, Books
<1>7. CASE s.phase = "RELEASED"
  BY <1>4, <1>7 DEF Ended
<1>8. CASE s.phase = "RESULT_DELIVERED"
  <2>1. Answer(gone) /\ Ended(gone)
    BY <1>3, <1>8 DEF Base, Answer, Ended
  <2>2. r = 0 => NoneLive(gone)
    BY <1>5, <1>8 DEF Base, NoneLive, Ended
  <2>3. gone \in Session(gone.tasks)
    BY <1>3
  <2> QED
    BY <1>4, <1>6, <1>8, <2>1, <2>2, <2>3 DEF Base
<1>9. CASE ~Ended(s)
  <2> DEFINE t == [gone EXCEPT !.results = Append(@, "CANCELED")]
  <2>1. s.results \in Seq(Codes) /\ Len(s.results) = 0
    BY <1>0, <1>9 DEF Session, Base, Answer
  <2>2. Append(s.results, "CANCELED") \in Seq(Codes) /\ Len(Append(s.results, "CANCELED")) = 1
    BY <2>1 DEF Codes
  <2>3. /\ t \in Session({}) /\ t.phase = "RELEASED" /\ t.tasks = {} /\ t.child = s.child
        /\ t.results = Append(s.results, "CANCELED")
    BY <1>3, <2>2 DEF Session
  <2> HIDE DEF t
  <2>4. Books(t)
    BY <1>3, <1>6, <2>3 DEF Books, Live
  <2>5. Answer(t) /\ Ended(t)
    BY <2>2, <2>3 DEF Answer, Ended
  <2>6. r = 0 => NoneLive(t)
    BY <1>9, <2>3 DEF NoneLive, Live
  <2>7. t \in Session(t.tasks)
    BY <2>3
  <2>8. EndLocked(s) = t
    BY <1>4, <1>9 DEF t
  <2> QED
    BY <2>4, <2>5, <2>6, <2>7, <2>8 DEF Base
<1> QED
  BY <1>7, <1>8, <1>9 DEF Ended

\* A session that has been released by its dialog waits for its children or ends.
LEMMA TryEndBase ==
  ASSUME NEW s, NEW r, Base(s, r), Ended(s) \/ r # 0 \/ ~s.released
  PROVE  /\ Base(TryEndLocked(s), r)
         /\ Ended(s) => Ended(TryEndLocked(s))
         /\ ~s.released => TryEndLocked(s) = s
<1>1. CASE ~s.released
  BY <1>1 DEF TryEndLocked
<1>2. CASE s.released /\ s.active > 0 /\ ~Ended(s)
  <2> DEFINE t == [s EXCEPT !.timer = TRUE]
  <2>1. s \in Session(s.tasks)
    BY DEF Base
  <2>2. Longer(s.queue, s.queue, {})
    BY <2>1, SessionOwn, LongerSame
  <2>3. /\ t \in Session(s.tasks) /\ t.phase = s.phase /\ t.results = s.results
        /\ t.tasks = s.tasks /\ t.child = s.child /\ t.running = s.running
    BY <2>1 DEF Session
  <2>4. TryEndLocked(s) = t
    BY <1>2 DEF TryEndLocked
  <2> HIDE DEF t
  <2>5. Books(t) /\ Answer(t) /\ (Ended(t) <=> Ended(s)) /\ (NoneLive(t) <=> NoneLive(s))
    BY <2>3 DEF Base, Books, Answer, Ended, NoneLive, Live
  <2>6. t \in Session(t.tasks)
    BY <2>3
  <2> QED
    BY <1>2, <2>4, <2>5, <2>6 DEF Base
<1>3. CASE s.released /\ ~(s.active > 0 /\ ~Ended(s))
  <2>1. TryEndLocked(s) = EndLocked(s)
    BY <1>3 DEF TryEndLocked
  <2> QED
    BY <1>3, <2>1, EndLockedBase
<1> QED
  BY <1>1, <1>2, <1>3

\* End answers a caller that has no answer yet, and leaves no child to go on.
LEMMA EndBase ==
  ASSUME NEW s, NEW r, NEW code \in Codes, Base(s, r)
  PROVE  Base(End(s, code), r) /\ Ended(End(s, code))
<1>1. CASE Ended(s)
  BY <1>1 DEF End
<1>2. CASE ~Ended(s)
  <2> DEFINE a == StopAllRunTask(s, code)
             b == DeliverEndLocked(a, code)
  <2>1. Base(a, r) /\ NoneLive(a) /\ a.phase = s.phase /\ a.results = s.results
    BY <1>2, StopAllFacts DEF Ended
  <2>2. End(s, code) = TryEndLocked(b)
    BY <1>2 DEF End
  <2> HIDE DEF a
  <2>3. a \in Session(a.tasks) /\ a.results \in Seq(Codes) /\ Len(a.results) = 0
    BY <1>2, <2>1 DEF Base, Session, Answer, Ended
  <2>4. Append(a.results, code) \in Seq(Codes) /\ Len(Append(a.results, code)) = 1
    BY <2>3
  <2>5. /\ b \in Session(a.tasks) /\ b.phase = "RESULT_DELIVERED"
        /\ b.results = Append(a.results, code)
        /\ b.tasks = a.tasks /\ b.child = a.child /\ b.running = a.running
    BY <2>3, <2>4 DEF DeliverEndLocked, Session, Phases
  <2> HIDE DEF b
  <2>6. Books(b)
    BY <1>2, <2>1, <2>5 DEF Base, Books, Live, Ended
  <2>7. Answer(b) /\ Ended(b) /\ NoneLive(b)
    BY <2>1, <2>4, <2>5 DEF Answer, Ended, NoneLive, Live
  <2>8. b \in Session(b.tasks)
    BY <2>5
  <2>9. Base(b, r)
    BY <2>6, <2>7, <2>8 DEF Base
  <2> QED
    BY <2>2, <2>7, <2>9, TryEndBase
<1> QED
  BY <1>1, <1>2

\* A session that has ended is safe in whatever state its machine goes on.
LEMMA EndedSafe ==
  ASSUME NEW s, NEW r, NEW f \in States, Base(s, r), Ended(s)
  PROVE  Safe([s EXCEPT !.fsm = f], r)
<1> DEFINE t == [s EXCEPT !.fsm = f]
<1>1. s \in Session(s.tasks)
  BY DEF Base
<1>2. /\ t \in Session(s.tasks) /\ t.phase = s.phase /\ t.results = s.results
      /\ t.tasks = s.tasks /\ t.child = s.child /\ t.running = s.running
  BY <1>1 DEF Session
<1> HIDE DEF t
<1>3. Books(t) /\ Answer(t) /\ Ended(t) /\ (NoneLive(t) <=> NoneLive(s))
  BY <1>2 DEF Base, Books, Answer, Ended, NoneLive, Live
<1>4. t \in Session(t.tasks)
  BY <1>2
<1>5. t.phase # "RUNNING"
  BY <1>3 DEF Ended
<1>6. Safe(t, r)
  BY <1>3, <1>4, <1>5 DEF Safe, Base
<1> QED
  BY <1>6 DEF t

-------------------------------------------------------------------------------
(* Results of the children                                                 *)

\* The end of the machine, with the release of a direct session behind it.
LEMMA FinishFacts ==
  ASSUME NEW T, NEW s \in Session(T), NEW E, NEW e \in (E \cap Events) \ {"RELEASE", "RELOAD"}
  PROVE  Finish(s, e) \in Session(T) /\ Quiet(s, Finish(s, e), E)
BY KickFacts, KickRelease DEF Finish

LEMMA StopAuthListFacts ==
  ASSUME NEW T, NEW s \in Session(T), NEW E, NEW types \in SUBSET Types
  PROVE  StopAuthList(s, types) \in Session(T) /\ Quiet(s, StopAuthList(s, types), E)
<1> DEFINE t == [s EXCEPT !.toStop = types]
<1>1. t \in Session(T) /\ Quiet(s, t, E)
  BY FieldFacts
<1> HIDE DEF t
<1>2. Kick(t, "UPDATE_AUTH") \in Session(T) /\ Quiet(t, Kick(t, "UPDATE_AUTH"), E)
  BY <1>1, KickFacts DEF Events
<1>3. StopAuthList(s, types) = Kick(t, "UPDATE_AUTH")
  BY DEF StopAuthList, t
<1> QED
  BY <1>1, <1>2, <1>3, QuietTwice

LEMMA AuthFailureFacts ==
  ASSUME NEW T, NEW s \in Session(T), NEW t \in Types, NEW outcome
  PROVE  /\ ProcAuthFailure(s, t, outcome) \in Session(T)
         /\ Quiet(s, ProcAuthFailure(s, t, outcome), AllEnders)
<1> DEFINE failed == [s EXCEPT !.error = "FAIL"]
           locked == [s EXCEPT !.error = "LOCKED"]
           u == ProcAuthFailure(s, t, outcome)
<1>1. /\ failed \in Session(T) /\ Quiet(s, failed, AllEnders)
      /\ locked \in Session(T) /\ Quiet(s, locked, AllEnders)
  BY FieldFacts DEF Codes
<1>2. \/ u = Finish(failed, "STOP_AUTH")
      \/ u = Kick(locked, "STOP_AUTH")
      \/ u = Kick(failed, "NAVI_PIN")
      \/ u = StopAuthList(failed, {t})
  BY DEF ProcAuthFailure, NotifyAuthFail
<1> HIDE DEF failed, locked, u
<1>3. /\ Finish(failed, "STOP_AUTH") \in Session(T)
      /\ Quiet(failed, Finish(failed, "STOP_AUTH"), AllEnders)
  BY <1>1, FinishFacts DEF AllEnders, Events
<1>4. /\ Kick(locked, "STOP_AUTH") \in Session(T)
      /\ Quiet(locked, Kick(locked, "STOP_AUTH"), AllEnders)
  BY <1>1, KickFacts DEF Events
<1>5. /\ Kick(failed, "NAVI_PIN") \in Session(T)
      /\ Quiet(failed, Kick(failed, "NAVI_PIN"), AllEnders)
  BY <1>1, KickFacts DEF Events
<1>6. /\ StopAuthList(failed, {t}) \in Session(T)
      /\ Quiet(failed, StopAuthList(failed, {t}), AllEnders)
  BY <1>1, StopAuthListFacts
<1>7. u \in Session(T) /\ (Quiet(failed, u, AllEnders) \/ Quiet(locked, u, AllEnders))
  BY <1>2, <1>3, <1>4, <1>5, <1>6
<1>8. Quiet(s, u, AllEnders)
  BY <1>1, <1>7, QuietTwice
<1> QED
  BY <1>7, <1>8 DEF u

LEMMA AuthResultFacts ==
  ASSUME NEW T, NEW s \in Session(T), NEW t \in Types, NEW outcome \in Outcomes
  PROVE  /\ ProcAuthResult(s, t, outcome) \in Session(T)
         /\ Quiet(s, ProcAuthResult(s, t, outcome), AllEnders)
<1>1. CASE outcome \in {"success", "complexity"}
  <2> DEFINE a == [s EXCEPT !.verdict = outcome]
             e == IF outcome = "complexity" THEN "COMPLEXITY_CHECK_FAILED" ELSE s.error
             b == [a EXCEPT !.error = e]
  <2>1. a \in Session(T) /\ Quiet(s, a, AllEnders)
    BY <1>1, FieldFacts
  <2>2. e \in Codes
    BY DEF Session, Codes
  <2>3. ProcAuthResult(s, t, outcome) = Finish(b, "COMPLETE_AUTH")
    BY <1>1 DEF ProcAuthResult, ProcAuthSuccess
  <2> HIDE DEF a, e
  <2>4. b \in Session(T) /\ Quiet(a, b, AllEnders)
    BY <2>1, <2>2, FieldFacts
  <2> HIDE DEF b
  <2>5. /\ Finish(b, "COMPLETE_AUTH") \in Session(T)
        /\ Quiet(b, Finish(b, "COMPLETE_AUTH"), AllEnders)
    BY <2>4, FinishFacts DEF AllEnders, Events
  <2>6. Quiet(s, b, AllEnders)
    BY <2>1, <2>4, QuietTwice
  <2>7. Quiet(s, Finish(b, "COMPLETE_AUTH"), AllEnders)
    BY <2>4, <2>5, <2>6, QuietTwice
  <2> QED
    BY <2>3, <2>5, <2>7
<1>2. CASE outcome \notin {"success", "complexity"}
  BY <1>2, AuthFailureFacts DEF ProcAuthResult
<1> QED
  BY <1>1, <1>2

\* A child leaves.  While the session runs nobody has released it, so this does not
\* end it.
LEMMA ChildTerminatedSafe ==
  ASSUME NEW s, NEW r, Safe(s, r)
  PROVE  Safe(OnChildTerminated(s), r)
<1> DEFINE n == IF s.active > 0 THEN s.active - 1 ELSE 0
           a == [s EXCEPT !.active = n]
<1>1. s \in Session(s.tasks) /\ s.active \in Nat /\ s.phase \in Phases
  BY DEF Safe, Base, Session
<1>2. n \in Nat
  BY <1>1
<1>3. \/ OnChildTerminated(s) = a
      \/ OnChildTerminated(s) = TryEndLocked(a)
  BY DEF OnChildTerminated
<1> HIDE DEF n
<1>4. /\ a \in Session(s.tasks) /\ a.phase = s.phase /\ a.released = s.released
      /\ Quiet(s, a, Enders(s.fsm))
  <2>1. Longer(s.queue, s.queue, Enders(s.fsm))
    BY <1>1, SessionOwn, LongerSame
  <2> QED
    BY <1>1, <1>2, <2>1 DEF Session, Quiet
<1> HIDE DEF a
<1>5. Safe(a, r)
  BY <1>4, QuietSafe
<1>6. Safe(TryEndLocked(a), r)
  <2>1. CASE a.phase = "RUNNING" /\ r = 0
    BY <1>5, <2>1, TryEndBase DEF Safe, Running
  <2>2. CASE r # 0
    BY <1>5, <2>2, TryEndBase DEF Safe
  <2>3. CASE Ended(a)
    BY <1>5, <2>3, TryEndBase DEF Safe, Ended
  <2> QED
    BY <1>1, <1>4, <2>1, <2>2, <2>3 DEF Ended, Phases
<1> QED
  BY <1>3, <1>5, <1>6

\* The result of a child is applied: the child is done, its report goes to the queue.
LEMMA ChildResultSafe ==
  ASSUME NEW s, NEW r, Safe(s, r),
         NEW c \in Children, s.child[c] \in {"live", "cancelled"}, NEW outcome \in Outcomes
  PROVE  Safe(OnChildAuthResult([s EXCEPT !.child[c] = "done"], TypeOf(c), outcome), r)
<1> DEFINE ch == [s.child EXCEPT ![c] = "done"]
           a == [s EXCEPT !.child = ch]
           b == ProcAuthResult(a, TypeOf(c), outcome)
<1>1. s \in Session(s.tasks) /\ s.child \in [Children -> ChildStates]
  BY DEF Safe, Base, Session
<1>2. ch \in [Children -> ChildStates]
  BY <1>1 DEF ChildStates
<1>3. \A d \in Children : ch[d] = s.child[d] \/ ch[d] = "done"
  BY <1>1
<1>4. [s EXCEPT !.child[c] = "done"] = a
  BY <1>1
<1> HIDE DEF ch
<1>5. /\ a \in Session(s.tasks) /\ a.phase = s.phase /\ a.fsm = s.fsm /\ a.results = s.results
      /\ a.running = s.running /\ a.released = s.released /\ a.timer = s.timer
      /\ a.tasks = s.tasks /\ a.child = ch /\ a.queue = s.queue
  BY <1>1, <1>2 DEF Session
<1> HIDE DEF a
<1>6. \A d \in Children : Live(a, d) => Live(s, d)
  BY <1>3, <1>5 DEF Live
<1>7. a \in Session(a.tasks)
  BY <1>5
<1>8. Books(a)
  BY <1>5, <1>6 DEF Safe, Base, Books
<1>9. Answer(a) /\ (Ended(a) /\ r = 0 => NoneLive(a))
  BY <1>5, <1>6 DEF Safe, Base, Answer, Ended, NoneLive
<1>10. a.phase = "RUNNING" /\ r = 0 => Running(a) /\ a.fsm = "AUTH_RUNNING"
  BY <1>3, <1>5 DEF Safe, Running
<1>11. Safe(a, r)
  BY <1>7, <1>8, <1>9, <1>10 DEF Safe, Base
<1>12. TypeOf(c) \in Types
  BY DEF TypeOf, Children
<1>13. b \in Session(s.tasks) /\ Quiet(a, b, AllEnders)
  BY <1>5, <1>12, AuthResultFacts
<1>14. OnChildAuthResult([s EXCEPT !.child[c] = "done"], TypeOf(c), outcome)
         = OnChildTerminated(IF a.phase = "RELEASED" THEN a ELSE b)
  BY <1>4 DEF OnChildAuthResult
<1> HIDE DEF b
<1>15. Safe(b, r)
  <2>1. CASE a.phase = "RUNNING" /\ r = 0
    <3>1. Enders(a.fsm) = AllEnders
      BY <1>10, <2>1 DEF Enders
    <3> QED
      BY <1>11, <1>13, <3>1, QuietSafe
  <2>2. CASE ~(a.phase = "RUNNING" /\ r = 0)
    <3>1. Base(b, r)
      BY <1>11, <1>13, QuietBase DEF Safe
    <3> QED
      BY <1>13, <2>2, <3>1 DEF Safe, Quiet
  <2> QED
    BY <2>1, <2>2
<1>16. CASE a.phase = "RELEASED"
  BY <1>11, <1>14, <1>16, ChildTerminatedSafe
<1>17. CASE a.phase # "RELEASED"
  BY <1>14, <1>15, <1>17, ChildTerminatedSafe
<1> QED
  BY <1>16, <1>17

-------------------------------------------------------------------------------
(* Handlers of the machine                                                 *)

\* What the handlers that start and stop children leave alone.
Steady(s, t) ==
  /\ t.phase = s.phase
  /\ t.timer = s.timer
  /\ t.released = s.released
  /\ Longer(s.queue, t.queue, AllEnders)

\* One new task for every type that has none.
LEMMA LaunchBase ==
  ASSUME NEW s, NEW r, Base(s, r), ~Ended(s), NEW types \in SUBSET s.running,
         \A c \in s.tasks : TypeOf(c) \notin types
  PROVE  Base(Launch(s, types), r) /\ Steady(s, Launch(s, types))
<1> DEFINE new == {NextAttempt(s, t) : t \in types}
           n == s.active + Cardinality(types)
           ts == s.tasks \cup new
           ch == [c \in Children |-> IF c \in new THEN "live" ELSE s.child[c]]
           u == [s EXCEPT !.active = n, !.tasks = ts, !.child = ch]
<1>1. s \in Session(s.tasks) /\ s.active \in Nat /\ s.child \in [Children -> ChildStates]
      /\ s.running \in SUBSET Types
  BY DEF Base, Session
<1>2. n \in Nat
  <2>1. IsFiniteSet(types)
    BY <1>1, SessionAssumption, FS_Subset
  <2> QED
    BY <1>1, <2>1, FS_CardinalityType
<1>3. ch \in [Children -> ChildStates]
  BY <1>1 DEF ChildStates
<1>4. \A c \in Children : ch[c] = "live" => c \in new \/ s.child[c] = "live"
  OBVIOUS
<1>5. \A t \in types : TypeOf(NextAttempt(s, t)) = t
  BY DEF TypeOf, NextAttempt
<1>6. \A c \in new : TypeOf(c) \in types /\ c = NextAttempt(s, TypeOf(c))
  BY <1>5
<1>7. Launch(s, types) = u
  BY DEF Launch
<1> HIDE DEF n, ch, new
<1>8. /\ u \in Session(ts) /\ u.phase = s.phase /\ u.results = s.results /\ u.running = s.running
      /\ u.released = s.released /\ u.timer = s.timer /\ u.queue = s.queue
      /\ u.tasks = ts /\ u.child = ch
  BY <1>1, <1>2, <1>3 DEF Session
<1> HIDE DEF u
<1>9. u \in Session(u.tasks)
  BY <1>8
<1>10. \A c \in Children : Live(u, c) => c \in ts
  BY <1>4, <1>8 DEF Live, Base, Books, Ended
<1>11. \A c \in ts : TypeOf(c) \in s.running
  BY <1>6 DEF Base, Books
<1>12. ASSUME NEW c \in ts, NEW d \in ts, TypeOf(c) = TypeOf(d) PROVE c = d
  <2>1. CASE c \in new /\ d \in new
    BY <1>6, <1>12, <2>1
  <2>2. CASE c \in s.tasks /\ d \in s.tasks
    BY <1>12, <2>2 DEF Base, Books
  <2>3. ~(c \in new /\ d \in s.tasks) /\ ~(c \in s.tasks /\ d \in new)
    BY <1>6, <1>12
  <2> QED
    BY <1>12, <2>1, <2>2, <2>3
<1>13. Books(u)
  BY <1>8, <1>10, <1>11, <1>12 DEF Books
<1>14. Answer(u) /\ ~Ended(u)
  BY <1>8 DEF Base, Answer, Ended
<1>15. Longer(s.queue, u.queue, AllEnders)
  BY <1>1, <1>8, SessionOwn, LongerSame
<1> QED
  BY <1>7, <1>8, <1>9, <1>13, <1>14, <1>15 DEF Base, Steady

LEMMA SteadyTwice ==
  ASSUME NEW s, NEW t, NEW u, s.queue \in Seq(Events), t.queue \in Seq(Events),
         u.queue \in Seq(Events), Steady(s, t), Steady(t, u)
  PROVE  Steady(s, u)
<1>1. Longer(s.queue, u.queue, AllEnders)
  BY LongerTwice DEF Steady
<1> QED
  BY <1>1 DEF Steady

\* The types that could not be started are reported.
LEMMA RefuseBase ==
  ASSUME NEW s, NEW r, Base(s, r), NEW types \in SUBSET Types, NEW last \in types
  PROVE  Base(Refuse(s, types, last), r) /\ Steady(s, Refuse(s, types, last))
<1> DEFINE n == Cardinality(types) - 1
           a == ProcAuthFailure(s, last, "fail")
           q == a.queue \o [i \in 1..n |-> "UPDATE_AUTH"]
           b == [a EXCEPT !.queue = q]
<1>1. n \in Nat
  <2>1. IsFiniteSet(types)
    BY SessionAssumption, FS_Subset
  <2>2. Cardinality(types) \in Nat /\ Cardinality(types) # 0
    BY <2>1, FS_CardinalityType, FS_EmptySet
  <2> QED
    BY <2>2
<1>2. s \in Session(s.tasks)
  BY DEF Base
<1>3. a \in Session(s.tasks) /\ Quiet(s, a, AllEnders)
  BY <1>2, AuthFailureFacts
<1>4. Refuse(s, types, last) = b
  BY DEF Refuse
<1> HIDE DEF n, a
<1>5. a.queue \in Seq(Events)
  BY <1>3, SessionOwn
<1>6. q \in Seq(Events) /\ Longer(a.queue, q, AllEnders)
  BY <1>1, <1>5, LongerConcat
<1> HIDE DEF q
<1>7. b \in Session(s.tasks) /\ Quiet(a, b, AllEnders)
  BY <1>3, <1>6 DEF Session, Quiet
<1> HIDE DEF b
<1>8. Quiet(s, b, AllEnders)
  BY <1>2, <1>3, <1>7, QuietTwice
<1>9. Base(b, r)
  BY <1>7, <1>8, QuietBase
<1> QED
  BY <1>4, <1>8, <1>9 DEF Steady, Quiet

LEMMA ExecuteBase ==
  ASSUME NEW s, NEW r, Base(s, r), NEW types \in SUBSET s.running,
         \A c \in s.tasks : TypeOf(c) \notin types,
         NEW after \in ExecuteAuthList(s, types)
  PROVE  Base(after, r) /\ Steady(s, after)
<1>1. s \in Session(s.tasks) /\ s.running \in SUBSET Types /\ s.queue \in Seq(Events)
  BY DEF Base, Session
<1>2. CASE Ended(s)
  <2>1. after = s
    BY <1>2 DEF ExecuteAuthList
  <2>2. Longer(s.queue, s.queue, AllEnders)
    BY <1>1, LongerSame
  <2> QED
    BY <2>1, <2>2 DEF Steady
<1>3. CASE ~Ended(s)
  <2>1. CASE after = Launch(s, types)
    BY <1>3, <2>1, LaunchBase
  <2>2. CASE after # Launch(s, types)
    <3>1. PICK p \in (SUBSET types) \X types :
                 p[2] \in p[1] /\ after = Refuse(Launch(s, types \ p[1]), p[1], p[2])
      BY <1>3, <2>2 DEF ExecuteAuthList
    <3> DEFINE u == Launch(s, types \ p[1])
    <3>2. Base(u, r) /\ Steady(s, u)
      <4>1. types \ p[1] \in SUBSET s.running /\ \A c \in s.tasks : TypeOf(c) \notin types \ p[1]
        OBVIOUS
      <4> QED
        BY <1>3, <4>1, LaunchBase
    <3> HIDE DEF u
    <3>3. p[1] \in SUBSET Types /\ p[2] \in p[1]
      BY <1>1, <3>1
    <3>4. Base(after, r) /\ Steady(u, after)
      BY <3>1, <3>2, <3>3, RefuseBase DEF u
    <3>5. u.queue \in Seq(Events) /\ after.queue \in Seq(Events)
      BY <3>2, <3>4, SessionOwn DEF Base
    <3> QED
      BY <1>1, <3>2, <3>4, <3>5, SteadyTwice
  <2> QED
    BY <2>1, <2>2
<1> QED
  BY <1>2, <1>3

\* A type is in the running set before its task exists.
LEMMA StartAuthBase ==
  ASSUME NEW s, NEW r, Base(s, r), NEW after \in OnStartAuth(s)
  PROVE  Base(after, r) /\ Steady(s, after)
<1> DEFINE run == s.running \cup s.toStart
           new == s.toStart \ s.running
           a == [s EXCEPT !.running = run]
<1>1. s \in Session(s.tasks) /\ run \in SUBSET Types /\ s.queue \in Seq(Events)
  BY DEF Base, Session
<1>2. after \in ExecuteAuthList(a, new)
  BY DEF OnStartAuth
<1>3. \A c \in s.tasks : TypeOf(c) \in run /\ TypeOf(c) \notin new
  BY DEF Base, Books
<1>4. new \subseteq run
  OBVIOUS
<1> HIDE DEF run, new
<1>5. /\ a \in Session(s.tasks) /\ a.phase = s.phase /\ a.results = s.results /\ a.running = run
      /\ a.released = s.released /\ a.timer = s.timer /\ a.queue = s.queue
      /\ a.tasks = s.tasks /\ a.child = s.child
  BY <1>1 DEF Session
<1> HIDE DEF a
<1>6. Books(a)
  BY <1>3, <1>5 DEF Base, Books, Live
<1>7. Answer(a) /\ (Ended(a) /\ r = 0 => NoneLive(a))
  BY <1>5 DEF Base, Answer, Ended, NoneLive, Live
<1>8. Base(a, r)
  BY <1>5, <1>6, <1>7 DEF Base
<1>9. Base(after, r) /\ Steady(a, after)
  BY <1>2, <1>3, <1>4, <1>5, <1>8, ExecuteBase
<1> QED
  BY <1>5, <1>9 DEF Steady

\* The tasks of the types that leave the running set leave the list.
LEMMA StopAuthListBase ==
  ASSUME NEW s, NEW r, Base(s, r), NEW after \in OnStopAuthList(s)
  PROVE  Base(after, r) /\ Steady(s, after)
<1> DEFINE run == s.running \ s.toStop
           stopped == {c \in s.tasks : TypeOf(c) \in s.toStop}
           a == [s EXCEPT !.running = run]
           b == CancelTasks(a, stopped)
<1>1. s \in Session(s.tasks) /\ run \in SUBSET Types /\ s.queue \in Seq(Events)
  BY DEF Base, Session
<1>2. after = b
  BY DEF OnStopAuthList
<1>3. \A c \in s.tasks \ stopped : TypeOf(c) \in run
  BY DEF Base, Books
<1> HIDE DEF run, stopped
<1>4. /\ a \in Session(s.tasks) /\ a.phase = s.phase /\ a.results = s.results /\ a.running = run
      /\ a.released = s.released /\ a.timer = s.timer /\ a.queue = s.queue
      /\ a.tasks = s.tasks /\ a.child = s.child
  BY <1>1 DEF Session
<1> HIDE DEF a
<1>5. /\ b \in Session(s.tasks)
      /\ b.phase = s.phase /\ b.results = s.results /\ b.running = run
      /\ b.released = s.released /\ b.timer = s.timer
      /\ b.tasks = s.tasks \ stopped /\ b.queue = s.queue
      /\ \A c \in Children : Live(b, c) <=> Live(a, c) /\ c \notin stopped
  BY <1>4, CancelTasksFacts
<1> HIDE DEF b
<1>6. \A c \in Children : Live(b, c) <=> Live(s, c) /\ c \notin stopped
  BY <1>4, <1>5 DEF Live
<1>7. Books(b)
  BY <1>3, <1>5, <1>6 DEF Base, Books
<1>8. Answer(b) /\ (Ended(b) /\ r = 0 => NoneLive(b))
  BY <1>5, <1>6 DEF Base, Answer, Ended, NoneLive
<1>9. b \in Session(b.tasks)
  BY <1>5, SessionOwn
<1>10. Longer(s.queue, b.queue, AllEnders)
  BY <1>1, <1>5, LongerSame
<1> QED
  BY <1>2, <1>5, <1>7, <1>8, <1>9, <1>10 DEF Base, Steady

\* The dialog is opened, or the session is told that it was not, or ends.
LEMMA ConnectBase ==
  ASSUME NEW s, NEW r, Base(s, r), NEW after \in ConnectExtension(s)
  PROVE  Base(after, r) /\ (Ended(after) \/ Quiet(s, after, {"CANCEL_AUTH"}))
<1> DEFINE E == {"CANCEL_AUTH"}
           a == [s EXCEPT !.shown = TRUE]
           b == [s EXCEPT !.conn = TRUE, !.shown = TRUE]
           c == [s EXCEPT !.conn = TRUE]
<1>1. s \in Session(s.tasks)
  BY DEF Base
<1>2. /\ a \in Session(s.tasks) /\ Quiet(s, a, E)
      /\ b \in Session(s.tasks) /\ Quiet(s, b, E)
      /\ c \in Session(s.tasks) /\ Quiet(s, c, E)
  BY <1>1, FlagFacts
<1>3. \/ after = Kick(s, "CANCEL_AUTH")
      \/ after = End(s, "CANCELED")
      \/ after = End(s, "LOCKED")
      \/ after \in {a, b}
      \/ after = Kick(c, "CANCEL_AUTH")
  BY DEF ConnectExtension, ConnectExtensionAbility, LaunchFailed
<1> HIDE DEF a, b, c
<1>4. CASE after \in {End(s, "CANCELED"), End(s, "LOCKED")}
  BY <1>4, EndBase DEF Codes
<1>5. CASE after \in {a, b}
  BY <1>2, <1>5, QuietBase
<1>6. CASE after = Kick(s, "CANCEL_AUTH")
  <2>1. after \in Session(s.tasks) /\ Quiet(s, after, E)
    BY <1>1, <1>6, KickFacts DEF Events
  <2> QED
    BY <2>1, QuietBase
<1>7. CASE after = Kick(c, "CANCEL_AUTH")
  <2>1. after \in Session(s.tasks) /\ Quiet(c, after, E)
    BY <1>2, <1>7, KickFacts DEF Events
  <2>2. Quiet(s, after, E)
    BY <1>1, <1>2, <2>1, QuietTwice
  <2> QED
    BY <2>1, <2>2, QuietBase
<1> QED
  BY <1>3, <1>4, <1>5, <1>6, <1>7

LEMMA StartScheduleBase ==
  ASSUME NEW s, NEW r, Base(s, r), NEW after \in OnStartSchedule(s)
  PROVE  Base(after, r) /\ (Ended(after) \/ Quiet(s, after, {"CANCEL_AUTH"}))
<1>1. CASE Ended(s)
  <2>1. s \in Session(s.tasks) /\ after = Kick(s, "CANCEL_AUTH")
    BY <1>1 DEF Base, OnStartSchedule, LaunchFailed
  <2>2. after \in Session(s.tasks) /\ Quiet(s, after, {"CANCEL_AUTH"})
    BY <2>1, KickFacts DEF Events
  <2> QED
    BY <2>2, QuietBase
<1>2. CASE ~Ended(s)
  BY <1>2, ConnectBase DEF OnStartSchedule
<1> QED
  BY <1>1, <1>2

\* The handlers that answer the caller.
LEMMA EndersBase ==
  ASSUME NEW s, NEW r, Base(s, r), NEW after
  PROVE  /\ after \in OnSuccessAuth(s) => Base(after, r) /\ Ended(after)
         /\ after \in OnFailAuth(s) => Base(after, r) /\ Ended(after)
         /\ after \in OnStopSchedule(s) => Base(after, r) /\ Ended(after)
         /\ after \in OnSendAuthResult(s) => Base(after, r) /\ Ended(after)
<1>1. s \in Session(s.tasks) /\ s.error \in Codes /\ s.told \in Codes
  BY DEF Base, Session
<1>2. \A code \in Codes : Base(End(s, code), r) /\ Ended(End(s, code))
  BY EndBase
<1> DEFINE filled == [s EXCEPT !.verdict = "success"]
<1>3. filled \in Session(s.tasks) /\ Quiet(s, filled, {})
  BY <1>1, FieldFacts
<1>4. after \in OnSendAuthResult(s) =>
        \/ after = End(filled, "SUCCESS") \/ after = End(filled, "FAIL")
        \/ after = End(s, s.told)
  BY DEF OnSendAuthResult
<1> HIDE DEF filled
<1>5. Base(filled, r)
  BY <1>3, QuietBase
<1>6. \A code \in Codes : Base(End(filled, code), r) /\ Ended(End(filled, code))
  BY <1>5, EndBase
<1>7. after \in OnSendAuthResult(s) => Base(after, r) /\ Ended(after)
  BY <1>1, <1>2, <1>4, <1>6 DEF Codes
<1>8. after \in OnSuccessAuth(s) => Base(after, r) /\ Ended(after)
  BY <1>2 DEF OnSuccessAuth, Codes
<1>9. after \in OnStopSchedule(s) => Base(after, r) /\ Ended(after)
  BY <1>2 DEF OnStopSchedule, Codes
<1>10. after \in OnFailAuth(s) => Base(after, r) /\ Ended(after)
  BY <1>1, <1>2 DEF OnFailAuth
<1> QED
  BY <1>7, <1>8, <1>9, <1>10

\* What each event does to the session: it ends it, or opens it, or works on its
\* children, or is one that a session without rotation meets only when it has ended.
LEMMA HandleBase ==
  ASSUME NEW s, NEW r, Base(s, r), NEW e \in Events, NEW after \in Handle(s, e),
         e = "RELEASE" => Ended(s) \/ r # 0
  PROVE  /\ Base(after, r)
         /\ Ended(s) => Ended(after)
         /\ \/ Ended(after)
            \/ e \in {"GET_PARAM", "START_WIDGET"} /\ Quiet(s, after, {"CANCEL_AUTH"})
            \/ e \in {"START_DIRECT", "START_AUTH", "UPDATE_AUTH"} /\ Steady(s, after)
            \/ e = "CANCEL_AUTH" /\ s.fsm = "RELOAD_WAITING"
            \/ e \in {"RELOAD", "RELEASE"}
<1>1. s \in Session(s.tasks)
  BY DEF Base
<1>2. CASE e = "GET_PARAM"
  <2>1. after = [s EXCEPT !.asked = TRUE]
    BY <1>2 DEF Handle, OnGetRemoteAuthParam
  <2>2. after \in Session(s.tasks) /\ Quiet(s, after, {"CANCEL_AUTH"})
    BY <1>1, <2>1, FlagFacts
  <2> QED
    BY <1>2, <2>2, QuietBase DEF Quiet, Ended
<1>3. CASE e = "START_WIDGET"
  <2>1. after \in OnStartSchedule(s)
    BY <1>3 DEF Handle
  <2> QED
    BY <1>3, <2>1, StartScheduleBase DEF Quiet, Ended
<1>4. CASE e \in {"START_DIRECT", "START_AUTH"}
  <2>1. after \in OnStartAuth(s)
    BY <1>4 DEF Handle
  <2> QED
    BY <1>4, <2>1, StartAuthBase DEF Steady, Ended
<1>5. CASE e = "UPDATE_AUTH"
  <2>1. after \in OnStopAuthList(s)
    BY <1>5 DEF Handle
  <2> QED
    BY <1>5, <2>1, StopAuthListBase DEF Steady, Ended
<1>6. CASE e = "COMPLETE_AUTH"
  <2>1. after \in OnSuccessAuth(s)
    BY <1>6 DEF Handle
  <2> QED
    BY <2>1, EndersBase
<1>7. CASE e = "STOP_AUTH"
  <2>1. after \in OnFailAuth(s)
    BY <1>7 DEF Handle
  <2> QED
    BY <2>1, EndersBase
<1>8. CASE e = "CANCEL_AUTH" /\ s.fsm = "RELOAD_WAITING"
  <2>1. after \in ConnectExtension(s)
    BY <1>8 DEF Handle, OnWidgetReload
  <2> QED
    BY <1>8, <2>1, ConnectBase DEF Quiet, Ended
<1>9. CASE e = "CANCEL_AUTH" /\ s.fsm # "RELOAD_WAITING"
  <2>1. after \in OnStopSchedule(s)
    BY <1>9 DEF Handle
  <2> QED
    BY <2>1, EndersBase
<1>10. CASE e = "NAVI_PIN"
  <2>1. after = End(s, "CANCELED_FROM_WIDGET")
    BY <1>10 DEF Handle
  <2> QED
    BY <2>1, EndBase DEF Codes
<1>11. CASE e = "PARA_INVALID"
  <2>1. after = End(s, "INVALID_PARAMETERS")
    BY <1>11 DEF Handle
  <2> QED
    BY <2>1, EndBase DEF Codes
<1>12. CASE e = "NOTICE_COMPLETE"
  <2>1. after \in OnSendAuthResult(s)
    BY <1>12 DEF Handle
  <2> QED
    BY <2>1, EndersBase
<1>13. CASE e = "RELOAD"
  <2>1. after = DisconnectExtension(s)
    BY <1>13 DEF Handle, OnWidgetReloadInit
  <2>2. after \in Session(s.tasks) /\ Quiet(s, after, {})
    BY <1>1, <2>1, DisconnectFacts
  <2> QED
    BY <1>13, <2>2, QuietBase DEF Quiet, Ended
<1>14. CASE e = "RELEASE"
  <2> DEFINE a == [s EXCEPT !.released = TRUE]
  <2>1. after = TryEndLocked(a)
    BY <1>14 DEF Handle, OnWidgetRelease
  <2>2. /\ a \in Session(s.tasks) /\ a.phase = s.phase /\ a.results = s.results
        /\ a.running = s.running /\ a.tasks = s.tasks /\ a.child = s.child
    BY <1>1 DEF Session
  <2> HIDE DEF a
  <2>3. Books(a) /\ Answer(a) /\ (Ended(a) <=> Ended(s)) /\ (NoneLive(a) <=> NoneLive(s))
    BY <2>2 DEF Base, Books, Answer, Ended, NoneLive, Live
  <2>4. Base(a, r)
    BY <2>2, <2>3 DEF Base
  <2> QED
    BY <1>14, <2>1, <2>3, <2>4, TryEndBase
<1> QED
  BY <1>2, <1>3, <1>4, <1>5, <1>6, <1>7, <1>8, <1>9, <1>10, <1>11, <1>12, <1>13, <1>14 DEF Events

\* The machine moves after its handler.
LEMMA MoveSafe ==
  ASSUME NEW s, NEW r, NEW f \in States, Base(s, r),
         s.phase = "RUNNING" /\ r = 0 =>
           /\ ~s.timer /\ ~s.released
           /\ f \in {"PARAM_WAITING", "WAITING", "AUTH_RUNNING"}
           /\ Guarded(s.queue, Enders(f)) /\ ~Rotates(s.queue)
           /\ f # "AUTH_RUNNING" => \A c \in Children : s.child[c] \notin {"live", "cancelled"}
  PROVE  Safe([s EXCEPT !.fsm = f], r)
<1> DEFINE t == [s EXCEPT !.fsm = f]
<1>1. s \in Session(s.tasks)
  BY DEF Base
<1>2. /\ t \in Session(s.tasks) /\ t.phase = s.phase /\ t.results = s.results
      /\ t.tasks = s.tasks /\ t.child = s.child /\ t.running = s.running /\ t.fsm = f
      /\ t.timer = s.timer /\ t.released = s.released /\ t.queue = s.queue
  BY <1>1 DEF Session
<1> HIDE DEF t
<1>3. /\ Books(t) /\ Answer(t) /\ (Ended(t) <=> Ended(s)) /\ (NoneLive(t) <=> NoneLive(s))
      /\ t \in Session(t.tasks)
  BY <1>2 DEF Base, Books, Answer, Ended, NoneLive, Live
<1>4. Base(t, r)
  BY <1>3 DEF Base
<1>5. t.phase = "RUNNING" /\ r = 0 => Running(t)
  BY <1>2 DEF Running
<1>6. Safe(t, r)
  BY <1>4, <1>5 DEF Safe
<1> QED
  BY <1>6 DEF t

\* The event at the head is taken: what the handler starts from.
LEMMA TakenFacts ==
  ASSUME NEW s, NEW r, Safe(s, r), s.queue # <<>>
  PROVE  LET t == [s EXCEPT !.queue = Tail(@)]
             e == Head(s.queue)
         IN /\ Base(t, r) /\ t \in Session(s.tasks) /\ e \in Events
            /\ t.phase = s.phase /\ t.fsm = s.fsm /\ t.timer = s.timer
            /\ t.released = s.released /\ t.child = s.child
            /\ t.queue = Tail(s.queue) /\ t.queue \in Seq(Events)
            /\ s.phase = "RUNNING" /\ r = 0 =>
                 /\ e \notin {"RELEASE", "RELOAD"}
                 /\ e \notin Enders(s.fsm) => Guarded(t.queue, Enders(s.fsm))
                 /\ ~Rotates(t.queue)
<1> DEFINE t == [s EXCEPT !.queue = Tail(s.queue)]
           e == Head(s.queue)
<1>1. s \in Session(s.tasks) /\ s.queue \in Seq(Events)
  BY SessionOwn DEF Safe, Base
<1>2. /\ e \in Events /\ Tail(s.queue) \in Seq(Events)
      /\ Guarded(s.queue, Enders(s.fsm)) => e # "RELEASE"
      /\ Guarded(s.queue, Enders(s.fsm)) /\ e \notin Enders(s.fsm)
            => Guarded(Tail(s.queue), Enders(s.fsm))
      /\ ~Rotates(s.queue) => e # "RELOAD" /\ ~Rotates(Tail(s.queue))
  BY <1>1, GuardedTail
<1>3. /\ t \in Session(s.tasks) /\ t.phase = s.phase /\ t.results = s.results
      /\ t.tasks = s.tasks /\ t.child = s.child /\ t.running = s.running /\ t.fsm = s.fsm
      /\ t.timer = s.timer /\ t.released = s.released /\ t.queue = Tail(s.queue)
  BY <1>1, <1>2 DEF Session
<1> HIDE DEF t, e
<1>4. /\ Books(t) /\ Answer(t) /\ (Ended(t) <=> Ended(s)) /\ (NoneLive(t) <=> NoneLive(s))
      /\ t \in Session(t.tasks)
  BY <1>3 DEF Safe, Base, Books, Answer, Ended, NoneLive, Live
<1>5. Base(t, r)
  BY <1>4 DEF Safe, Base
<1>6. s.phase = "RUNNING" /\ r = 0 => Guarded(s.queue, Enders(s.fsm)) /\ ~Rotates(s.queue)
  BY DEF Safe, Running
<1> QED
  BY <1>2, <1>3, <1>5, <1>6 DEF t, e

\* Where the events that keep a session going lead its machine.
LEMMA MovesOn ==
  ASSUME NEW f, NEW e, NEW next, <<f, e, next>> \in Transitions
  PROVE  /\ e = "GET_PARAM" => f = "INIT" /\ next = "PARAM_WAITING"
         /\ e = "START_WIDGET" => f \in {"INIT", "PARAM_WAITING"} /\ next = "WAITING"
         /\ e \in {"START_DIRECT", "START_AUTH", "UPDATE_AUTH"} => next = "AUTH_RUNNING"
BY DEF Transitions

\* Every event that ends a session has its transition, and so have the opening ones.
LEMMA EndersMove ==
  /\ \A f \in {"PARAM_WAITING", "WAITING", "AUTH_RUNNING"} : \A e \in Enders(f) :
        \E next \in States : <<f, e, next>> \in Transitions
  /\ \A e \in {"GET_PARAM", "START_WIDGET", "START_DIRECT"} :
        \E next \in States : <<"INIT", e, next>> \in Transitions
BY DEF Enders, AllEnders, Transitions, States

LEMMA MoreEnders ==
  ASSUME NEW q \in Seq(Events), NEW f, Guarded(q, Enders(f))
  PROVE  Guarded(q, AllEnders)
BY DEF Guarded, Enders, AllEnders

LEMMA DispatchSafe ==
  ASSUME NEW r, Safe(w, r), w.queue # <<>>,
         NEW next \in States, <<w.fsm, Head(w.queue), next>> \in Transitions,
         NEW after \in Handle([w EXCEPT !.queue = Tail(@)], Head(w.queue))
  PROVE  Safe([after EXCEPT !.fsm = next], r)
<1> DEFINE s == [w EXCEPT !.queue = Tail(@)]
           e == Head(w.queue)
<1>1. /\ Base(s, r) /\ e \in Events
      /\ s.phase = w.phase /\ s.fsm = w.fsm /\ s.timer = w.timer
      /\ s.released = w.released /\ s.child = w.child /\ s.queue \in Seq(Events)
      /\ w.phase = "RUNNING" /\ r = 0 =>
           /\ e \notin {"RELEASE", "RELOAD"}
           /\ e \notin Enders(w.fsm) => Guarded(s.queue, Enders(w.fsm))
           /\ ~Rotates(s.queue)
  BY TakenFacts
<1>2. after \in Handle(s, e) /\ <<w.fsm, e, next>> \in Transitions
  OBVIOUS
<1> HIDE DEF s, e
<1>3. w.phase \in Phases
  BY DEF Safe, Base, Session
<1>4. e = "RELEASE" => Ended(s) \/ r # 0
  BY <1>1, <1>3 DEF Ended, Phases
<1>5. /\ Base(after, r)
      /\ Ended(s) => Ended(after)
      /\ \/ Ended(after)
         \/ e \in {"GET_PARAM", "START_WIDGET"} /\ Quiet(s, after, {"CANCEL_AUTH"})
         \/ e \in {"START_DIRECT", "START_AUTH", "UPDATE_AUTH"} /\ Steady(s, after)
         \/ e = "CANCEL_AUTH" /\ s.fsm = "RELOAD_WAITING"
         \/ e \in {"RELOAD", "RELEASE"}
  BY <1>1, <1>2, <1>4, HandleBase
<1>6. /\ e = "GET_PARAM" => w.fsm = "INIT" /\ next = "PARAM_WAITING"
      /\ e = "START_WIDGET" => w.fsm \in {"INIT", "PARAM_WAITING"} /\ next = "WAITING"
      /\ e \in {"START_DIRECT", "START_AUTH", "UPDATE_AUTH"} => next = "AUTH_RUNNING"
  BY <1>2, MovesOn
<1>7. CASE Ended(after)
  BY <1>5, <1>7, EndedSafe
<1>8. CASE w.phase = "RUNNING" /\ r = 0 /\ ~Ended(after)
  <2>1. Running(w)
    BY <1>8 DEF Safe
  <2>2. /\ ~s.timer /\ ~s.released /\ ~Rotates(s.queue) /\ w.fsm # "RELOAD_WAITING"
        /\ e \notin {"RELEASE", "RELOAD"}
    BY <1>1, <1>8, <2>1 DEF Running
  <2>3. after.queue \in Seq(Events)
    BY <1>5, SessionOwn DEF Base
  <2>4. CASE e \in {"GET_PARAM", "START_WIDGET"} /\ Quiet(s, after, {"CANCEL_AUTH"})
    <3>1. /\ w.fsm \in {"INIT", "PARAM_WAITING"} /\ next \in {"PARAM_WAITING", "WAITING"}
          /\ e \notin Enders(w.fsm)
      BY <1>6, <2>4 DEF Enders
    <3>2. Enders(w.fsm) = {"CANCEL_AUTH"} /\ Enders(next) = {"CANCEL_AUTH"}
      BY <3>1 DEF Enders
    <3>3. Guarded(after.queue, Enders(next)) /\ ~Rotates(after.queue)
      BY <1>1, <1>8, <2>2, <2>4, <3>1, <3>2 DEF Quiet, Longer
    <3>4. ~after.timer /\ ~after.released
      BY <2>2, <2>4 DEF Quiet
    <3>5. \A c \in Children : after.child[c] \notin {"live", "cancelled"}
      BY <1>1, <2>1, <2>4, <3>1 DEF Quiet, Running
    <3> QED
      BY <1>5, <3>1, <3>3, <3>4, <3>5, MoveSafe
  <2>5. CASE e \in {"START_DIRECT", "START_AUTH", "UPDATE_AUTH"} /\ Steady(s, after)
    <3>1. next = "AUTH_RUNNING" /\ Enders(next) = AllEnders /\ e \notin Enders(w.fsm)
      BY <1>6, <2>5 DEF Enders, AllEnders
    <3>2. Guarded(s.queue, AllEnders)
      BY <1>1, <1>8, <3>1, MoreEnders
    <3>3. Guarded(after.queue, Enders(next)) /\ ~Rotates(after.queue)
      BY <2>2, <2>5, <3>1, <3>2 DEF Steady, Longer
    <3>4. ~after.timer /\ ~after.released
      BY <2>2, <2>5 DEF Steady
    <3> QED
      BY <1>5, <3>1, <3>3, <3>4, MoveSafe
  <2> QED
    BY <1>1, <1>5, <1>8, <2>2, <2>4, <2>5
<1>9. CASE r # 0
  BY <1>5, <1>9, MoveSafe
<1>10. CASE Ended(w)
  <2>1. Ended(after)
    BY <1>1, <1>5, <1>10 DEF Ended
  <2> QED
    BY <1>5, <2>1, EndedSafe
<1> QED
  BY <1>3, <1>7, <1>8, <1>9, <1>10 DEF Ended, Phases

\* An event that means nothing is dropped: none that would end the session is, and
\* of the events that open one only the first of a direct session.
LEMMA IgnoreSafe ==
  ASSUME NEW r, Safe(w, r), w.queue # <<>>, para \in Paras,
         \A next \in States : <<w.fsm, Head(w.queue), next>> \notin Transitions
  PROVE  Safe([w EXCEPT !.queue = Tail(@)], r)
<1> DEFINE s == [w EXCEPT !.queue = Tail(@)]
           e == Head(w.queue)
<1>1. /\ Base(s, r) /\ e \in Events
      /\ s.phase = w.phase /\ s.fsm = w.fsm /\ s.timer = w.timer
      /\ s.released = w.released /\ s.child = w.child
      /\ s.queue = Tail(w.queue) /\ s.queue \in Seq(Events)
      /\ w.phase = "RUNNING" /\ r = 0 =>
           /\ e \notin Enders(w.fsm) => Guarded(s.queue, Enders(w.fsm))
           /\ ~Rotates(s.queue)
  BY TakenFacts
<1>2. \A next \in States : <<w.fsm, e, next>> \notin Transitions
  OBVIOUS
<1>3. w.queue \in Seq(Events)
  BY SessionOwn DEF Safe, Base
<1>4. e = w.queue[1] /\ (Len(w.queue) > 1 => Tail(w.queue)[1] = w.queue[2] /\ Len(Tail(w.queue)) > 0)
  BY <1>3
<1> HIDE DEF s, e
<1>5. ASSUME w.phase = "RUNNING", r = 0 PROVE Running(s)
  <2>1. Running(w)
    BY <1>5 DEF Safe
  <2>2. w.fsm = "INIT" => e = "START_AUTH" /\ Opens(s.queue)
    <3>1. ASSUME w.fsm = "INIT" PROVE e = "START_AUTH" /\ Opens(s.queue)
      <4>1. Opens(w.queue)
        BY <2>1, <3>1 DEF Running
      <4>2. e \notin {"GET_PARAM", "START_WIDGET", "START_DIRECT"}
        BY <1>2, <3>1, EndersMove
      <4>3. para.mode \in {"widget", "remote", "direct"}
        BY SessionAssumption DEF Paras
      <4>4. /\ para.mode = "direct" /\ Len(w.queue) > 1 /\ e = "START_AUTH"
            /\ w.queue[2] = "START_DIRECT"
        BY <1>4, <4>1, <4>2, <4>3 DEF Opens
      <4> QED
        BY <1>1, <1>4, <4>4 DEF Opens
    <3> QED
      BY <3>1
  <2>3. e \notin Enders(w.fsm)
    <3>1. CASE w.fsm = "INIT"
      BY <2>2, <3>1 DEF Enders
    <3>2. CASE w.fsm # "INIT"
      BY <1>2, <2>1, <3>2, EndersMove DEF Running
    <3> QED
      BY <3>1, <3>2
  <2> QED
    BY <1>1, <1>5, <2>1, <2>2, <2>3 DEF Running
<1>6. Safe(s, r)
  BY <1>1, <1>5 DEF Safe
<1> QED
  BY <1>6 DEF s

\* A session that does not start has its answer at once.
LEMMA StartFailedSafe ==
  ASSUME NEW r, NEW code \in Codes
  PROVE  Safe(OnStartFailed(NewSession, code), r)
<1> DEFINE n == [c \in Children |-> "none"]
           q == Append(<<>>, code)
           s == [NewSession EXCEPT !.phase = "RESULT_DELIVERED", !.results = Append(@, code)]
<1>1. OnStartFailed(NewSession, code) = EndLocked(s)
  BY DEF OnStartFailed
<1>2. q \in Seq(Codes) /\ Len(q) = 1 /\ <<>> \in Seq(Events)
  OBVIOUS
<1>3. n \in [Children -> ChildStates] /\ \A c \in Children : n[c] # "live"
  BY DEF ChildStates
<1>4. s.results = q /\ s.child = n
  BY DEF NewSession
<1> HIDE DEF n, q
<1>5. /\ s.phase = "RESULT_DELIVERED" /\ s.tasks = {}
      /\ s \in Session({})
  BY <1>2, <1>3, <1>4 DEF Session, NewSession, Phases, States, Codes
<1> HIDE DEF s
<1>6. Books(s) /\ Answer(s) /\ Ended(s) /\ NoneLive(s) /\ s \in Session(s.tasks)
  BY <1>2, <1>3, <1>4, <1>5 DEF Books, Answer, Ended, NoneLive, Live
<1>7. Base(s, r)
  BY <1>6 DEF Base
<1>8. Base(EndLocked(s), r) /\ Ended(EndLocked(s))
  BY <1>6, <1>7, EndLockedBase
<1> QED
  BY <1>1, <1>8 DEF Safe, Ended

\* A session that starts has its opening event in the queue.
LEMMA OpenedSafe ==
  ASSUME NEW r, para \in Paras
  PROVE  Safe(Opened(NewSession), r)
<1> DEFINE n == [c \in Children |-> "none"]
           k == [NewSession EXCEPT !.phase = "RUNNING", !.listed = TRUE, !.current = "this"]
           d == [k EXCEPT !.toStart = para.types]
           u == Opened(NewSession)
<1>1. para.mode \in {"widget", "remote", "direct"} /\ para.types \in SUBSET Types
  BY SessionAssumption DEF Paras
<1>2. n \in [Children -> ChildStates] /\ \A c \in Children : n[c] \notin {"live", "cancelled"}
  BY DEF ChildStates
<1>3. k.child = n
  BY DEF NewSession
<1> HIDE DEF n
<1>4. /\ k \in Session({}) /\ k.phase = "RUNNING" /\ k.fsm = "INIT" /\ k.tasks = {}
      /\ k.results = <<>> /\ k.queue = <<>> /\ ~k.timer /\ ~k.released
  <2>1. <<>> \in Seq(Events) /\ <<>> \in Seq(Codes)
    OBVIOUS
  <2> QED
    BY <1>2, <1>3, <2>1 DEF Session, NewSession, Phases, States, Codes
<1>5. \/ para.mode = "direct" /\ u = Kick(Kick(d, "START_AUTH"), "START_DIRECT")
      \/ para.mode = "remote" /\ u = Kick(k, "GET_PARAM")
      \/ para.mode = "widget" /\ u = Kick(k, "START_WIDGET")
  BY <1>1 DEF Opened
<1> HIDE DEF k, u
<1>6. d \in Session({}) /\ Quiet(k, d, {"CANCEL_AUTH"}) /\ d.queue = <<>>
  <2>1. d.queue = <<>>
    BY <1>4 DEF Session
  <2> QED
    BY <1>1, <1>4, <2>1, FieldFacts
<1> HIDE DEF d
<1>7. u \in Session({}) /\ Quiet(k, u, {"CANCEL_AUTH"}) /\ Opens(u.queue)
  <2>1. CASE para.mode = "direct"
    <3> DEFINE a == Kick(d, "START_AUTH")
    <3>1. a \in Session({}) /\ Quiet(d, a, {"CANCEL_AUTH"}) /\ a.queue = <<"START_AUTH">>
      <4>1. a.queue = <<"START_AUTH">>
        BY <1>6 DEF Kick, Session
      <4> QED
        BY <1>6, <4>1, KickFacts DEF Events
    <3> HIDE DEF a
    <3>2. u = Kick(a, "START_DIRECT")
      BY <1>5, <2>1 DEF a
    <3>3. u \in Session({}) /\ Quiet(a, u, {"CANCEL_AUTH"})
      BY <3>1, <3>2, KickFacts DEF Events
    <3>4. Len(u.queue) = 2 /\ u.queue[1] = "START_AUTH" /\ u.queue[2] = "START_DIRECT"
      <4>1. u.queue = Append(a.queue, "START_DIRECT")
        BY <3>1, <3>2 DEF Kick, Session
      <4>2. a.queue \in Seq(Events) /\ Len(a.queue) = 1 /\ a.queue[1] = "START_AUTH"
        BY <3>1, SessionOwn
      <4>3. "START_DIRECT" \in Events
        BY DEF Events
      <4> QED
        BY <4>1, <4>2, <4>3
    <3>5. Quiet(k, a, {"CANCEL_AUTH"})
      BY <1>4, <1>6, <3>1, QuietTwice
    <3>6. Quiet(k, u, {"CANCEL_AUTH"})
      BY <1>4, <3>1, <3>3, <3>5, QuietTwice
    <3>7. Opens(u.queue)
      BY <2>1, <3>4 DEF Opens
    <3> QED
      BY <3>3, <3>6, <3>7
  <2>2. ASSUME NEW e \in {"GET_PARAM", "START_WIDGET"}, u = Kick(k, e)
        PROVE  u \in Session({}) /\ Quiet(k, u, {"CANCEL_AUTH"}) /\ u.queue = <<e>>
    <3>1. u.queue = <<e>>
      BY <1>4, <2>2 DEF Kick, Session
    <3> QED
      BY <1>4, <2>2, <3>1, KickFacts DEF Events
  <2>3. CASE para.mode = "remote"
    BY <1>5, <2>2, <2>3 DEF Opens
  <2>4. CASE para.mode = "widget"
    BY <1>5, <2>2, <2>4 DEF Opens
  <2> QED
    BY <1>1, <2>1, <2>3, <2>4
<1>8. Books(k) /\ Answer(k) /\ ~Ended(k) /\ k \in Session(k.tasks)
  BY <1>2, <1>3, <1>4 DEF Books, Answer, Ended, Live
<1>9. Base(u, r)
  BY <1>7, <1>8, QuietBase DEF Base
<1>10. Guarded(<<>>, {"CANCEL_AUTH"}) /\ ~Rotates(<<>>)
  BY DEF Guarded, Rotates
<1>11. Running(u)
  BY <1>2, <1>3, <1>4, <1>7, <1>10 DEF Running, Quiet, Longer, Enders
<1> QED
  BY <1>9, <1>11 DEF Safe, u

-------------------------------------------------------------------------------
(* The steps                                                               *)

LEMMA InitInv == Init => WidgetInv
BY DEF Init, WidgetInv

\* The context is stopped from outside, whatever it is doing.
LEMMA StopSafe ==
  ASSUME NEW r, Safe(w, r)
  PROVE  Safe(ClearScheduleOfClient(End(w, "CANCELED")), r)
<1> DEFINE s == End(w, "CANCELED")
<1>1. Base(s, r) /\ Ended(s)
  BY EndBase DEF Safe, Codes
<1> HIDE DEF s
<1>2. s \in Session(s.tasks)
  BY <1>1 DEF Base
<1>3. /\ ClearScheduleOfClient(s) \in Session(s.tasks)
      /\ Quiet(s, ClearScheduleOfClient(s), {"CANCEL_AUTH"})
  BY <1>2, ClearScheduleFacts
<1>4. Base(ClearScheduleOfClient(s), r)
  BY <1>1, <1>3, QuietBase
<1> QED
  BY <1>1, <1>3, <1>4 DEF Safe, Quiet, Ended, s

\* The watchdog: it is armed when the caller has its answer, or after a rotation.
LEMMA WatchdogSafe ==
  ASSUME NEW r, Safe(w, r), w.timer
  PROVE  Safe(EndLocked([w EXCEPT !.active = 0]), r)
<1> DEFINE s == [w EXCEPT !.active = 0]
<1>1. w \in Session(w.tasks) /\ w.phase \in Phases
  BY DEF Safe, Base, Session
<1>2. Longer(w.queue, w.queue, {})
  BY <1>1, SessionOwn, LongerSame
<1>3. s \in Session(w.tasks) /\ Quiet(w, s, {})
  BY <1>1, <1>2 DEF Session, Quiet
<1> HIDE DEF s
<1>4. Base(s, r)
  BY <1>3, QuietBase DEF Safe
<1>5. Ended(s) \/ r # 0
  BY <1>1, <1>3 DEF Safe, Running, Quiet, Ended, Phases
<1>6. Base(EndLocked(s), r) /\ Ended(EndLocked(s))
  BY <1>4, <1>5, EndLockedBase
<1> QED
  BY <1>6 DEF Safe, Ended, s

\* What the dialog, the tips of the children and the other sessions do to a session.
LEMMA NoticeSafe ==
  ASSUME NEW r, Safe(w, r)
  PROVE  /\ \A e \in Events \ {"RELEASE", "RELOAD"} : Safe(Kick(w, e), r)
         /\ \A types \in SUBSET Types : /\ Safe(Kick([w EXCEPT !.toStart = types], "START_AUTH"), r)
                                        /\ Safe(StopAuthList(w, types), r)
         /\ \A code \in Codes : /\ Safe(Kick([w EXCEPT !.told = code], "NOTICE_COMPLETE"), r)
                                /\ Safe(Kick([w EXCEPT !.error = code], "STOP_AUTH"), r)
         /\ Safe(ClearScheduleOfClient(w), r)
         /\ \A v \in {"none", "this", "other"} : Safe([w EXCEPT !.current = v], r)
<1> DEFINE E == Enders(w.fsm)
<1>1. w \in Session(w.tasks) /\ "CANCEL_AUTH" \in E
  BY DEF Safe, Base, Enders, AllEnders
<1> HIDE DEF E
<1>2. ASSUME NEW s \in Session(w.tasks), Quiet(w, s, E) PROVE Safe(s, r)
  BY <1>2, QuietSafe DEF E
<1>3. ASSUME NEW s \in Session(w.tasks), Quiet(w, s, E), NEW e \in Events \ {"RELEASE", "RELOAD"}
      PROVE  Safe(Kick(s, e), r)
  <2>1. Kick(s, e) \in Session(w.tasks) /\ Quiet(s, Kick(s, e), E)
    BY KickFacts
  <2>2. Quiet(w, Kick(s, e), E)
    BY <1>1, <1>3, <2>1, QuietTwice
  <2> QED
    BY <1>2, <2>1, <2>2
<1>4. \A e \in Events \ {"RELEASE", "RELOAD"} : Safe(Kick(w, e), r)
  BY <1>1, <1>2, KickFacts
<1>5. ASSUME NEW types \in SUBSET Types
      PROVE  /\ Safe(Kick([w EXCEPT !.toStart = types], "START_AUTH"), r)
             /\ Safe(StopAuthList(w, types), r)
  <2> DEFINE s == [w EXCEPT !.toStart = types]
  <2>1. s \in Session(w.tasks) /\ Quiet(w, s, E)
    BY <1>1, FieldFacts
  <2> HIDE DEF s
  <2>2. Safe(Kick(s, "START_AUTH"), r)
    BY <1>3, <2>1 DEF Events
  <2>3. Safe(StopAuthList(w, types), r)
    BY <1>1, <1>2, StopAuthListFacts
  <2> QED
    BY <2>2, <2>3 DEF s
<1>6. ASSUME NEW code \in Codes
      PROVE  /\ Safe(Kick([w EXCEPT !.told = code], "NOTICE_COMPLETE"), r)
             /\ Safe(Kick([w EXCEPT !.error = code], "STOP_AUTH"), r)
  <2> DEFINE s == [w EXCEPT !.told = code]
             u == [w EXCEPT !.error = code]
  <2>1. s \in Session(w.tasks) /\ Quiet(w, s, E) /\ u \in Session(w.tasks) /\ Quiet(w, u, E)
    BY <1>1, FieldFacts
  <2> HIDE DEF s, u
  <2>2. Safe(Kick(s, "NOTICE_COMPLETE"), r) /\ Safe(Kick(u, "STOP_AUTH"), r)
    BY <1>3, <2>1 DEF Events
  <2> QED
    BY <2>2 DEF s, u
<1>7. Safe(ClearScheduleOfClient(w), r)
  BY <1>1, <1>2, ClearScheduleFacts
<1>8. \A v \in {"none", "this", "other"} : Safe([w EXCEPT !.current = v], r)
  BY <1>1, <1>2, FieldFacts
<1> QED
  BY <1>4, <1>5, <1>6, <1>7, <1>8

\* A rotation: the argument about the queue is given up.
LEMMA ReloadSafe ==
  ASSUME NEW r \in Nat, Safe(w, r)
  PROVE  Safe(Kick(w, "RELOAD"), r + 1)
<1> DEFINE s == Kick(w, "RELOAD")
<1>1. w \in Session(w.tasks) /\ w.queue \in Seq(Events)
  BY SessionOwn DEF Safe, Base
<1>2. Append(w.queue, "RELOAD") \in Seq(Events)
  BY <1>1 DEF Events
<1>3. /\ s \in Session(w.tasks) /\ s.phase = w.phase /\ s.results = w.results
      /\ s.running = w.running /\ s.tasks = w.tasks /\ s.child = w.child
  BY <1>1, <1>2 DEF Session, Kick
<1> HIDE DEF s
<1>4. Books(s) /\ Answer(s) /\ s \in Session(s.tasks)
  BY <1>3 DEF Safe, Base, Books, Answer, Ended, Live
<1> QED
  BY <1>4 DEF Safe, Base, s

\* A session that has not started is only started, or stopped.
LEMMA OnlyStart ==
  ASSUME w = NewSession, Next
  PROVE  Start \/ StopBeforeStart
<1>1. /\ w.phase = "NOT_STARTED" /\ w.queue = <<>> /\ ~w.timer /\ ~w.shown /\ ~w.asked
      /\ ~w.conn /\ w.current = "none"
      /\ \A c \in Children : w.child[c] = "none"
  BY DEF NewSession
<1> QED
  BY <1>1 DEF Next, Stop, Dispatch, Ignore, Watchdog, ChildTip, ChildResult, AuthReady, EndTypes,
              CancelAll, UserNavigation, WidgetParaInvalid, Reload, ProcessTerminate, CompleteAuth,
              Notice, SetRemoteAuthParam, DialogLost, OtherSessionOpens, OtherSessionEnds

LEMMA StepInv ==
  ASSUME WidgetInv, [Next]_vars
  PROVE  WidgetInv'
<1>1. para \in Paras /\ reloads \in Nat /\ notices \in Nat /\ (w = NewSession \/ Safe(w, reloads))
  BY DEF WidgetInv
<1>2. ASSUME para' = para, reloads' \in Nat, notices' \in Nat,
             w' = NewSession \/ Safe(w', reloads')
      PROVE  WidgetInv'
  BY <1>1, <1>2 DEF WidgetInv, Safe, Base, Running, Opens, Books, Answer, Ended, NoneLive, Live,
                    Session, NewSession
<1>3. CASE UNCHANGED vars
  BY <1>1, <1>2, <1>3 DEF vars
<1>4. CASE w = NewSession /\ Next
  <2>1. Start \/ StopBeforeStart
    BY <1>4, OnlyStart
  <2>2. w' \in {Opened(w), OnStartFailed(w, "FAIL"), OnStartFailed(w, "CANCELED")}
        /\ UNCHANGED <<para, notices, reloads>>
    BY <2>1 DEF Start, StopBeforeStart
  <2>3. Safe(w', reloads)
    BY <1>1, <1>4, <2>2, OpenedSafe, StartFailedSafe DEF Codes
  <2> QED
    BY <1>1, <1>2, <2>2, <2>3
<1>5. CASE Safe(w, reloads) /\ Next
  <2>0. Safe(w, reloads) /\ w.phase \in Phases
    BY <1>5 DEF Safe, Base, Session
  <2>1. ASSUME UNCHANGED <<para, reloads>>, notices' \in {notices, notices + 1}, Safe(w', reloads)
        PROVE  WidgetInv'
    BY <1>1, <1>2, <2>1
  <2>2. CASE Start \/ StopBeforeStart
    BY <2>0, <2>2 DEF Start, StopBeforeStart, Phases
  <2>3. CASE Stop
    BY <2>0, <2>1, <2>3, StopSafe DEF Stop
  <2>4. CASE Dispatch
    <3>1. PICK next \in States, after \in Handle([w EXCEPT !.queue = Tail(@)], Head(w.queue)) :
             /\ <<w.fsm, Head(w.queue), next>> \in Transitions
             /\ w' = [after EXCEPT !.fsm = next]
      <4>1. [w EXCEPT !.queue = Tail(@)].fsm = w.fsm
        BY <2>0 DEF Safe, Base, Session
      <4> QED
        BY <2>4, <4>1 DEF Dispatch
    <3>2. w.queue # <<>> /\ UNCHANGED <<para, notices, reloads>>
      BY <2>4 DEF Dispatch
    <3>3. Safe(w', reloads)
      BY <2>0, <3>1, <3>2, DispatchSafe
    <3> QED
      BY <2>1, <3>2, <3>3
  <2>5. CASE Ignore
    <3>1. Safe(w', reloads) /\ UNCHANGED <<para, notices, reloads>>
      BY <1>1, <2>0, <2>5, IgnoreSafe DEF Ignore
    <3> QED
      BY <2>1, <3>1
  <2>6. CASE Watchdog
    BY <2>0, <2>1, <2>6, WatchdogSafe DEF Watchdog
  <2>7. ASSUME NEW c \in Children, ChildTip(c) PROVE WidgetInv'
    <3>1. /\ UNCHANGED <<para, reloads>> /\ notices' = notices + 1
          /\ \/ w' = Kick([w EXCEPT !.error = "LOCKED"], "STOP_AUTH")
             \/ w' = Kick(w, "NAVI_PIN")
      BY <2>7 DEF ChildTip, NotifyAuthFail
    <3>2. Safe(w', reloads)
      BY <2>0, <3>1, NoticeSafe DEF Codes, Events
    <3> QED
      BY <2>1, <3>1, <3>2
  <2>8. ASSUME NEW c \in Children, NEW o \in Outcomes, ChildResult(c, o) PROVE WidgetInv'
    <3>1. /\ w.child[c] \in {"live", "cancelled"} /\ UNCHANGED <<para, notices, reloads>>
          /\ w' = OnChildAuthResult([w EXCEPT !.child[c] = "done"], TypeOf(c), o)
      BY <2>8 DEF ChildResult
    <3>2. Safe(w', reloads)
      BY <2>0, <3>1, ChildResultSafe
    <3> QED
      BY <2>1, <3>1, <3>2
  <2>9. ASSUME NEW types \in SUBSET para.types \ {{}}, AuthReady(types) \/ EndTypes(types)
        PROVE  WidgetInv'
    <3>1. types \in SUBSET Types
      BY <1>1, SessionAssumption DEF Paras
    <3>2. /\ UNCHANGED <<para, reloads>> /\ notices' = notices + 1
          /\ \/ w' = Kick([w EXCEPT !.toStart = types], "START_AUTH")
             \/ w' = StopAuthList(w, types)
      BY <2>9 DEF AuthReady, EndTypes, Notice
    <3>3. Safe(w', reloads)
      BY <2>0, <3>1, <3>2, NoticeSafe
    <3> QED
      BY <2>1, <3>2, <3>3
  <2>10. CASE CancelAll \/ UserNavigation \/ WidgetParaInvalid \/ SetRemoteAuthParam
    <3>1. /\ UNCHANGED <<para, reloads>> /\ notices' = notices + 1
          /\ \E e \in {"CANCEL_AUTH", "NAVI_PIN", "PARA_INVALID", "START_WIDGET"} : w' = Kick(w, e)
      BY <2>10 DEF CancelAll, UserNavigation, WidgetParaInvalid, SetRemoteAuthParam, Notice
    <3>2. Safe(w', reloads)
      BY <2>0, <3>1, NoticeSafe DEF Events
    <3> QED
      BY <2>1, <3>1, <3>2
  <2>11. ASSUME NEW code \in {"SUCCESS", "FAIL"}, CompleteAuth(code) PROVE WidgetInv'
    <3>1. /\ UNCHANGED <<para, reloads>> /\ notices' = notices + 1
          /\ w' = Kick([w EXCEPT !.told = code], "NOTICE_COMPLETE")
      BY <2>11 DEF CompleteAuth, Notice
    <3>2. Safe(w', reloads)
      BY <2>0, <3>1, NoticeSafe DEF Codes
    <3> QED
      BY <2>1, <3>1, <3>2
  <2>12. CASE Reload
    <3>1. para' = para /\ reloads' = reloads + 1 /\ notices' = notices + 1 /\ w' = Kick(w, "RELOAD")
      BY <2>12 DEF Reload, Notice
    <3>2. Safe(w', reloads + 1)
      BY <1>1, <2>0, <3>1, ReloadSafe
    <3> QED
      BY <1>1, <1>2, <3>1, <3>2
  <2>13. CASE ProcessTerminate \/ DialogLost
    <3>1. /\ UNCHANGED <<para, reloads>> /\ notices' \in {notices, notices + 1}
          /\ w' = ClearScheduleOfClient(w)
      BY <2>13 DEF ProcessTerminate, DialogLost, Notice
    <3>2. Safe(w', reloads)
      BY <2>0, <3>1, NoticeSafe
    <3> QED
      BY <2>1, <3>1, <3>2
  <2>14. CASE OtherSessionOpens \/ OtherSessionEnds
    <3>1. /\ UNCHANGED <<para, notices, reloads>>
          /\ \E v \in {"none", "this", "other"} : w' = [w EXCEPT !.current = v]
      BY <2>14 DEF OtherSessionOpens, OtherSessionEnds
    <3>2. Safe(w', reloads)
      BY <2>0, <3>1, NoticeSafe
    <3> QED
      BY <2>1, <3>1, <3>2
  <2> QED
    BY <1>5, <2>2, <2>3, <2>4, <2>5, <2>6, <2>7, <2>8, <2>9, <2>10, <2>11, <2>12, <2>13, <2>14
       DEF Next
<1> QED
  BY <1>1, <1>3, <1>4, <1>5

\* The invariant of a session holds for any types, sessions and number of attempts:
\* the context, its machine and its children agree, and a RELEASE of the machine
\* always stands behind an event that answers the caller first.
THEOREM SessionInvariant == Spec => []WidgetInv
<1>1. Init => WidgetInv
  BY InitInv
<1>2. WidgetInv /\ [Next]_vars => WidgetInv'
  BY StepInv
<1> QED
  BY <1>1, <1>2, PTL DEF Spec

\* The caller of a session is answered exactly once, whichever of the event, binder
\* and timer threads gets to WidgetContext::End, OnStartFailed or EndLocked first.
THEOREM AnswerTheorem == Spec => []AnsweredOnce
<1>1. WidgetInv => AnsweredOnce
  <2>1. w = NewSession => AnsweredOnce
    BY DEF NewSession, AnsweredOnce, Ended
  <2> QED
    BY <2>1 DEF WidgetInv, Safe, Base, Answer, AnsweredOnce
<1> QED
  BY <1>1, SessionInvariant, PTL

\* runningAuthTypeSet_ of the machine and runTaskInfoList_ of the context never let two
\* children of one type go on together.
THEOREM AttemptTheorem == Spec => []OneAttemptPerType
<1>1. WidgetInv => OneAttemptPerType
  <2>1. w = NewSession => OneAttemptPerType
    BY DEF NewSession, OneAttemptPerType
  <2> QED
    BY <2>1 DEF WidgetInv, Safe, Base, Books, Live, OneAttemptPerType
<1> QED
  BY <1>1, SessionInvariant, PTL

\* StopAllRunTask reaches every child before the caller is answered, as long as the
\* dialog was not rotated.
THEOREM OrphanTheorem == Spec => []NoOrphanChild
<1>1. WidgetInv => NoOrphanChild
  <2>1. w = NewSession => NoOrphanChild
    BY DEF NewSession, NoOrphanChild
  <2> QED
    BY <2>1 DEF WidgetInv, Safe, Base, NoneLive, Live, NoOrphanChild
<1> QED
  BY <1>1, SessionInvariant, PTL
===============================================================================
