------------------------ MODULE ExecutorRegistry_proofs ------------------------
(***************************************************************************)
(* What the registration of executors keeps for any number of executors    *)
(* and of faults: a node of the pool is known to the engine, and the count  *)
(* of a node covers the deaths that are still to come.                     *)
(*                                                                         *)
(* Neither is inductive.  The first needs what makes the service forget:   *)
(* a crash of the engine is still in the notices, or is being handled, as  *)
(* long as a node of before the crash is there.  The second needs a        *)
(* balance: registrations that are counted, and one that is about to be,   *)
(* cover the pending death notices and the registration of the process     *)
(* that is alive.                                                          *)
(***************************************************************************)
EXTENDS ExecutorRegistry, FiniteSetTheorems, TLAPS

Doings == {"idle", "register", "calling", "unregister", "renew"}

Process == [gen : Nat, up : BOOLEAN, hdi : BOOLEAN, fwk : BOOLEAN, index : BOOLEAN,
            timer : BOOLEAN, doing : Doings, removed : BOOLEAN]

RegTypeOK ==
  /\ engine \in [up : BOOLEAN, table : SUBSET Executors]
  /\ status \in Seq(BOOLEAN)
  /\ coauth \in [up : BOOLEAN, running : BOOLEAN, ready : BOOLEAN,
                 token : {"no", "set", "checked", "yes"},
                 doing : {"none", "ready", "unavailable"}]
  /\ param \in BOOLEAN
  /\ pool \in [Executors -> [count : Nat, node : Nat, gen : Nat, recipient : BOOLEAN]]
  /\ registering \in [ex : Executors \cup {"none"}, gen : Nat]
  /\ registering # NotRegistering => registering.ex \in Executors /\ registering.gen > 0
  /\ tasks \in Seq([ex : Executors, node : Nat, gen : Nat])
  /\ deaths \in SUBSET [ex : Executors, node : Nat]
  /\ IsFiniteSet(deaths)
  /\ proc \in [Executors -> Process]
  /\ watch \in [Executors -> Seq(BOOLEAN)]
  /\ nodes \in Nat
  /\ overtaken \in BOOLEAN
  /\ faults \in [FaultKinds -> Nat]

\* Only a service that is ready has nodes or registers one, and a ready service
\* believes that the engine runs until it begins to clear up.
ServiceInv ==
  /\ coauth.doing # "none" \/ coauth.ready => coauth.up
  /\ coauth.doing = "ready" => coauth.running
  /\ coauth.ready /\ coauth.doing # "unavailable" => coauth.running
  /\ ~coauth.ready => registering = NotRegistering /\ \A e \in Executors : pool[e] = NoNode

\* A value is among the notices.
Has(s, b) == \E i \in 1..Len(s) : s[i] = b

\* A crash of the engine that CoAuthService has not acted on yet.
CrashPending == coauth.doing = "unavailable" \/ Has(status, FALSE)

KnownInv ==
  ~overtaken /\ ~CrashPending =>
    /\ \A e \in Executors : pool[e].count > 0 => e \in engine.table
    /\ registering # NotRegistering => registering.ex \in engine.table

\* What a process believes of its registration, and the instance a node belongs to.
ProcInv(e) ==
  /\ pool[e].count = 0 => pool[e] = NoNode
  /\ pool[e].gen <= proc[e].gen
  /\ proc[e].up => proc[e].gen > 0
  /\ proc[e].index => proc[e].up
  /\ proc[e].doing \in {"unregister", "renew"} => proc[e].index
  /\ proc[e].index /\ pool[e].count > 0 => pool[e].gen = proc[e].gen
  /\ proc[e].doing = "calling" =>
       proc[e].up /\ registering # NotRegistering
       /\ registering.ex = e /\ registering.gen = proc[e].gen

RegisteringInv ==
  registering # NotRegistering =>
    /\ registering.gen <= proc[registering.ex].gen
    /\ registering.gen # proc[registering.ex].gen => ~proc[registering.ex].index

DeathsOf(e) == {d \in deaths : d.ex = e}

\* The registration of an instance that has died or been replaced, about to be counted.
Late(e) == IF /\ registering # NotRegistering
              /\ registering.ex = e
              /\ ~(proc[e].up /\ proc[e].gen = registering.gen)
           THEN 1 ELSE 0

\* The registration of the process that is alive.
Alive(e) == IF proc[e].index /\ pool[e].gen = proc[e].gen THEN 1 ELSE 0

Balance(e) == pool[e].count + Late(e) >= Cardinality(DeathsOf(e)) + Alive(e)

CountInv == ~overtaken => \A e \in Executors : Balance(e)

RegInv ==
  /\ RegTypeOK
  /\ ServiceInv
  /\ KnownInv
  /\ \A e \in Executors : ProcInv(e)
  /\ RegisteringInv
  /\ CountInv

-------------------------------------------------------------------------------
(* Death notices of an executor: what one more and one less does.          *)

\* The notices of an executor are finitely many.
LEMMA DeathsFinite ==
  ASSUME RegTypeOK, NEW e \in Executors
  PROVE  IsFiniteSet(DeathsOf(e)) /\ Cardinality(DeathsOf(e)) \in Nat
<1>1. DeathsOf(e) \subseteq deaths
  BY DEF DeathsOf
<1>2. IsFiniteSet(DeathsOf(e))
  BY <1>1, FS_Subset DEF RegTypeOK
<1> QED
  BY <1>2, FS_CardinalityType

\* Notices that do not change leave the number alone.
LEMMA DeathsSame ==
  ASSUME deaths' = deaths, NEW e \in Executors
  PROVE  Cardinality(DeathsOf(e))' = Cardinality(DeathsOf(e))
BY DEF DeathsOf

\* A notice of an executor, and of no other, adds at most one (ProcDies).
LEMMA DeathsAdd ==
  ASSUME RegTypeOK, NEW d \in [ex : Executors, node : Nat], deaths' = deaths \cup {d},
         NEW e \in Executors
  PROVE  /\ IsFiniteSet(deaths')
         /\ Cardinality(DeathsOf(e))' \in Nat
         /\ Cardinality(DeathsOf(e))' <= Cardinality(DeathsOf(e)) + 1
         /\ d.ex # e => Cardinality(DeathsOf(e))' = Cardinality(DeathsOf(e))
<1>0. IsFiniteSet(DeathsOf(e)) /\ Cardinality(DeathsOf(e)) \in Nat
  BY DeathsFinite
<1>1. IsFiniteSet(deaths')
  BY FS_AddElement DEF RegTypeOK
<1>2. CASE d.ex = e
  <2>1. DeathsOf(e)' = DeathsOf(e) \cup {d}
    BY <1>2 DEF DeathsOf
  <2>2. \/ Cardinality(DeathsOf(e) \cup {d}) = Cardinality(DeathsOf(e))
        \/ Cardinality(DeathsOf(e) \cup {d}) = Cardinality(DeathsOf(e)) + 1
    BY <1>0, FS_AddElement
  <2> QED
    BY <1>0, <1>1, <1>2, <2>1, <2>2
<1>3. CASE d.ex # e
  <2>1. DeathsOf(e)' = DeathsOf(e)
    BY <1>3 DEF DeathsOf
  <2> QED
    BY <1>0, <1>1, <1>3, <2>1
<1> QED
  BY <1>2, <1>3

\* A notice that is processed takes one from its executor (ExecutorDied).
LEMMA DeathsRemove ==
  ASSUME RegTypeOK, NEW d \in deaths, deaths' = deaths \ {d}, NEW e \in Executors
  PROVE  /\ IsFiniteSet(deaths')
         /\ Cardinality(DeathsOf(e))' \in Nat
         /\ d.ex = e => Cardinality(DeathsOf(e)) = Cardinality(DeathsOf(e))' + 1
         /\ d.ex # e => Cardinality(DeathsOf(e))' = Cardinality(DeathsOf(e))
<1>0. IsFiniteSet(DeathsOf(e)) /\ Cardinality(DeathsOf(e)) \in Nat
  BY DeathsFinite
<1>1. IsFiniteSet(deaths')
  BY FS_RemoveElement DEF RegTypeOK
<1>2. CASE d.ex = e
  <2>1. DeathsOf(e)' = DeathsOf(e) \ {d}
    BY <1>2 DEF DeathsOf
  <2>2. d \in DeathsOf(e)
    BY <1>2 DEF DeathsOf
  <2>3. Cardinality(DeathsOf(e) \ {d}) = Cardinality(DeathsOf(e)) - 1
    BY <1>0, <2>2, FS_RemoveElement
  <2>4. Cardinality(DeathsOf(e) \ {d}) \in Nat
    BY <1>0, FS_RemoveElement, FS_CardinalityType
  <2> QED
    BY <1>0, <1>1, <1>2, <2>1, <2>3, <2>4
<1>3. CASE d.ex # e
  <2>1. DeathsOf(e)' = DeathsOf(e)
    BY <1>3 DEF DeathsOf
  <2> QED
    BY <1>0, <1>1, <1>3, <2>1
<1> QED
  BY <1>2, <1>3

\* Without notices there is nothing to cover.
LEMMA DeathsNone ==
  ASSUME deaths = {}, NEW e \in Executors
  PROVE  Cardinality(DeathsOf(e)) = 0
<1>1. DeathsOf(e) = {}
  BY DEF DeathsOf
<1> QED
  BY <1>1, FS_EmptySet

-------------------------------------------------------------------------------
(* Steps that concern one side only.                                       *)

\* What the service does to its own flags and notices leaves the balance, the nodes
\* and the processes alone.
LEMMA ServiceFrame ==
  ASSUME RegInv, UNCHANGED <<pool, registering, deaths, proc>>, overtaken => overtaken'
  PROVE  /\ \A e \in Executors : ProcInv(e)'
         /\ RegisteringInv'
         /\ CountInv'
<1>1. \A e \in Executors : ProcInv(e)'
  BY DEF RegInv, ProcInv
<1>2. RegisteringInv'
  BY DEF RegInv, RegisteringInv
<1>3. \A e \in Executors : Balance(e) => Balance(e)'
  BY DeathsSame DEF Balance, Late, Alive
<1>4. CountInv'
  BY <1>3 DEF RegInv, CountInv
<1> QED
  BY <1>1, <1>2, <1>4

\* What a process does by itself: the instance and its registration are the same, and
\* it asks the framework for nothing but what its registration allows.
LEMMA ProcessFrame ==
  ASSUME RegInv, NEW e \in Executors, NEW p \in Process,
         proc' = [proc EXCEPT ![e] = p],
         p.gen = proc[e].gen, p.up = proc[e].up, p.index = proc[e].index,
         p.doing # "calling",
         p.doing \in {"unregister", "renew"} => p.index,
         UNCHANGED <<engine, status, coauth, param, pool, registering, tasks, deaths, nodes,
                     overtaken>>,
         watch' \in [Executors -> Seq(BOOLEAN)], faults' \in [FaultKinds -> Nat]
  PROVE  RegInv'
<1>0. proc' \in [Executors -> Process]
  BY DEF RegInv, RegTypeOK
<1>1. /\ proc'[e] = p
      /\ \A x \in Executors \ {e} : proc'[x] = proc[x]
  BY DEF RegInv, RegTypeOK
<1>2. \A x \in Executors : /\ proc'[x].gen = proc[x].gen
                           /\ proc'[x].up = proc[x].up
                           /\ proc'[x].index = proc[x].index
  BY <1>1
<1>3. RegTypeOK'
  BY <1>0 DEF RegInv, RegTypeOK
<1>4. ServiceInv' /\ KnownInv'
  BY DEF RegInv, ServiceInv, KnownInv, CrashPending
<1>5. ASSUME NEW x \in Executors PROVE ProcInv(x)'
  <2>1. CASE x = e
    BY <1>1, <1>2, <2>1 DEF RegInv, ProcInv
  <2>2. CASE x # e
    BY <1>1, <2>2 DEF RegInv, ProcInv
  <2> QED
    BY <2>1, <2>2
<1>6. RegisteringInv'
  BY <1>2 DEF RegInv, RegTypeOK, RegisteringInv
<1>7. \A x \in Executors : Balance(x) => Balance(x)'
  BY <1>2, DeathsSame DEF Balance, Late, Alive
<1>8. CountInv'
  BY <1>7 DEF RegInv, CountInv
<1> QED
  BY <1>3, <1>4, <1>5, <1>6, <1>8 DEF RegInv

\* The parameter and its way to the processes stay typed.
LEMMA SetParamType ==
  ASSUME RegTypeOK, NEW values \in Seq(BOOLEAN), SetParam(values)
  PROVE  param' \in BOOLEAN /\ watch' \in [Executors -> Seq(BOOLEAN)]
<1>1. param' \in BOOLEAN
  <2>1. CASE values = <<>>
    BY <2>1 DEF SetParam, RegTypeOK
  <2>2. CASE values # <<>>
    <3>1. Len(values) \in 1..Len(values)
      BY <2>2
    <3> QED
      BY <2>2, <3>1 DEF SetParam
  <2> QED
    BY <2>1, <2>2
<1>2. \A x \in Executors : watch[x] \o values \in Seq(BOOLEAN) /\ watch[x] \in Seq(BOOLEAN)
  BY DEF RegTypeOK
<1>3. watch' \in [Executors -> Seq(BOOLEAN)]
  BY <1>2 DEF SetParam
<1> QED
  BY <1>1, <1>3

\* The sequences of values that SystemParamManager sets.
LEMMA ParamValues ==
  ASSUME RegTypeOK
  PROVE  <<>> \in Seq(BOOLEAN) /\ ParamDown \in Seq(BOOLEAN) /\ FwkReadyTwice \in Seq(BOOLEAN)
<1>1. <<>> \in Seq(BOOLEAN) /\ <<FALSE>> \in Seq(BOOLEAN) /\ <<TRUE>> \in Seq(BOOLEAN)
  OBVIOUS
<1>2. <<FALSE, TRUE>> \in Seq(BOOLEAN)
  OBVIOUS
<1> QED
  BY <1>1, <1>2, Zenon DEF ParamDown, FwkReadyTwice

\* A fault is counted.
LEMMA FaultType ==
  ASSUME RegTypeOK, NEW k \in FaultKinds, NEW max, Fault(k, max)
  PROVE  faults' \in [FaultKinds -> Nat]
BY DEF RegTypeOK, Fault

-------------------------------------------------------------------------------
(* The initial states, and the steps of the engine and of the service.     *)

LEMMA RegInitInv == RegInit => RegInv
<1> SUFFICES ASSUME RegInit PROVE RegInv
  OBVIOUS
<1>1. \A e \in Executors : /\ proc[e] = DeadProc(0)
                           /\ pool[e] = NoNode
  BY DEF RegInit
<1>2. IsFiniteSet(deaths)
  BY FS_EmptySet DEF RegInit
<1>3. RegTypeOK
  <2>1. DeadProc(0) \in Process /\ NoNode \in [count : Nat, node : Nat, gen : Nat, recipient : BOOLEAN]
    BY DEF DeadProc, Process, Doings, NoNode
  <2>2. proc \in [Executors -> Process]
    BY <2>1 DEF RegInit
  <2>3. pool \in [Executors -> [count : Nat, node : Nat, gen : Nat, recipient : BOOLEAN]]
    BY <2>1 DEF RegInit
  <2>4. watch \in [Executors -> Seq(BOOLEAN)] /\ faults \in [FaultKinds -> Nat]
    BY DEF RegInit
  <2>5. coauth \in [up : BOOLEAN, running : BOOLEAN, ready : BOOLEAN,
                    token : {"no", "set", "checked", "yes"},
                    doing : {"none", "ready", "unavailable"}]
    BY DEF RegInit, NewService
  <2>6. /\ status \in Seq(BOOLEAN)
        /\ tasks \in Seq([ex : Executors, node : Nat, gen : Nat])
    BY DEF RegInit
  <2>7. /\ engine \in [up : BOOLEAN, table : SUBSET Executors]
        /\ registering \in [ex : Executors \cup {"none"}, gen : Nat]
        /\ registering = NotRegistering
        /\ deaths \in SUBSET [ex : Executors, node : Nat]
    BY DEF RegInit, NotRegistering
  <2>8. param \in BOOLEAN /\ nodes \in Nat /\ overtaken \in BOOLEAN
    BY DEF RegInit
  <2> QED
    BY <1>2, <2>2, <2>3, <2>4, <2>5, <2>6, <2>7, <2>8 DEF RegTypeOK
<1>4. ServiceInv /\ KnownInv /\ RegisteringInv
  BY <1>1 DEF RegInit, NewService, ServiceInv, KnownInv, RegisteringInv, NoNode
<1>5. \A e \in Executors : ProcInv(e)
  BY <1>1 DEF ProcInv, DeadProc, NoNode
<1>6. deaths = {}
  BY DEF RegInit
<1>7. \A e \in Executors : Balance(e)
  BY <1>1, <1>6, DeathsNone DEF Balance, Late, Alive, NoNode, DeadProc, RegInit
<1> QED
  BY <1>3, <1>4, <1>5, <1>7 DEF RegInv, CountInv

\* A notice that is appended is there, and so is every earlier one.
LEMMA AppendHas ==
  ASSUME NEW S, NEW s \in Seq(S), NEW x \in S, NEW b
  PROVE  /\ Append(s, x) \in Seq(S)
         /\ Has(Append(s, x), x)
         /\ Has(s, b) => Has(Append(s, x), b)
<1>1. /\ Append(s, x) \in Seq(S) /\ Len(Append(s, x)) = Len(s) + 1 /\ Len(s) \in Nat
      /\ Append(s, x)[Len(s) + 1] = x
  OBVIOUS
<1>2. \A i \in 1..Len(s) : Append(s, x)[i] = s[i] /\ i \in 1..(Len(s) + 1)
  OBVIOUS
<1> QED
  BY <1>1, <1>2 DEF Has

\* The head is taken: what remains keeps every other notice.
LEMMA TailHas ==
  ASSUME NEW S, NEW s \in Seq(S), s # <<>>, NEW b
  PROVE  /\ Tail(s) \in Seq(S)
         /\ Has(s, b) /\ Head(s) # b => Has(Tail(s), b)
<1>1. Tail(s) \in Seq(S) /\ Len(Tail(s)) = Len(s) - 1 /\ Head(s) = s[1] /\ Len(s) \in Nat
  OBVIOUS
<1>2. \A j \in 1..Len(Tail(s)) : Tail(s)[j] = s[j + 1]
  OBVIOUS
<1>3. ASSUME Head(s) # b, NEW i \in 1..Len(s), s[i] = b
      PROVE  Has(Tail(s), b)
  <2>1. i # 1
    BY <1>1, <1>3
  <2>2. i - 1 \in 1..Len(Tail(s))
    BY <1>1, <2>1
  <2>3. Tail(s)[i - 1] = s[i]
    BY <1>2, <2>2
  <2> QED
    BY <1>3, <2>2, <2>3 DEF Has
<1> QED
  BY <1>1, <1>3 DEF Has

\* Taking the first of a queue.
LEMMA HeadTail ==
  ASSUME NEW S, NEW s \in Seq(S), s # <<>>
  PROVE  Head(s) \in S /\ Tail(s) \in Seq(S)
OBVIOUS

LEMMA EngineCrashInv == RegInv /\ EngineCrash => RegInv'
<1> SUFFICES ASSUME RegInv, EngineCrash PROVE RegInv'
  OBVIOUS
<1> USE DEF EngineCrash
<1>0. status' \in Seq(BOOLEAN) /\ (coauth.up => Has(status', FALSE))
  <2>0. status \in Seq(BOOLEAN) /\ FALSE \in BOOLEAN
    BY DEF RegInv, RegTypeOK
  <2>1. Append(status, FALSE) \in Seq(BOOLEAN) /\ Has(Append(status, FALSE), FALSE)
    BY <2>0, AppendHas
  <2> QED
    BY <2>0, <2>1
<1>1. faults' \in [FaultKinds -> Nat]
  BY FaultType DEF RegInv, FaultKinds
<1>2. RegTypeOK'
  BY <1>0, <1>1 DEF RegInv, RegTypeOK
<1>3. ServiceInv'
  BY DEF RegInv, ServiceInv
<1>4. KnownInv'
  <2>1. CASE coauth.up
    BY <1>0, <2>1 DEF KnownInv, CrashPending
  <2>2. CASE ~coauth.up
    <3>1. registering = NotRegistering /\ \A e \in Executors : pool[e] = NoNode
      BY <2>2 DEF RegInv, ServiceInv
    <3>2. pool' = pool /\ registering' = registering
      OBVIOUS
    <3> HIDE DEF StateManagerOnEngineUnavailable, EngineCrash
    <3>3. registering' = NotRegistering /\ \A e \in Executors : pool'[e].count = 0
      BY <3>1, <3>2 DEF NoNode
    <3> QED
      BY <3>3 DEF KnownInv
  <2> QED
    BY <2>1, <2>2
<1> QED
  BY <1>2, <1>3, <1>4, ServiceFrame DEF RegInv

LEMMA EngineRestartInv == RegInv /\ EngineRestart => RegInv'
<1> SUFFICES ASSUME RegInv, EngineRestart PROVE RegInv'
  OBVIOUS
<1> USE DEF EngineRestart
<1>0. status' \in Seq(BOOLEAN) /\ (Has(status, FALSE) => Has(status', FALSE))
  <2>0. status \in Seq(BOOLEAN) /\ TRUE \in BOOLEAN
    BY DEF RegInv, RegTypeOK
  <2>1. /\ Append(status, TRUE) \in Seq(BOOLEAN)
        /\ Has(status, FALSE) => Has(Append(status, TRUE), FALSE)
    BY <2>0, AppendHas
  <2> QED
    BY <2>0, <2>1
<1>1. RegTypeOK'
  BY <1>0 DEF RegInv, RegTypeOK
<1>2. ServiceInv'
  BY DEF RegInv, ServiceInv
<1>3. CrashPending => CrashPending'
  BY <1>0 DEF CrashPending
<1>4. engine'.table = engine.table
  BY DEF RegInv, RegTypeOK
<1>5. KnownInv'
  BY <1>3, <1>4 DEF RegInv, KnownInv
<1> QED
  BY <1>1, <1>2, <1>5, ServiceFrame DEF RegInv

LEMMA StateManagerOnEngineReadyInv == RegInv /\ StateManagerOnEngineReady => RegInv'
<1> SUFFICES ASSUME RegInv, StateManagerOnEngineReady PROVE RegInv'
  OBVIOUS
<1> USE DEF StateManagerOnEngineReady
<1>0. status \in Seq(BOOLEAN) /\ status' = Tail(status) /\ status # <<>> /\ Head(status)
  BY DEF RegInv, RegTypeOK
<1>1. status' \in Seq(BOOLEAN) /\ (Has(status, FALSE) => Has(status', FALSE))
  <2>1. Head(status) # FALSE
    BY <1>0
  <2> QED
    BY <1>0, <2>1, TailHas
<1>2. RegTypeOK'
  BY <1>1 DEF RegInv, RegTypeOK
<1>3. ServiceInv'
  BY DEF RegInv, RegTypeOK, ServiceInv
<1>4. CrashPending => CrashPending'
  BY <1>1 DEF CrashPending
<1>5. KnownInv'
  BY <1>4 DEF RegInv, KnownInv
<1> QED
  BY <1>2, <1>3, <1>5, ServiceFrame DEF RegInv

LEMMA StateManagerOnEngineUnavailableInv == RegInv /\ StateManagerOnEngineUnavailable => RegInv'
<1> SUFFICES ASSUME RegInv, StateManagerOnEngineUnavailable PROVE RegInv'
  OBVIOUS
<1> USE DEF StateManagerOnEngineUnavailable
<1>0. status' \in Seq(BOOLEAN)
  BY TailHas DEF RegInv, RegTypeOK
<1>1. param' \in BOOLEAN /\ watch' \in [Executors -> Seq(BOOLEAN)]
  <2>1. CASE coauth.running
    BY <2>1, ParamValues, SetParamType DEF RegInv
  <2>2. CASE ~coauth.running
    BY <2>2 DEF RegInv, RegTypeOK
  <2> QED
    BY <2>1, <2>2
<1>2. RegTypeOK'
  BY <1>0, <1>1 DEF RegInv, RegTypeOK
<1>3. ServiceInv'
  BY DEF RegInv, RegTypeOK, ServiceInv
<1>4. KnownInv'
  <2>1. CASE coauth.running
    <3>1. coauth'.doing = "unavailable"
      BY <2>1 DEF RegInv, RegTypeOK
    <3> QED
      BY <3>1 DEF KnownInv, CrashPending
  <2>2. CASE ~coauth.running
    <3>1. registering = NotRegistering /\ \A e \in Executors : pool[e] = NoNode
      BY <2>2 DEF RegInv, ServiceInv
    <3>2. pool' = pool /\ registering' = registering
      OBVIOUS
    <3> HIDE DEF StateManagerOnEngineUnavailable, EngineCrash
    <3>3. registering' = NotRegistering /\ \A e \in Executors : pool'[e].count = 0
      BY <3>1, <3>2 DEF NoNode
    <3> QED
      BY <3>3 DEF KnownInv
  <2> QED
    BY <2>1, <2>2
<1> QED
  BY <1>2, <1>3, <1>4, ServiceFrame DEF RegInv

LEMMA OnEngineReadyInv == RegInv /\ OnEngineReady => RegInv'
<1> SUFFICES ASSUME RegInv, OnEngineReady PROVE RegInv'
  OBVIOUS
<1> USE DEF OnEngineReady
<1>1. param' \in BOOLEAN /\ watch' \in [Executors -> Seq(BOOLEAN)]
  <2>1. CASE coauth.ready \/ ~engine.up
    BY <2>1 DEF RegInv, RegTypeOK
  <2>2. CASE ~(coauth.ready \/ ~engine.up)
    <3>1. CASE coauth.token = "no"
      BY <2>2, <3>1, ParamValues, SetParamType DEF RegInv
    <3>2. CASE coauth.token # "no"
      BY <2>2, <3>2, ParamValues, SetParamType DEF RegInv
    <3> QED
      BY <3>1, <3>2
  <2> QED
    BY <2>1, <2>2
<1>2. RegTypeOK'
  BY <1>1 DEF RegInv, RegTypeOK
<1>3. ServiceInv'
  BY DEF RegInv, RegTypeOK, ServiceInv
<1>4. CrashPending => CrashPending'
  BY DEF CrashPending
<1>5. KnownInv'
  BY <1>4 DEF RegInv, KnownInv
<1> QED
  BY <1>2, <1>3, <1>5, ServiceFrame DEF RegInv

LEMMA TokenInv == RegInv /\ (SetAccessTokenReady \/ NotifyFwkReady) => RegInv'
<1> SUFFICES ASSUME RegInv, SetAccessTokenReady \/ NotifyFwkReady PROVE RegInv'
  OBVIOUS
<1> USE DEF SetAccessTokenReady, NotifyFwkReady
<1>1. RegTypeOK'
  BY DEF RegInv, RegTypeOK
<1>2. /\ coauth'.doing = coauth.doing /\ coauth'.ready = coauth.ready
      /\ coauth'.up = coauth.up /\ coauth'.running = coauth.running
  BY DEF RegInv, RegTypeOK
<1>3. ServiceInv' /\ KnownInv'
  BY <1>2 DEF RegInv, ServiceInv, KnownInv, CrashPending
<1> QED
  BY <1>1, <1>3, ServiceFrame DEF RegInv

LEMMA OnFwkReadyInv == RegInv /\ OnFwkReady => RegInv'
<1> SUFFICES ASSUME RegInv, OnFwkReady PROVE RegInv'
  OBVIOUS
<1> USE DEF OnFwkReady
<1>1. param' \in BOOLEAN /\ watch' \in [Executors -> Seq(BOOLEAN)]
  BY ParamValues, SetParamType DEF RegInv
<1>2. RegTypeOK'
  BY <1>1 DEF RegInv, RegTypeOK
<1>3. /\ coauth'.doing = coauth.doing /\ coauth'.ready = coauth.ready
      /\ coauth'.up = coauth.up /\ coauth'.running = coauth.running
  BY DEF RegInv, RegTypeOK
<1>4. ServiceInv' /\ KnownInv'
  BY <1>3 DEF RegInv, ServiceInv, KnownInv, CrashPending
<1> QED
  BY <1>2, <1>4, ServiceFrame DEF RegInv

LEMMA OnEngineUnavailableInv == RegInv /\ OnEngineUnavailable => RegInv'
<1> SUFFICES ASSUME RegInv, OnEngineUnavailable PROVE RegInv'
  OBVIOUS
<1>a. /\ coauth.doing = "unavailable" /\ registering = NotRegistering
      /\ registering' = registering
      /\ coauth.ready => DeleteAll /\ coauth' = [coauth EXCEPT !.doing = "none", !.ready = FALSE]
      /\ ~coauth.ready => UNCHANGED <<pool, engine>> /\ coauth' = [coauth EXCEPT !.doing = "none"]
      /\ UNCHANGED <<status, param, tasks, deaths, proc, watch, nodes, faults>>
  BY DEF OnEngineUnavailable
<1>b. /\ overtaken' \in BOOLEAN
      /\ overtaken => overtaken'
      /\ coauth.ready /\ ~overtaken' => deaths = {}
  BY Zenon DEF OnEngineUnavailable
<1>0. /\ \A e \in Executors : pool'[e] = NoNode
      /\ registering' = NotRegistering
      /\ pool' \in [Executors -> [count : Nat, node : Nat, gen : Nat, recipient : BOOLEAN]]
  <2>1. CASE coauth.ready
    <3>1. NoNode \in [count : Nat, node : Nat, gen : Nat, recipient : BOOLEAN]
      BY DEF NoNode
    <3> QED
      BY <1>a, <2>1, <3>1 DEF DeleteAll
  <2>2. CASE ~coauth.ready
    BY <1>a, <2>2 DEF RegInv, RegTypeOK, ServiceInv
  <2> QED
    BY <2>1, <2>2
<1>1. RegTypeOK'
  <2>1. engine' \in [up : BOOLEAN, table : SUBSET Executors]
    <3>1. CASE coauth.ready
      <4>1. engine' = [engine EXCEPT !.table = @ \ {e \in Executors : pool[e].count > 0}]
        BY <1>a, <3>1 DEF DeleteAll, DeleteFromEngine
      <4> QED
        BY <4>1 DEF RegInv, RegTypeOK
    <3>2. CASE ~coauth.ready
      BY <1>a, <3>2 DEF RegInv, RegTypeOK
    <3> QED
      BY <3>1, <3>2
  <2>2. coauth' \in [up : BOOLEAN, running : BOOLEAN, ready : BOOLEAN,
                     token : {"no", "set", "checked", "yes"},
                     doing : {"none", "ready", "unavailable"}]
    BY <1>a DEF RegInv, RegTypeOK
  <2> QED
    BY <1>a, <1>b, <1>0, <2>1, <2>2 DEF RegInv, RegTypeOK
<1>2. ServiceInv'
  <2>1. coauth'.doing = "none" /\ ~coauth'.ready
    BY <1>a DEF RegInv, RegTypeOK
  <2> QED
    BY <1>0, <2>1 DEF ServiceInv
<1>3. KnownInv'
  BY <1>0 DEF KnownInv, NoNode
<1>4. ASSUME NEW e \in Executors PROVE ProcInv(e)'
  BY <1>a, <1>0 DEF RegInv, RegTypeOK, Process, ProcInv, NoNode
<1>5. RegisteringInv'
  BY <1>0 DEF RegisteringInv
<1>6. ASSUME ~overtaken', NEW e \in Executors PROVE Balance(e)'
  <2>1. CASE coauth.ready
    <3>1. deaths' = {}
      BY <1>a, <1>b, <1>6, <2>1
    <3>2. DeathsOf(e)' = {} /\ Cardinality({}) = 0
      BY <3>1, FS_EmptySet DEF DeathsOf
    <3>3. Alive(e)' = 0 /\ Late(e)' = 0
      BY <1>a, <1>0 DEF Alive, Late, NoNode, RegInv, ProcInv
    <3> QED
      BY <1>0, <3>2, <3>3 DEF Balance, NoNode
  <2>2. CASE ~coauth.ready
    <3>1. UNCHANGED <<pool, registering, deaths, proc>>
      BY <1>a, <2>2
    <3> QED
      BY <1>b, <1>6, <3>1, ServiceFrame DEF CountInv
  <2> QED
    BY <2>1, <2>2
<1>7. CountInv'
  BY <1>6 DEF CountInv
<1> QED
  BY <1>1, <1>2, <1>3, <1>4, <1>5, <1>7 DEF RegInv

LEMMA InsertInv == RegInv /\ Insert => RegInv'
<1> SUFFICES ASSUME RegInv, Insert PROVE RegInv'
  OBVIOUS
<1> USE DEF Insert, Inserted
<1> DEFINE e == registering.ex
<1>0. /\ registering # NotRegistering
      /\ e \in Executors /\ registering.gen \in Nat /\ registering.gen > 0
      /\ registering.gen <= proc[e].gen
  BY DEF RegInv, RegTypeOK, RegisteringInv
<1> DEFINE new == [count |-> pool[e].count + 1, node |-> nodes + 1,
                   gen |-> registering.gen, recipient |-> FALSE]
<1>1. /\ pool' = [pool EXCEPT ![e] = new]
      /\ new \in [count : Nat, node : Nat, gen : Nat, recipient : BOOLEAN]
      /\ new.count = pool[e].count + 1 /\ new.gen = registering.gen
  BY <1>0 DEF RegInv, RegTypeOK
<1>2. /\ pool' \in [Executors -> [count : Nat, node : Nat, gen : Nat, recipient : BOOLEAN]]
      /\ pool'[e] = new
      /\ \A x \in Executors \ {e} : pool'[x] = pool[x]
  BY <1>0, <1>1 DEF RegInv, RegTypeOK
<1>3. /\ proc' \in [Executors -> Process]
      /\ \A x \in Executors : proc'[x].gen = proc[x].gen /\ proc'[x].up = proc[x].up
      /\ \A x \in Executors \ {e} : proc'[x] = proc[x]
      /\ proc[e].up /\ proc[e].gen = registering.gen =>
           proc'[e].doing = "idle" /\ proc'[e].index
      /\ ~(proc[e].up /\ proc[e].gen = registering.gen) => proc'[e] = proc[e]
  <2>1. CASE proc[e].up /\ proc[e].gen = registering.gen
    <3> DEFINE p == [proc[e] EXCEPT !.doing = "idle", !.index = TRUE]
    <3>1. proc' = [proc EXCEPT ![e] = p]
      BY <2>1, <1>0 DEF RegInv, RegTypeOK
    <3>2. proc[e] \in Process
      BY <1>0 DEF RegInv, RegTypeOK
    <3> HIDE DEF Insert, Inserted
    <3>3. p.gen = proc[e].gen /\ p.up = proc[e].up /\ p.doing = "idle" /\ p.index = TRUE
      BY <3>2 DEF Process
    <3>4. p \in Process
      BY <3>2 DEF Process, Doings
    <3> HIDE DEF p
    <3> QED
      BY <1>0, <2>1, <3>1, <3>3, <3>4 DEF RegInv, RegTypeOK
  <2>2. CASE ~(proc[e].up /\ proc[e].gen = registering.gen)
    <3>1. proc' = proc
      BY <2>2
    <3> QED
      BY <2>2, <3>1 DEF RegInv, RegTypeOK
  <2> QED
    BY <2>1, <2>2
<1>4. RegTypeOK'
  <2>1. engine' \in [up : BOOLEAN, table : SUBSET Executors]
    BY DEF RegInv, RegTypeOK
  <2>2. tasks' \in Seq([ex : Executors, node : Nat, gen : Nat]) /\ nodes' \in Nat
    BY <1>0 DEF RegInv, RegTypeOK
  <2> QED
    BY <1>2, <1>3, <2>1, <2>2 DEF RegInv, RegTypeOK, NotRegistering
<1>5. ServiceInv'
  BY <1>0 DEF RegInv, ServiceInv
<1>6. KnownInv'
  <2>1. engine'.table = engine.table /\ (CrashPending' <=> CrashPending)
    BY DEF RegInv, RegTypeOK, CrashPending
  <2> QED
    BY <1>0, <1>2, <2>1 DEF RegInv, KnownInv
<1>7. ASSUME NEW x \in Executors PROVE ProcInv(x)'
  <2>1. CASE x = e
    <3>1. CASE proc[e].up /\ proc[e].gen = registering.gen
      BY <1>0, <1>1, <1>2, <1>3, <2>1, <3>1 DEF RegInv, RegTypeOK, ProcInv
    <3>2. CASE ~(proc[e].up /\ proc[e].gen = registering.gen)
      <4>1. ~proc[e].index /\ proc[e].doing # "calling"
        BY <1>0, <3>2 DEF RegInv, RegisteringInv, ProcInv
      <4> QED
        BY <1>0, <1>1, <1>2, <1>3, <2>1, <3>2, <4>1 DEF RegInv, RegTypeOK, ProcInv
    <3> QED
      BY <3>1, <3>2
  <2>2. CASE x # e
    <3>1. proc[x].doing # "calling"
      BY <2>2 DEF RegInv, ProcInv
    <3> QED
      BY <1>2, <1>3, <2>2, <3>1 DEF RegInv, ProcInv
  <2> QED
    BY <2>1, <2>2
<1>8. RegisteringInv'
  BY DEF RegisteringInv
<1>9. ASSUME NEW x \in Executors, Balance(x) PROVE Balance(x)'
  <2>0. /\ Cardinality(DeathsOf(x))' = Cardinality(DeathsOf(x))
        /\ Cardinality(DeathsOf(x)) \in Nat
        /\ pool[x].count \in Nat
        /\ Late(x)' = 0
    BY DeathsSame, DeathsFinite DEF RegInv, RegTypeOK, Late
  <2>1. CASE x # e
    <3>1. Late(x) = 0 /\ Alive(x)' = Alive(x)
      BY <1>2, <1>3, <2>1 DEF Late, Alive
    <3> QED
      BY <1>2, <1>9, <2>0, <2>1, <3>1 DEF Balance
  <2>2. CASE x = e /\ proc[e].up /\ proc[e].gen = registering.gen
    <3>1. Late(x) = 0 /\ Alive(x)' \in {0, 1} /\ Alive(x) \in {0, 1}
      BY <2>2 DEF Late, Alive
    <3> QED
      BY <1>1, <1>2, <1>9, <2>0, <2>2, <3>1 DEF Balance
  <2>3. CASE x = e /\ ~(proc[e].up /\ proc[e].gen = registering.gen)
    <3>1. ~proc[e].index
      BY <1>0, <2>3 DEF RegInv, RegisteringInv, ProcInv
    <3>2. Late(x) = 1 /\ Alive(x)' = 0 /\ Alive(x) = 0
      BY <1>0, <1>3, <2>3, <3>1 DEF Late, Alive
    <3> QED
      BY <1>1, <1>2, <1>9, <2>0, <2>3, <3>2 DEF Balance
  <2> QED
    BY <2>1, <2>2, <2>3
<1>10. CountInv'
  BY <1>9 DEF RegInv, CountInv
<1> QED
  BY <1>4, <1>5, <1>6, <1>7, <1>8, <1>10 DEF RegInv

LEMMA RegisterTaskInv == RegInv /\ RegisterTask => RegInv'
<1> SUFFICES ASSUME RegInv, RegisterTask PROVE RegInv'
  OBVIOUS
<1>0. Head(tasks) \in [ex : Executors, node : Nat, gen : Nat]
      /\ tasks' \in Seq([ex : Executors, node : Nat, gen : Nat])
  <2>1. /\ tasks \in Seq([ex : Executors, node : Nat, gen : Nat])
        /\ tasks # <<>> /\ tasks' = Tail(tasks)
    BY DEF RegInv, RegTypeOK, RegisterTask
  <2> QED
    BY <2>1, HeadTail
<1>1. /\ pool' \in [Executors -> [count : Nat, node : Nat, gen : Nat, recipient : BOOLEAN]]
      /\ \A x \in Executors : /\ pool'[x].count = pool[x].count
                              /\ pool'[x].gen = pool[x].gen
                              /\ pool[x].count = 0 => pool'[x] = pool[x]
  <2> DEFINE t == Head(tasks)
             r == proc[t.ex].up /\ proc[t.ex].gen = t.gen
  <2>1. t.ex \in Executors /\ r \in BOOLEAN
    BY <1>0
  <2>2. pool' = pool \/ (pool[t.ex].count > 0 /\ pool' = [pool EXCEPT ![t.ex].recipient = r])
    BY DEF RegisterTask
  <2> HIDE DEF t, r
  <2> DEFINE q == [pool[t.ex] EXCEPT !.recipient = r]
  <2>3. /\ q \in [count : Nat, node : Nat, gen : Nat, recipient : BOOLEAN]
        /\ q.count = pool[t.ex].count /\ q.gen = pool[t.ex].gen
    BY <2>1 DEF RegInv, RegTypeOK
  <2>4. pool' = pool \/ (pool[t.ex].count > 0 /\ pool' = [pool EXCEPT ![t.ex] = q])
    BY <2>1, <2>2 DEF RegInv, RegTypeOK
  <2> HIDE DEF q
  <2>5. CASE pool' = pool
    BY <2>5 DEF RegInv, RegTypeOK
  <2>6. CASE pool[t.ex].count > 0 /\ pool' = [pool EXCEPT ![t.ex] = q]
    <3>1. pool[t.ex].count \in Nat /\ pool[t.ex].count # 0
      BY <2>1, <2>6 DEF RegInv, RegTypeOK
    <3>2. pool'[t.ex] = q /\ \A x \in Executors \ {t.ex} : pool'[x] = pool[x]
      BY <2>1, <2>6 DEF RegInv, RegTypeOK
    <3> QED
      BY <2>1, <2>3, <2>6, <3>1, <3>2 DEF RegInv, RegTypeOK
  <2> QED
    BY <2>4, <2>5, <2>6
<1>2. UNCHANGED <<engine, status, coauth, param, registering, deaths, proc, watch, nodes,
                  overtaken, faults>>
  BY DEF RegisterTask
<1>3. RegTypeOK'
  BY <1>0, <1>1, <1>2 DEF RegInv, RegTypeOK
<1>4. ServiceInv'
  BY <1>1, <1>2 DEF RegInv, ServiceInv, NoNode
<1>5. KnownInv'
  BY <1>1, <1>2 DEF RegInv, KnownInv, CrashPending
<1>6. ASSUME NEW x \in Executors PROVE ProcInv(x)'
  BY <1>1, <1>2 DEF RegInv, ProcInv
<1>7. RegisteringInv'
  BY <1>2 DEF RegInv, RegisteringInv
<1>8. ASSUME NEW x \in Executors, Balance(x) PROVE Balance(x)'
  BY <1>1, <1>2, <1>8, DeathsSame DEF Balance, Late, Alive
<1>9. CountInv'
  BY <1>2, <1>8 DEF RegInv, CountInv
<1> QED
  BY <1>3, <1>4, <1>5, <1>6, <1>7, <1>9 DEF RegInv

-------------------------------------------------------------------------------
(* Taking a registration back: ResourceNodePoolImpl::Delete.               *)

\* One registration less: only the last takes the node, and with it the engine's entry.
LEMMA DeleteFacts ==
  ASSUME RegInv, NEW e \in Executors, Delete(e)
  PROVE  /\ pool' \in [Executors -> [count : Nat, node : Nat, gen : Nat, recipient : BOOLEAN]]
         /\ engine' \in [up : BOOLEAN, table : SUBSET Executors]
         /\ \A x \in Executors \ {e} : /\ pool'[x] = pool[x]
                                       /\ x \in engine.table => x \in engine'.table
         /\ pool[e].count > 0 => pool'[e].count = pool[e].count - 1
         /\ pool[e].count = 0 => pool'[e].count = 0
         /\ \/ pool'[e] = NoNode
            \/ pool'[e].gen = pool[e].gen /\ pool'[e].count > 0 /\ engine' = engine
         /\ pool[e].count = 0 => engine'.table = engine.table
<1>0. /\ pool \in [Executors -> [count : Nat, node : Nat, gen : Nat, recipient : BOOLEAN]]
      /\ engine \in [up : BOOLEAN, table : SUBSET Executors]
      /\ NoNode \in [count : Nat, node : Nat, gen : Nat, recipient : BOOLEAN]
      /\ NoNode.count = 0
  BY DEF RegInv, RegTypeOK, NoNode
<1>1. CASE pool[e].count > 1
  <2> DEFINE q == [pool[e] EXCEPT !.count = @ - 1]
  <2>1. /\ q \in [count : Nat, node : Nat, gen : Nat, recipient : BOOLEAN]
        /\ q.count = pool[e].count - 1 /\ q.gen = pool[e].gen
    BY <1>0, <1>1
  <2>2. pool' = [pool EXCEPT ![e] = q] /\ engine' = engine
    BY <1>0, <1>1 DEF Delete
  <2> HIDE DEF q
  <2> QED
    BY <1>0, <1>1, <2>1, <2>2
<1>2. CASE ~(pool[e].count > 1)
  <2>1. /\ pool' = [pool EXCEPT ![e] = NoNode]
        /\ engine' = [engine EXCEPT !.table = @ \ (IF pool[e].count = 1 THEN {e} ELSE {})]
    BY <1>2 DEF Delete, DeleteFromEngine
  <2>2. pool[e].count \in {0, 1}
    BY <1>0, <1>2
  <2>3. /\ pool' \in [Executors -> [count : Nat, node : Nat, gen : Nat, recipient : BOOLEAN]]
        /\ pool'[e] = NoNode
        /\ \A x \in Executors \ {e} : pool'[x] = pool[x]
    BY <1>0, <2>1
  <2>4. /\ engine' \in [up : BOOLEAN, table : SUBSET Executors]
        /\ \A x \in Executors \ {e} : x \in engine.table => x \in engine'.table
        /\ pool[e].count = 0 => engine'.table = engine.table
    BY <1>0, <2>1
  <2> QED
    BY <1>0, <2>2, <2>3, <2>4
<1> QED
  BY <1>1, <1>2

LEMMA ExecutorDiedInv == ASSUME NEW d \in deaths PROVE RegInv /\ ExecutorDied(d) => RegInv'
<1> SUFFICES ASSUME RegInv, ExecutorDied(d) PROVE RegInv'
  OBVIOUS
<1> DEFINE e == d.ex
<1>a. /\ deaths' = deaths \ {d} /\ Delete(e) /\ e \in Executors
      /\ UNCHANGED <<status, coauth, param, registering, tasks, proc, watch, nodes, faults>>
  BY DEF ExecutorDied, RegInv, RegTypeOK
<1>b. /\ overtaken' \in BOOLEAN
      /\ overtaken => overtaken'
      /\ ~overtaken' => registering.ex # e
  BY Zenon DEF ExecutorDied
<1> HIDE DEF e
<1>0. /\ pool' \in [Executors -> [count : Nat, node : Nat, gen : Nat, recipient : BOOLEAN]]
      /\ engine' \in [up : BOOLEAN, table : SUBSET Executors]
      /\ \A x \in Executors \ {e} : /\ pool'[x] = pool[x]
                                    /\ x \in engine.table => x \in engine'.table
      /\ pool[e].count > 0 => pool'[e].count = pool[e].count - 1
      /\ pool[e].count = 0 => pool'[e].count = 0
      /\ \/ pool'[e] = NoNode
         \/ pool'[e].gen = pool[e].gen /\ pool'[e].count > 0 /\ engine' = engine
      /\ pool[e].count = 0 => engine'.table = engine.table
  BY <1>a, DeleteFacts
<1>1. RegTypeOK'
  <2>1. IsFiniteSet(deaths') /\ deaths' \in SUBSET [ex : Executors, node : Nat]
    BY <1>a, DeathsRemove DEF RegInv, RegTypeOK
  <2> QED
    BY <1>a, <1>b, <1>0, <2>1 DEF RegInv, RegTypeOK
<1>2. ServiceInv'
  <2>1. \A x \in Executors : pool[x] = NoNode => pool'[x] = NoNode
    BY <1>0 DEF NoNode
  <2> QED
    BY <1>a, <2>1 DEF RegInv, ServiceInv
<1>3. KnownInv'
  <2>1. ASSUME ~overtaken', ~CrashPending' PROVE KnownInv!2'
    <3>1. ~overtaken /\ ~CrashPending
      BY <1>a, <1>b, <2>1 DEF CrashPending
    <3>2. /\ \A x \in Executors : pool[x].count > 0 => x \in engine.table
          /\ registering # NotRegistering => registering.ex \in engine.table
      BY <3>1 DEF RegInv, KnownInv
    <3>3. ASSUME NEW x \in Executors, pool'[x].count > 0 PROVE x \in engine'.table
      <4>1. CASE x = e
        <5>1. pool'[e] # NoNode
          BY <3>3, <4>1 DEF NoNode
        <5>2. pool[e].count > 0 /\ engine' = engine
          BY <1>a, <1>0, <3>3, <4>1, <5>1 DEF RegInv, RegTypeOK
        <5> QED
          BY <3>2, <4>1, <5>2
      <4>2. CASE x # e
        BY <1>0, <3>2, <3>3, <4>2
      <4> QED
        BY <4>1, <4>2
    <3>4. ASSUME registering' # NotRegistering PROVE registering'.ex \in engine'.table
      <4>1. registering.ex \in Executors \ {e}
        BY <1>a, <1>b, <2>1, <3>4 DEF RegInv, RegTypeOK
      <4> QED
        BY <1>a, <1>0, <3>2, <3>4, <4>1
    <3> QED
      BY <3>3, <3>4
  <2> QED
    BY <2>1 DEF KnownInv
<1>4. ASSUME NEW x \in Executors PROVE ProcInv(x)'
  <2>1. CASE x = e
    <3>1. CASE pool'[e] = NoNode
      BY <1>a, <2>1, <3>1 DEF RegInv, RegTypeOK, Process, ProcInv, NoNode
    <3>2. CASE pool'[e] # NoNode
      <4>1. pool'[e].gen = pool[e].gen /\ pool'[e].count > 0 /\ pool[e].count > 0
        <5>1. pool[e].count \in Nat
          BY <1>a DEF RegInv, RegTypeOK
        <5>2. pool'[e].gen = pool[e].gen /\ pool'[e].count > 0
          BY <1>0, <3>2
        <5> QED
          BY <1>0, <5>1, <5>2
      <4>2. pool'[e].count # 0
        BY <1>a, <1>0, <4>1
      <4> QED
        BY <1>a, <2>1, <4>1, <4>2 DEF RegInv, ProcInv
    <3> QED
      BY <3>1, <3>2
  <2>2. CASE x # e
    BY <1>a, <1>0, <2>2 DEF RegInv, ProcInv
  <2> QED
    BY <2>1, <2>2
<1>5. RegisteringInv'
  BY <1>a DEF RegInv, RegisteringInv
<1>6. ASSUME ~overtaken', NEW x \in Executors PROVE Balance(x)'
  <2>0. /\ Balance(x) /\ Cardinality(DeathsOf(x)) \in Nat /\ pool[x].count \in Nat
        /\ Cardinality(DeathsOf(x))' \in Nat
        /\ e = x => Cardinality(DeathsOf(x)) = Cardinality(DeathsOf(x))' + 1
        /\ e # x => Cardinality(DeathsOf(x))' = Cardinality(DeathsOf(x))
    <3>1. Balance(x) /\ Cardinality(DeathsOf(x)) \in Nat /\ pool[x].count \in Nat
      <4>1. ~overtaken
        BY <1>b, <1>6, Zenon
      <4>2. Balance(x)
        BY <4>1 DEF RegInv, CountInv
      <4>3. RegTypeOK
        BY DEF RegInv
      <4>4. Cardinality(DeathsOf(x)) \in Nat
        BY <4>3, DeathsFinite
      <4> QED
        BY <4>2, <4>3, <4>4 DEF RegTypeOK
    <3>2. /\ Cardinality(DeathsOf(x))' \in Nat
          /\ d.ex = x => Cardinality(DeathsOf(x)) = Cardinality(DeathsOf(x))' + 1
          /\ d.ex # x => Cardinality(DeathsOf(x))' = Cardinality(DeathsOf(x))
      BY <1>a, DeathsRemove DEF RegInv
    <3> QED
      BY <3>1, <3>2 DEF e
  <2>1. CASE x # e
    <3>1. Late(x)' = Late(x) /\ Alive(x)' = Alive(x)
      BY <1>a, <1>0, <2>1 DEF Late, Alive
    <3> QED
      BY <1>0, <2>0, <2>1, <3>1 DEF Balance
  <2>2. CASE x = e
    <3>1. Late(x) = 0 /\ Late(x)' = 0
      BY <1>a, <1>b, <1>6, <2>2 DEF Late
    <3>2. Alive(x) \in {0, 1} /\ Alive(x)' \in {0, 1}
      BY DEF Alive
    <3>3. pool[e].count > 0
      BY <2>0, <2>2, <3>1, <3>2 DEF Balance
    <3>4. Alive(x)' <= Alive(x)
      <4>1. CASE pool'[e] = NoNode
        <5>1. Alive(x)' = 0
          BY <1>a, <2>2, <4>1 DEF Alive, NoNode, RegInv, ProcInv
        <5> QED
          BY <3>2, <5>1
      <4>2. CASE pool'[e] # NoNode
        <5>1. Alive(x)' = Alive(x)
          BY <1>a, <1>0, <2>2, <4>2 DEF Alive
        <5> QED
          BY <3>2, <5>1
      <4> QED
        BY <4>1, <4>2
    <3>5. pool'[x].count = pool[x].count - 1
      BY <1>0, <2>2, <3>3
    <3> QED
      BY <2>0, <2>2, <3>1, <3>2, <3>4, <3>5 DEF Balance
  <2> QED
    BY <2>1, <2>2
<1>7. CountInv'
  BY <1>6 DEF CountInv
<1> QED
  BY <1>1, <1>2, <1>3, <1>4, <1>5, <1>7 DEF RegInv

LEMMA ExecutorUnregisterInv ==
  ASSUME NEW e \in Executors PROVE RegInv /\ ExecutorUnregister(e) => RegInv'
<1> SUFFICES ASSUME RegInv, ExecutorUnregister(e) PROVE RegInv'
  OBVIOUS
<1> DEFINE p == [proc[e] EXCEPT !.doing = IF @ = "renew" THEN "register" ELSE "idle",
                                !.index = FALSE]
<1>a. /\ registering = NotRegistering
      /\ proc[e].up /\ proc[e].doing \in {"unregister", "renew"}
      /\ UNCHANGED <<status, coauth, param, registering, tasks, deaths, watch, nodes,
                     overtaken, faults>>
      /\ Delete(e) \/ UNCHANGED <<pool, engine>>
  BY DEF ExecutorUnregister
<1>b. /\ proc[e] \in Process
      /\ proc' = [proc EXCEPT ![e] = p]
  BY DEF ExecutorUnregister, RegInv, RegTypeOK
<1>c. /\ p \in Process
      /\ p.up = proc[e].up /\ p.gen = proc[e].gen /\ ~p.index
      /\ p.doing \in {"register", "idle"}
  BY <1>b DEF Process, Doings
<1> HIDE DEF p
<1>d. /\ proc' \in [Executors -> Process]
      /\ proc'[e] = p
      /\ \A x \in Executors \ {e} : proc'[x] = proc[x]
  BY <1>b, <1>c DEF RegInv, RegTypeOK
<1>0. /\ pool' \in [Executors -> [count : Nat, node : Nat, gen : Nat, recipient : BOOLEAN]]
      /\ engine' \in [up : BOOLEAN, table : SUBSET Executors]
      /\ \A x \in Executors \ {e} : /\ pool'[x] = pool[x]
                                    /\ x \in engine.table => x \in engine'.table
      /\ pool[e].count > 0 => pool'[e].count >= pool[e].count - 1
      /\ pool[e].count = 0 => pool'[e].count = 0
      /\ \/ pool'[e] = NoNode
         \/ /\ pool'[e].gen = pool[e].gen /\ pool'[e].count > 0 /\ pool[e].count > 0
            /\ engine' = engine
  <2>1. CASE Delete(e)
    <3>1. pool[e].count \in Nat
      BY DEF RegInv, RegTypeOK
    <3> QED
      BY <2>1, <3>1, DeleteFacts
  <2>2. CASE UNCHANGED <<pool, engine>>
    BY <2>2 DEF RegInv, RegTypeOK, ProcInv
  <2> QED
    BY <1>a, <2>1, <2>2
<1>1. RegTypeOK'
  BY <1>a, <1>d, <1>0 DEF RegInv, RegTypeOK
<1>2. ServiceInv'
  <2>1. \A x \in Executors : pool[x] = NoNode => pool'[x] = NoNode
    BY <1>0 DEF NoNode
  <2> QED
    BY <1>a, <2>1 DEF RegInv, ServiceInv
<1>3. KnownInv'
  <2>1. CrashPending' <=> CrashPending
    BY <1>a DEF CrashPending
  <2>2. ASSUME NEW x \in Executors, pool'[x].count > 0
        PROVE  pool[x].count > 0 /\ (x \in engine.table => x \in engine'.table)
    <3>1. CASE x = e
      BY <1>0, <2>2, <3>1 DEF NoNode
    <3>2. CASE x # e
      BY <1>0, <2>2, <3>2
    <3> QED
      BY <3>1, <3>2
  <2> QED
    BY <1>a, <2>1, <2>2 DEF RegInv, KnownInv
<1>4. ASSUME NEW x \in Executors PROVE ProcInv(x)'
  <2>1. CASE x = e
    <3>1. pool'[e].count = 0 => pool'[e] = NoNode
      BY <1>0
    <3>2. pool'[e].gen <= p.gen
      BY <1>b, <1>c, <1>0 DEF RegInv, RegTypeOK, Process, ProcInv, NoNode
    <3> QED
      BY <1>a, <1>c, <1>d, <2>1, <3>1, <3>2 DEF RegInv, ProcInv
  <2>2. CASE x # e
    BY <1>a, <1>d, <1>0, <2>2 DEF RegInv, ProcInv
  <2> QED
    BY <2>1, <2>2
<1>5. RegisteringInv'
  BY <1>a DEF RegisteringInv
<1>6. ASSUME NEW x \in Executors, Balance(x) PROVE Balance(x)'
  <2>0. /\ Cardinality(DeathsOf(x))' = Cardinality(DeathsOf(x))
        /\ Cardinality(DeathsOf(x)) \in Nat
        /\ pool[x].count \in Nat /\ pool'[x].count \in Nat
        /\ Late(x) = 0 /\ Late(x)' = 0
    BY <1>a, <1>0, DeathsSame, DeathsFinite DEF RegInv, RegTypeOK, Late
  <2>1. CASE x # e
    <3>1. Alive(x)' = Alive(x)
      BY <1>d, <1>0, <2>1 DEF Alive
    <3> QED
      BY <1>0, <1>6, <2>0, <2>1, <3>1 DEF Balance
  <2>2. CASE x = e
    <3>1. Alive(x)' = 0
      BY <1>c, <1>d, <2>2 DEF Alive
    <3>2. CASE pool[e].count > 0
      <4>1. proc[e].index /\ pool[e].gen = proc[e].gen
        BY <1>a, <3>2 DEF RegInv, ProcInv
      <4>2. Alive(x) = 1
        BY <2>2, <4>1 DEF Alive
      <4> QED
        BY <1>0, <1>6, <2>0, <2>2, <3>1, <3>2, <4>2 DEF Balance
    <3>3. CASE ~(pool[e].count > 0)
      <4>1. pool[e].count = 0 /\ pool'[e].count = 0 /\ Alive(x) \in {0, 1}
        BY <1>0, <2>0, <2>2, <3>3 DEF Alive
      <4> QED
        BY <1>6, <2>0, <2>2, <3>1, <4>1 DEF Balance
    <3> QED
      BY <3>2, <3>3
  <2> QED
    BY <2>1, <2>2
<1>7. CountInv'
  BY <1>a, <1>6 DEF RegInv, CountInv
<1> QED
  BY <1>1, <1>2, <1>3, <1>4, <1>5, <1>7 DEF RegInv

-------------------------------------------------------------------------------
(* The driver processes.                                                   *)

LEMMA ExecutorRegisterInv ==
  ASSUME NEW e \in Executors PROVE RegInv /\ ExecutorRegister(e) => RegInv'
<1> SUFFICES ASSUME RegInv, ExecutorRegister(e) PROVE RegInv'
  OBVIOUS
<1> USE DEF ExecutorRegister
<1>0. /\ proc[e] \in Process /\ proc[e].up /\ proc[e].doing = "register"
      /\ proc[e].gen \in Nat /\ proc[e].gen > 0
      /\ registering = NotRegistering
  BY DEF RegInv, RegTypeOK, ProcInv, Process
<1>1. CASE ExecutorGetProxy /\ IsFwkReady /\ engine.up
  <2> DEFINE p == [proc[e] EXCEPT !.doing = "calling"]
  <2>1. /\ engine' = [engine EXCEPT !.table = @ \cup {e}]
        /\ registering' = [ex |-> e, gen |-> proc[e].gen]
        /\ proc' = [proc EXCEPT ![e] = p]
        /\ coauth.ready
    BY <1>0, <1>1 DEF AddToEngine, IsFwkReady, RegInv, RegTypeOK
  <2>2. /\ p \in Process /\ p.gen = proc[e].gen /\ p.up = proc[e].up
        /\ p.index = proc[e].index /\ p.doing = "calling"
    BY <1>0 DEF Process, Doings
  <2> HIDE DEF p, ExecutorRegister
  <2>3. UNCHANGED <<status, coauth, param, pool, tasks, deaths, watch, nodes, overtaken, faults>>
    BY DEF ExecutorRegister
  <2>4. /\ proc' \in [Executors -> Process]
        /\ proc'[e] = p
        /\ \A x \in Executors \ {e} : proc'[x] = proc[x]
    BY <2>1, <2>2 DEF RegInv, RegTypeOK
  <2>5. /\ engine' \in [up : BOOLEAN, table : SUBSET Executors]
        /\ engine'.table = engine.table \cup {e}
    BY <2>1 DEF RegInv, RegTypeOK
  <2>6. /\ registering' \in [ex : Executors \cup {"none"}, gen : Nat]
        /\ registering'.ex = e /\ registering'.gen = proc[e].gen
        /\ registering' # NotRegistering
    BY <1>0, <2>1 DEF NotRegistering
  <2>7. RegTypeOK'
    BY <1>0, <2>3, <2>4, <2>5, <2>6 DEF RegInv, RegTypeOK
  <2>8. ServiceInv'
    BY <2>1, <2>3 DEF RegInv, ServiceInv
  <2>9. KnownInv'
    BY <2>3, <2>5, <2>6 DEF RegInv, KnownInv, CrashPending
  <2>10. ASSUME NEW x \in Executors PROVE ProcInv(x)'
    <3>1. CASE x = e
      BY <1>0, <2>2, <2>3, <2>4, <2>6, <3>1 DEF RegInv, ProcInv
    <3>2. CASE x # e
      <4>1. proc[x].doing # "calling"
        BY <1>0 DEF RegInv, ProcInv
      <4> QED
        BY <2>3, <2>4, <3>2, <4>1 DEF RegInv, ProcInv
    <3> QED
      BY <3>1, <3>2
  <2>11. RegisteringInv'
    BY <1>0, <2>2, <2>4, <2>6 DEF RegisteringInv
  <2>12. ASSUME NEW x \in Executors, Balance(x) PROVE Balance(x)'
    <3>1. Late(x) = 0 /\ Late(x)' = 0
      BY <1>0, <2>2, <2>4, <2>6 DEF Late
    <3>2. Alive(x)' = Alive(x)
      BY <2>2, <2>3, <2>4 DEF Alive
    <3> QED
      BY <2>3, <2>12, <3>1, <3>2, DeathsSame DEF Balance
  <2>13. CountInv'
    BY <2>3, <2>12 DEF RegInv, CountInv
  <2> QED
    BY <2>7, <2>8, <2>9, <2>10, <2>11, <2>13 DEF RegInv
<1>2. CASE ~(ExecutorGetProxy /\ IsFwkReady /\ engine.up)
  <2> DEFINE p == [proc[e] EXCEPT !.doing = "idle"]
  <2>1. /\ proc' = [proc EXCEPT ![e] = p]
        /\ UNCHANGED <<engine, status, coauth, param, pool, registering, tasks, deaths, watch,
                       nodes, overtaken, faults>>
    BY <1>0, <1>2 DEF RegInv, RegTypeOK
  <2>2. /\ p \in Process /\ p.gen = proc[e].gen /\ p.up = proc[e].up
        /\ p.index = proc[e].index /\ p.doing = "idle"
    BY <1>0 DEF Process, Doings
  <2>3. watch' \in [Executors -> Seq(BOOLEAN)] /\ faults' \in [FaultKinds -> Nat]
    BY <2>1 DEF RegInv, RegTypeOK
  <2> HIDE DEF p, ExecutorRegister
  <2> QED
    BY <2>1, <2>2, <2>3, ProcessFrame
<1> QED
  BY <1>1, <1>2

\* What Driver makes of the state of the framework.
LEMMA DriverReaction ==
  ASSUME NEW p \in Process
  PROVE  /\ OnFrameworkReady(p) \in Process
         /\ OnFrameworkReady(p).gen = p.gen /\ OnFrameworkReady(p).up = p.up
         /\ OnFrameworkReady(p).index = p.index
         /\ OnFrameworkReady(p).doing \in {p.doing, "renew", "register"}
         /\ OnFrameworkReady(p).doing = "renew" => p.index \/ p.doing = "renew"
         /\ OnFrameworkDown(p) \in Process
         /\ OnFrameworkDown(p).gen = p.gen /\ OnFrameworkDown(p).up = p.up
         /\ OnFrameworkDown(p).index = p.index /\ OnFrameworkDown(p).doing = p.doing
<1>1. RegisterExecutors(p) \in {"renew", "register"}
      /\ (RegisterExecutors(p) = "renew" => p.index)
  BY DEF RegisterExecutors
<1> DEFINE d == IF ~p.fwk /\ p.hdi THEN RegisterExecutors(p) ELSE p.doing
<1>2. d \in {p.doing, "renew", "register"} /\ (d = "renew" => p.index \/ p.doing = "renew")
      /\ d \in Doings
  BY <1>1 DEF Process, Doings
<1>3. OnFrameworkReady(p) = [p EXCEPT !.timer = FALSE, !.fwk = TRUE, !.doing = d]
  BY DEF OnFrameworkReady, Process
<1> HIDE DEF d
<1>4. /\ OnFrameworkReady(p) \in Process
      /\ OnFrameworkReady(p).gen = p.gen /\ OnFrameworkReady(p).up = p.up
      /\ OnFrameworkReady(p).index = p.index
      /\ OnFrameworkReady(p).doing = d
  BY <1>2, <1>3 DEF Process
<1>5. /\ OnFrameworkDown(p) \in Process
      /\ OnFrameworkDown(p).gen = p.gen /\ OnFrameworkDown(p).up = p.up
      /\ OnFrameworkDown(p).index = p.index /\ OnFrameworkDown(p).doing = p.doing
  BY DEF OnFrameworkDown, Process
<1> QED
  BY <1>2, <1>4, <1>5

LEMMA DriverStepInv ==
  ASSUME NEW e \in Executors
  PROVE  RegInv /\ (ParameterWatcher(e) \/ AuthExecutorMgrRemoved(e) \/ CheckFwkReadyTimer(e))
           => RegInv'
<1> SUFFICES ASSUME RegInv,
                    ParameterWatcher(e) \/ AuthExecutorMgrRemoved(e) \/ CheckFwkReadyTimer(e)
             PROVE  RegInv'
  OBVIOUS
<1>0. proc[e] \in Process /\ proc[e].doing = "idle"
  BY DEF RegInv, RegTypeOK, ParameterWatcher, AuthExecutorMgrRemoved, CheckFwkReadyTimer, Free
<1>1. /\ watch' \in [Executors -> Seq(BOOLEAN)] /\ faults' \in [FaultKinds -> Nat]
      /\ UNCHANGED <<engine, status, coauth, param, pool, registering, tasks, deaths, nodes,
                     overtaken>>
  <2>1. CASE ParameterWatcher(e)
    <3>1. watch[e] \in Seq(BOOLEAN) /\ watch[e] # <<>>
      BY <2>1 DEF ParameterWatcher, RegInv, RegTypeOK
    <3>2. Tail(watch[e]) \in Seq(BOOLEAN)
      BY <3>1, HeadTail
    <3>3. watch' = [watch EXCEPT ![e] = Tail(watch[e])]
      BY <2>1 DEF ParameterWatcher
    <3>4. watch' \in [Executors -> Seq(BOOLEAN)]
      BY <3>2, <3>3 DEF RegInv, RegTypeOK
    <3> QED
      BY <2>1, <3>4 DEF ParameterWatcher, RegInv, RegTypeOK
  <2>2. CASE AuthExecutorMgrRemoved(e)
    BY <2>2 DEF AuthExecutorMgrRemoved, RegInv, RegTypeOK
  <2>3. CASE CheckFwkReadyTimer(e)
    BY <2>3 DEF CheckFwkReadyTimer, RegInv, RegTypeOK
  <2> QED
    BY <2>1, <2>2, <2>3
<1>2. PICK p \in {OnFrameworkReady(proc[e]), OnFrameworkDown(proc[e]),
                  [OnFrameworkDown(proc[e]) EXCEPT !.removed = FALSE]} :
        proc' = [proc EXCEPT ![e] = p]
  BY DEF ParameterWatcher, AuthExecutorMgrRemoved, CheckFwkReadyTimer
<1>3. /\ p \in Process /\ p.gen = proc[e].gen /\ p.up = proc[e].up /\ p.index = proc[e].index
      /\ p.doing \in {"idle", "register", "renew"} /\ (p.doing = "renew" => p.index)
  <2>1. CASE p = OnFrameworkReady(proc[e])
    BY <1>0, <2>1, DriverReaction
  <2>2. CASE p = OnFrameworkDown(proc[e])
    BY <1>0, <2>2, DriverReaction
  <2>3. CASE p = [OnFrameworkDown(proc[e]) EXCEPT !.removed = FALSE]
    <3> DEFINE q == OnFrameworkDown(proc[e])
    <3>1. /\ q \in Process /\ q.gen = proc[e].gen /\ q.up = proc[e].up
          /\ q.index = proc[e].index /\ q.doing = "idle" /\ p = [q EXCEPT !.removed = FALSE]
      BY <1>0, <2>3, DriverReaction
    <3> HIDE DEF q
    <3> QED
      BY <3>1 DEF Process
  <2> QED
    BY <2>1, <2>2, <2>3
<1> QED
  BY <1>1, <1>2, <1>3, ProcessFrame

LEMMA HdiServiceStatusInv ==
  ASSUME NEW e \in Executors PROVE RegInv /\ HdiServiceStatus(e) => RegInv'
<1> SUFFICES ASSUME RegInv, HdiServiceStatus(e) PROVE RegInv'
  OBVIOUS
<1>1. CASE OnHdiConnect(e)
  <2> DEFINE d == IF proc[e].fwk THEN "register" ELSE "idle"
             t == proc[e].timer \/ ~proc[e].fwk
             p == [proc[e] EXCEPT !.hdi = TRUE, !.doing = d, !.timer = t]
  <2>1. d \in {"register", "idle"} /\ t \in BOOLEAN /\ proc[e] \in Process
    BY DEF RegInv, RegTypeOK
  <2>2. proc' = [proc EXCEPT ![e] = p]
    BY <1>1, <2>1 DEF OnHdiConnect, RegInv, RegTypeOK
  <2>3. /\ UNCHANGED <<engine, status, coauth, param, pool, registering, tasks, deaths, nodes,
                       overtaken>>
        /\ watch' \in [Executors -> Seq(BOOLEAN)] /\ faults' \in [FaultKinds -> Nat]
    BY <1>1 DEF OnHdiConnect, RegInv, RegTypeOK
  <2> HIDE DEF d, t
  <2>4. /\ p \in Process /\ p.gen = proc[e].gen /\ p.up = proc[e].up
        /\ p.index = proc[e].index /\ p.doing = d
    BY <2>1 DEF Process, Doings
  <2> HIDE DEF p
  <2> QED
    BY <2>1, <2>2, <2>3, <2>4, ProcessFrame
<1>2. CASE DriverOnHdiDisconnect(e)
  <2> DEFINE d == IF proc[e].index THEN "unregister" ELSE "idle"
             p == [proc[e] EXCEPT !.hdi = FALSE, !.doing = d]
  <2>1. /\ d \in {"unregister", "idle"} /\ (d = "unregister" => proc[e].index)
        /\ proc[e] \in Process
    BY DEF RegInv, RegTypeOK
  <2>2. proc' = [proc EXCEPT ![e] = p]
    BY <1>2, <2>1 DEF DriverOnHdiDisconnect, RegInv, RegTypeOK
  <2>3. /\ UNCHANGED <<engine, status, coauth, param, pool, registering, tasks, deaths, nodes,
                       overtaken>>
        /\ watch' \in [Executors -> Seq(BOOLEAN)]
    BY <1>2 DEF DriverOnHdiDisconnect, RegInv, RegTypeOK
  <2>4. faults' \in [FaultKinds -> Nat]
    <3>1. Fault("hdi", MaxHdiLosses) /\ "hdi" \in FaultKinds /\ RegTypeOK
      BY <1>2 DEF DriverOnHdiDisconnect, FaultKinds, RegInv
    <3> QED
      BY <3>1, FaultType
  <2> HIDE DEF d
  <2>5. /\ p \in Process /\ p.gen = proc[e].gen /\ p.up = proc[e].up
        /\ p.index = proc[e].index /\ p.doing = d
    BY <2>1 DEF Process, Doings
  <2> HIDE DEF p
  <2> QED
    BY <2>1, <2>2, <2>3, <2>4, <2>5, ProcessFrame
<1> QED
  BY <1>1, <1>2 DEF HdiServiceStatus

\* A process that has just started.
LEMMA NewProcess ==
  ASSUME NEW g \in Nat, NEW f \in BOOLEAN
  PROVE  /\ [DeadProc(g) EXCEPT !.up = TRUE, !.fwk = f] \in Process
         /\ [DeadProc(g) EXCEPT !.up = TRUE, !.fwk = f].gen = g
         /\ [DeadProc(g) EXCEPT !.up = TRUE, !.fwk = f].up
         /\ ~[DeadProc(g) EXCEPT !.up = TRUE, !.fwk = f].index
         /\ [DeadProc(g) EXCEPT !.up = TRUE, !.fwk = f].doing = "idle"
<1> DEFINE q == DeadProc(g)
<1>1. q \in Process /\ q.gen = g /\ ~q.index /\ q.doing = "idle"
  BY DEF DeadProc, Process, Doings
<1> HIDE DEF q
<1>2. [q EXCEPT !.up = TRUE, !.fwk = f] \in Process
  BY <1>1 DEF Process
<1>3. /\ [q EXCEPT !.up = TRUE, !.fwk = f].gen = g
      /\ [q EXCEPT !.up = TRUE, !.fwk = f].up
      /\ ~[q EXCEPT !.up = TRUE, !.fwk = f].index
      /\ [q EXCEPT !.up = TRUE, !.fwk = f].doing = "idle"
  BY <1>1 DEF Process
<1> QED
  BY <1>2, <1>3 DEF q

\* What the removal of the framework does to a process.
LEMMA RemovedProcess ==
  ASSUME NEW q \in Process, NEW u \in BOOLEAN, NEW d \in Doings
  PROVE  /\ [q EXCEPT !.removed = u, !.doing = d] \in Process
         /\ [q EXCEPT !.removed = u, !.doing = d].gen = q.gen
         /\ [q EXCEPT !.removed = u, !.doing = d].up = q.up
         /\ [q EXCEPT !.removed = u, !.doing = d].index = q.index
         /\ [q EXCEPT !.removed = u, !.doing = d].doing = d
BY DEF Process

LEMMA DriverInitInv == ASSUME NEW e \in Executors PROVE RegInv /\ DriverInit(e) => RegInv'
<1> SUFFICES ASSUME RegInv, DriverInit(e) PROVE RegInv'
  OBVIOUS
<1> DEFINE p == [DeadProc(proc[e].gen + 1) EXCEPT !.up = TRUE, !.fwk = param]
<1>a. /\ ~proc[e].up
      /\ UNCHANGED <<engine, status, coauth, param, pool, registering, tasks, deaths, watch,
                     nodes, overtaken, faults>>
      /\ proc' = [proc EXCEPT ![e] = p]
  BY DEF DriverInit
<1>b. proc[e] \in Process /\ proc[e].gen \in Nat /\ param \in BOOLEAN
  BY DEF RegInv, RegTypeOK, Process
<1>c. /\ p \in Process /\ p.gen = proc[e].gen + 1 /\ p.up /\ ~p.index /\ p.doing = "idle"
  <2>1. proc[e].gen + 1 \in Nat
    BY <1>b
  <2> QED
    BY <1>b, <2>1, NewProcess
<1> HIDE DEF p
<1>d. /\ proc' \in [Executors -> Process]
      /\ proc'[e] = p
      /\ \A x \in Executors \ {e} : proc'[x] = proc[x]
  BY <1>a, <1>c DEF RegInv, RegTypeOK
<1>1. RegTypeOK'
  BY <1>a, <1>d DEF RegInv, RegTypeOK
<1>2. ServiceInv' /\ KnownInv'
  BY <1>a DEF RegInv, ServiceInv, KnownInv, CrashPending
<1>3. ASSUME NEW x \in Executors PROVE ProcInv(x)'
  <2>0. pool[x].gen \in Nat
    BY DEF RegInv, RegTypeOK
  <2>1. CASE x = e
    BY <1>a, <1>b, <1>c, <1>d, <2>0, <2>1 DEF RegInv, ProcInv
  <2>2. CASE x # e
    BY <1>a, <1>d, <2>2 DEF RegInv, ProcInv
  <2> QED
    BY <2>1, <2>2
<1>4. RegisteringInv'
  <2>0. registering.gen \in Nat
    BY DEF RegInv, RegTypeOK
  <2> QED
    BY <1>a, <1>b, <1>c, <1>d, <2>0 DEF RegInv, RegTypeOK, RegisteringInv
<1>5. ASSUME NEW x \in Executors, Balance(x) PROVE Balance(x)'
  <2>1. CASE x = e
    <3>1. registering # NotRegistering /\ registering.ex = e => registering.gen # p.gen
      BY <1>b, <1>c DEF RegInv, RegTypeOK, RegisteringInv
    <3>2. Late(x)' = Late(x)
      BY <1>a, <1>d, <2>1, <3>1 DEF Late
    <3>3. Alive(x)' = 0 /\ Alive(x) = 0
      BY <1>a, <1>c, <1>d, <2>1 DEF Alive, RegInv, ProcInv
    <3> QED
      BY <1>a, <1>5, <3>2, <3>3, DeathsSame DEF Balance
  <2>2. CASE x # e
    BY <1>a, <1>d, <1>5, <2>2, DeathsSame DEF Balance, Late, Alive
  <2> QED
    BY <2>1, <2>2
<1>6. CountInv'
  BY <1>a, <1>5 DEF RegInv, CountInv
<1> QED
  BY <1>1, <1>2, <1>3, <1>4, <1>6 DEF RegInv

LEMMA ProcDiesInv == ASSUME NEW e \in Executors PROVE RegInv /\ ProcDies(e) => RegInv'
<1> SUFFICES ASSUME RegInv, ProcDies(e) PROVE RegInv'
  OBVIOUS
<1> DEFINE told == pool[e].gen = proc[e].gen /\ pool[e].recipient
           d == [ex |-> e, node |-> pool[e].node]
           notices == IF told THEN {d} ELSE {}
           p == DeadProc(proc[e].gen)
<1>a. /\ proc[e].up
      /\ Fault("proc", MaxProcDeaths)
      /\ UNCHANGED <<engine, status, coauth, param, pool, registering, tasks, nodes>>
      /\ proc' = [proc EXCEPT ![e] = p]
      /\ watch' = [watch EXCEPT ![e] = <<>>]
      /\ deaths' = deaths \cup notices
  BY DEF ProcDies
<1>b. /\ overtaken' \in BOOLEAN
      /\ overtaken => overtaken'
      /\ ~overtaken' => notices = {} \/ proc[e].index \/ proc[e].doing = "calling"
  BY Zenon DEF ProcDies
<1>c. /\ told => deaths' = deaths \cup {d}
      /\ ~told => deaths' = deaths
      /\ notices = {} => ~told
  BY <1>a
<1>d. /\ d \in [ex : Executors, node : Nat] /\ d.ex = e
      /\ proc[e] \in Process /\ proc[e].gen \in Nat
  BY DEF RegInv, RegTypeOK, Process
<1>e. p \in Process /\ p.gen = proc[e].gen /\ ~p.up /\ ~p.index /\ p.doing = "idle"
  BY <1>d DEF DeadProc, Process, Doings
<1> HIDE DEF p, d, told, notices
<1>f. /\ proc' \in [Executors -> Process]
      /\ proc'[e] = p
      /\ \A x \in Executors \ {e} : proc'[x] = proc[x]
  BY <1>a, <1>e DEF RegInv, RegTypeOK
<1>1. RegTypeOK'
  <2>1. watch' \in [Executors -> Seq(BOOLEAN)]
    <3>1. <<>> \in Seq(BOOLEAN)
      OBVIOUS
    <3> QED
      BY <1>a, <3>1 DEF RegInv, RegTypeOK
  <2>2. faults' \in [FaultKinds -> Nat]
    <3>1. "proc" \in FaultKinds /\ RegTypeOK
      BY DEF FaultKinds, RegInv
    <3> QED
      BY <1>a, <3>1, FaultType
  <2>3. IsFiniteSet(deaths') /\ deaths' \in SUBSET [ex : Executors, node : Nat]
    <3>1. CASE told
      BY <1>c, <1>d, <3>1, DeathsAdd DEF RegInv, RegTypeOK
    <3>2. CASE ~told
      BY <1>c, <3>2 DEF RegInv, RegTypeOK
    <3> QED
      BY <3>1, <3>2
  <2> QED
    BY <1>a, <1>b, <1>f, <2>1, <2>2, <2>3 DEF RegInv, RegTypeOK
<1>2. ServiceInv'
  BY <1>a DEF RegInv, ServiceInv
<1>3. KnownInv'
  <2>1. CrashPending' <=> CrashPending
    BY <1>a DEF CrashPending
  <2> QED
    BY <1>a, <1>b, <2>1 DEF RegInv, KnownInv
<1>4. ASSUME NEW x \in Executors PROVE ProcInv(x)'
  <2>1. CASE x = e
    BY <1>a, <1>e, <1>f, <2>1 DEF RegInv, ProcInv
  <2>2. CASE x # e
    BY <1>a, <1>f, <2>2 DEF RegInv, ProcInv
  <2> QED
    BY <2>1, <2>2
<1>5. RegisteringInv'
  BY <1>a, <1>e, <1>f DEF RegInv, RegTypeOK, RegisteringInv
<1>6. ASSUME ~overtaken', NEW x \in Executors PROVE Balance(x)'
  <2>0. /\ Balance(x) /\ Cardinality(DeathsOf(x)) \in Nat /\ pool[x].count \in Nat
        /\ Alive(x) \in {0, 1} /\ Late(x) \in {0, 1}
    <3>1. ~overtaken
      BY <1>b, <1>6, Zenon
    <3>2. RegTypeOK /\ Balance(x)
      BY <3>1 DEF RegInv, CountInv
    <3>3. Cardinality(DeathsOf(x)) \in Nat /\ pool[x].count \in Nat
      BY <3>2, DeathsFinite DEF RegTypeOK
    <3> QED
      BY <3>2, <3>3 DEF Alive, Late
  <2>1. CASE x # e
    <3>1. Late(x)' = Late(x) /\ Alive(x)' = Alive(x)
      BY <1>a, <1>f, <2>1 DEF Late, Alive
    <3>2. Cardinality(DeathsOf(x))' = Cardinality(DeathsOf(x))
      BY <1>c, <1>d, <2>1, DeathsAdd, DeathsSame DEF RegInv
    <3> QED
      BY <1>a, <2>0, <3>1, <3>2 DEF Balance
  <2>2. CASE x = e
    <3>1. Alive(x)' = 0 /\ Late(x)' \in {0, 1}
      BY <1>e, <1>f, <2>2 DEF Alive, Late
    <3>2. Late(x) = 1 => Late(x)' = 1
      BY <1>a, <1>e, <1>f, <2>2 DEF Late
    <3>3. CASE ~told
      <4>1. Cardinality(DeathsOf(x))' = Cardinality(DeathsOf(x))
        BY <1>c, <3>3, DeathsSame
      <4> QED
        BY <1>a, <2>0, <3>1, <3>2, <4>1 DEF Balance
    <3>4. CASE told
      <4>1. /\ Cardinality(DeathsOf(x))' \in Nat
            /\ Cardinality(DeathsOf(x))' <= Cardinality(DeathsOf(x)) + 1
        BY <1>c, <1>d, <3>4, DeathsAdd DEF RegInv
      <4>2. proc[e].index \/ proc[e].doing = "calling"
        BY <1>b, <1>c, <1>6, <3>4
      <4>3. CASE proc[e].index
        <5>1. Alive(x) = 1
          BY <2>2, <3>4, <4>3 DEF Alive, told
        <5> QED
          BY <1>a, <2>0, <3>1, <3>2, <4>1, <5>1 DEF Balance
      <4>4. CASE proc[e].doing = "calling"
        <5>1. /\ registering # NotRegistering
              /\ registering.ex = e /\ registering.gen = proc[e].gen
          BY <4>4 DEF RegInv, ProcInv
        <5>2. Late(x) = 0 /\ Late(x)' = 1
          BY <1>a, <1>e, <1>f, <2>2, <5>1 DEF Late
        <5> QED
          BY <1>a, <2>0, <3>1, <4>1, <5>2 DEF Balance
      <4> QED
        BY <4>2, <4>3, <4>4
    <3> QED
      BY <3>3, <3>4
  <2> QED
    BY <2>1, <2>2
<1>7. CountInv'
  BY <1>6 DEF CountInv
<1> QED
  BY <1>1, <1>2, <1>3, <1>4, <1>5, <1>7 DEF RegInv

-------------------------------------------------------------------------------
(* The framework's process.                                                *)

LEMMA FwkCrashInv == RegInv /\ FwkCrash => RegInv'
<1> SUFFICES ASSUME RegInv, FwkCrash PROVE RegInv'
  OBVIOUS
<1> DEFINE after(x) == [proc[x] EXCEPT !.removed = proc[x].up,
                                       !.doing = IF @ = "calling" THEN "idle" ELSE @]
<1>a. /\ Fault("fwk", MaxFwkCrashes)
      /\ coauth' = [NewService EXCEPT !.up = FALSE]
      /\ pool' = [x \in Executors |-> NoNode]
      /\ status' = <<>> /\ registering' = NotRegistering /\ tasks' = <<>> /\ deaths' = {}
      /\ proc' = [x \in Executors |-> after(x)]
      /\ UNCHANGED <<engine, param, watch, nodes, overtaken>>
  BY DEF FwkCrash
<1>b. ASSUME NEW x \in Executors
      PROVE  /\ after(x) \in Process
             /\ after(x).gen = proc[x].gen /\ after(x).gen \in Nat
             /\ after(x).up = proc[x].up /\ after(x).index = proc[x].index
             /\ after(x).doing # "calling"
             /\ after(x).doing \in {"unregister", "renew"} => after(x).doing = proc[x].doing
  <2>1. proc[x] \in Process
    BY DEF RegInv, RegTypeOK
  <2> DEFINE d == IF proc[x].doing = "calling" THEN "idle" ELSE proc[x].doing
             u == proc[x].up
  <2>2. /\ after(x) = [proc[x] EXCEPT !.removed = u, !.doing = d]
        /\ d \in Doings /\ d # "calling"
        /\ d \in {"unregister", "renew"} => d = proc[x].doing
        /\ u \in BOOLEAN /\ proc[x].gen \in Nat
    BY <2>1 DEF Process, Doings
  <2> HIDE DEF d, u, after
  <2>3. /\ [proc[x] EXCEPT !.removed = u, !.doing = d] \in Process
        /\ [proc[x] EXCEPT !.removed = u, !.doing = d].gen = proc[x].gen
        /\ [proc[x] EXCEPT !.removed = u, !.doing = d].up = proc[x].up
        /\ [proc[x] EXCEPT !.removed = u, !.doing = d].index = proc[x].index
        /\ [proc[x] EXCEPT !.removed = u, !.doing = d].doing = d
    <3>1. u \in BOOLEAN /\ d \in Doings
      BY <2>2
    <3> QED
      BY <2>1, <3>1, RemovedProcess, Zenon
  <2> QED
    BY <2>2, <2>3, Zenon
<1> HIDE DEF after
<1>c. /\ proc' \in [Executors -> Process]
      /\ \A x \in Executors : proc'[x] = after(x) /\ pool'[x] = NoNode
  BY <1>a, <1>b
<1>1. RegTypeOK'
  <2>1. pool' \in [Executors -> [count : Nat, node : Nat, gen : Nat, recipient : BOOLEAN]]
    <3>1. NoNode \in [count : Nat, node : Nat, gen : Nat, recipient : BOOLEAN]
      BY DEF NoNode
    <3> QED
      BY <1>a, <3>1
  <2>2. coauth' \in [up : BOOLEAN, running : BOOLEAN, ready : BOOLEAN,
                     token : {"no", "set", "checked", "yes"},
                     doing : {"none", "ready", "unavailable"}]
    BY <1>a DEF NewService
  <2>3. faults' \in [FaultKinds -> Nat]
    <3>1. "fwk" \in FaultKinds /\ RegTypeOK
      BY DEF FaultKinds, RegInv
    <3> QED
      BY <1>a, <3>1, FaultType
  <2>4. status' \in Seq(BOOLEAN) /\ tasks' \in Seq([ex : Executors, node : Nat, gen : Nat])
    BY <1>a
  <2>5. /\ registering' \in [ex : Executors \cup {"none"}, gen : Nat]
        /\ deaths' \in SUBSET [ex : Executors, node : Nat] /\ IsFiniteSet(deaths')
    BY <1>a, FS_EmptySet DEF NotRegistering
  <2> QED
    BY <1>a, <1>c, <2>1, <2>2, <2>3, <2>4, <2>5 DEF RegInv, RegTypeOK
<1>2. ServiceInv'
  <2>1. coauth'.doing = "none" /\ ~coauth'.ready
    BY <1>a DEF NewService
  <2> QED
    BY <1>a, <1>c, <2>1 DEF ServiceInv
<1>3. KnownInv'
  BY <1>a, <1>c DEF KnownInv, NoNode
<1>4. ASSUME NEW x \in Executors PROVE ProcInv(x)'
  BY <1>b, <1>c DEF RegInv, ProcInv, NoNode
<1>5. RegisteringInv'
  BY <1>a DEF RegisteringInv
<1>6. ASSUME NEW x \in Executors PROVE Balance(x)'
  <2>1. DeathsOf(x)' = {} /\ Cardinality({}) = 0
    BY <1>a, FS_EmptySet DEF DeathsOf
  <2>2. Late(x)' = 0
    BY <1>a DEF Late
  <2>3. Alive(x)' = 0
    BY <1>b, <1>c DEF Alive, NoNode, RegInv, ProcInv
  <2> QED
    BY <1>c, <2>1, <2>2, <2>3 DEF Balance, NoNode
<1>7. CountInv'
  BY <1>6 DEF CountInv
<1> QED
  BY <1>1, <1>2, <1>3, <1>4, <1>5, <1>7 DEF RegInv

LEMMA FwkRestartInv == RegInv /\ FwkRestart => RegInv'
<1> SUFFICES ASSUME RegInv, FwkRestart PROVE RegInv'
  OBVIOUS
<1>a. /\ ~coauth.up /\ coauth' = NewService
      /\ status' = <<TRUE>> \/ status' = <<>>
      /\ UNCHANGED <<engine, param, pool, registering, tasks, deaths, proc, watch, nodes,
                     overtaken, faults>>
  BY DEF FwkRestart
<1>0. registering = NotRegistering /\ \A e \in Executors : pool[e] = NoNode
  BY <1>a DEF RegInv, ServiceInv
<1>1. RegTypeOK'
  <2>1. coauth' \in [up : BOOLEAN, running : BOOLEAN, ready : BOOLEAN,
                     token : {"no", "set", "checked", "yes"},
                     doing : {"none", "ready", "unavailable"}]
    BY <1>a DEF NewService
  <2>2. status' \in Seq(BOOLEAN)
    <3>1. <<TRUE>> \in Seq(BOOLEAN) /\ <<>> \in Seq(BOOLEAN)
      OBVIOUS
    <3> QED
      BY <1>a, <3>1
  <2> QED
    BY <1>a, <2>1, <2>2 DEF RegInv, RegTypeOK
<1>2. ServiceInv'
  BY <1>a, <1>0 DEF ServiceInv, NewService
<1>3. KnownInv'
  BY <1>a, <1>0 DEF KnownInv, NoNode
<1> QED
  BY <1>a, <1>1, <1>2, <1>3, ServiceFrame DEF RegInv

-------------------------------------------------------------------------------
(* The theorems.                                                           *)

LEMMA RegStepInv == RegInv /\ [RegNext]_regVars => RegInv'
<1> SUFFICES ASSUME RegInv, [RegNext]_regVars PROVE RegInv'
  OBVIOUS
<1>1. CASE EngineCrash
  BY <1>1, EngineCrashInv
<1>2. CASE EngineRestart
  BY <1>2, EngineRestartInv
<1>3. CASE FwkCrash
  BY <1>3, FwkCrashInv
<1>4. CASE FwkRestart
  BY <1>4, FwkRestartInv
<1>5. CASE ServiceStep
  <2>1. CASE StateManagerOnEngineReady
    BY <2>1, StateManagerOnEngineReadyInv
  <2>2. CASE StateManagerOnEngineUnavailable
    BY <2>2, StateManagerOnEngineUnavailableInv
  <2>3. CASE OnEngineReady
    BY <2>3, OnEngineReadyInv
  <2>4. CASE OnEngineUnavailable
    BY <2>4, OnEngineUnavailableInv
  <2>5. CASE SetAccessTokenReady \/ NotifyFwkReady
    BY <2>5, TokenInv
  <2>6. CASE OnFwkReady
    BY <2>6, OnFwkReadyInv
  <2>7. CASE Insert
    BY <2>7, InsertInv
  <2>8. CASE RegisterTask
    BY <2>8, RegisterTaskInv
  <2>9. CASE \E d \in deaths : ExecutorDied(d)
    BY <2>9, ExecutorDiedInv
  <2> QED
    BY <1>5, <2>1, <2>2, <2>3, <2>4, <2>5, <2>6, <2>7, <2>8, <2>9 DEF ServiceStep
<1>6. ASSUME NEW e \in Executors, DriverStep(e) PROVE RegInv'
  BY <1>6, ExecutorRegisterInv, ExecutorUnregisterInv, DriverStepInv DEF DriverStep
<1>7. ASSUME NEW e \in Executors, HdiServiceStatus(e) PROVE RegInv'
  BY <1>7, HdiServiceStatusInv
<1>8. ASSUME NEW e \in Executors, DriverInit(e) PROVE RegInv'
  BY <1>8, DriverInitInv
<1>9. ASSUME NEW e \in Executors, ProcDies(e) PROVE RegInv'
  BY <1>9, ProcDiesInv
<1>10. CASE UNCHANGED regVars
  <2> USE <1>10 DEF regVars
  <2>1. RegTypeOK'
    BY DEF RegInv, RegTypeOK
  <2>2. ServiceInv' /\ KnownInv'
    BY DEF RegInv, ServiceInv, KnownInv, CrashPending
  <2> QED
    BY <2>1, <2>2, ServiceFrame DEF RegInv
<1> QED
  BY <1>1, <1>2, <1>3, <1>4, <1>5, <1>6, <1>7, <1>8, <1>9, <1>10 DEF RegNext

\* What CoAuthService, the pool, the engine and the driver processes keep among them,
\* whatever the number of executors and of faults.
THEOREM RegistryInvariant == RegSpec => []RegInv
<1>1. RegInit => RegInv
  BY RegInitInv
<1>2. RegInv /\ [RegNext]_regVars => RegInv'
  BY RegStepInv
<1> QED
  BY <1>1, <1>2, PTL DEF RegSpec

\* A node of the pool is known to the engine, for any number of executors and of
\* crashes of the engine, the framework and the processes (ResourceNodePoolImpl::
\* Insert, Delete, DeleteAll; CoAuthService::OnEngineUnavailable), as long as no death notice
\* was overtaken: processed between the engine's and the pool's registration of its index,
\* under way when the pool is emptied, or counted twice.  The node of such an index may be
\* unknown to the engine, and the theorem says nothing of the pool from then on.
THEOREM PoolTheorem == RegSpec => []PoolKnownToEngine
<1>1. RegInv => PoolKnownToEngine
  <2> SUFFICES ASSUME RegInv, EngineSettled, ~overtaken,
                      NEW e \in Executors, pool[e].count > 0
               PROVE  e \in engine.table
    BY DEF PoolKnownToEngine
  <2>1. ~CrashPending
    BY DEF EngineSettled, CrashPending, Has
  <2> QED
    BY <2>1 DEF RegInv, KnownInv
<1> QED
  BY <1>1, RegistryInvariant, PTL

\* The registration of the living process survives the deaths that are still to be
\* processed, however many instances have come and gone (count in
\* ResourceNodePoolImpl, the death recipient of CoAuthService).
THEOREM SuccessorTheorem == RegSpec => []SuccessorKept
<1>1. RegInv => SuccessorKept
  <2> SUFFICES ASSUME RegInv, ~overtaken, NEW e \in Executors,
                      pool[e].count > 0 /\ proc[e].up /\ proc[e].index /\ pool[e].gen = proc[e].gen
               PROVE  pool[e].count > Cardinality({d \in deaths : d.ex = e /\ d.node # pool[e].node})
    BY DEF SuccessorKept
  <2> DEFINE older == {d \in deaths : d.ex = e /\ d.node # pool[e].node}
  <2>1. IsFiniteSet(DeathsOf(e)) /\ Cardinality(DeathsOf(e)) \in Nat
    BY DeathsFinite DEF RegInv
  <2>2. older \subseteq DeathsOf(e)
    BY DEF DeathsOf
  <2>3. IsFiniteSet(older) /\ Cardinality(older) <= Cardinality(DeathsOf(e))
    BY <2>1, <2>2, FS_Subset
  <2>4. Cardinality(older) \in Nat
    BY <2>3, FS_CardinalityType
  <2>5. Late(e) = 0 /\ Alive(e) = 1
    BY DEF Late, Alive, RegInv, RegisteringInv
  <2>6. Balance(e) /\ pool[e].count \in Nat
    BY DEF RegInv, CountInv, RegTypeOK
  <2> HIDE DEF older
  <2>7. pool[e].count > Cardinality(older)
    BY <2>1, <2>3, <2>4, <2>5, <2>6 DEF Balance
  <2> QED
    BY <2>7 DEF older
<1> QED
  BY <1>1, RegistryInvariant, PTL
===============================================================================
