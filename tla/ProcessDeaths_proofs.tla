------------------------ MODULE ProcessDeaths_proofs ------------------------
(***************************************************************************)
(* Proofs about the two sides ProcessDeaths checks in one run.             *)
(*   ExecutorHost, for any set of commands and any number of tips: no      *)
(*     command is lost in a disconnection, and its result is its last      *)
(*     message.                                                            *)
(*   ClientCalls, for any calls, any number of deaths of the service, any  *)
(*     tokens of the callers and any conditions of their requests: nothing *)
(*     is done for a caller without the permission, and a callback is      *)
(*     answered once.                                                      *)
(***************************************************************************)
EXTENDS ProcessDeaths, TLAPS

-------------------------------------------------------------------------------
(* ExecutorHost: the inductive invariant.                                  *)

\* A command nobody began has left no trace.
Fresh(c) ==
  begin[c] = "none" =>
    /\ finished[c] = "no"
    /\ c \notin respond /\ c \notin toNotify
    /\ notifying # c

\* A command that may still be running is listed until it is finished.
Listed(c) ==
  begin[c] \in {"added", "request", "answering", "accepted"} =>
    finished[c] = "yes" \/ c \in respond

\* A command the HDI was asked for is finished, or the disconnection, once it has
\* its copy of the list, has it still ahead.
Ahead(c) ==
  /\ stage \in {"notify", "done"}
  /\ begin[c] \in {"request", "answering", "accepted"}
  => finished[c] = "yes" \/ c \in toNotify \/ notifying = c

\* The HDI pointer and the worklist go with the stage of the disconnection.
StageOK ==
  /\ hdi <=> stage = "connected"
  /\ stage # "notify" => toNotify = {} /\ notifying = None

\* A command that is not finished has sent tips only.
SentOK(c) ==
  /\ finished[c] = "no" =>
       Len(sent[c]) <= MaxTips /\ \A i \in DOMAIN sent[c] : sent[c][i] = "tip"
  /\ \A i \in DOMAIN sent[c] : sent[c][i] = "finish" => i = Len(sent[c])

HostInv ==
  /\ TypeOK
  /\ StageOK
  /\ ListedOwesAnswer
  /\ \A c \in Commands : Fresh(c) /\ Listed(c) /\ Ahead(c) /\ SentOK(c)

-------------------------------------------------------------------------------
\* The messages of a command that sent nothing.
LEMMA EmptyFact ==
  /\ <<>> \in Seq({"tip", "finish"})
  /\ Len(<<>>) = 0
  /\ DOMAIN <<>> = {}
BY SMT

\* What Append does to the messages of a command.
LEMMA AppendFact ==
  ASSUME NEW s \in Seq({"tip", "finish"}), NEW e \in {"tip", "finish"}
  PROVE  /\ Append(s, e) \in Seq({"tip", "finish"})
         /\ Len(Append(s, e)) = Len(s) + 1
         /\ Append(s, e)[Len(s) + 1] = e
         /\ \A i \in DOMAIN s : Append(s, e)[i] = s[i]
         /\ DOMAIN Append(s, e) = DOMAIN s \cup {Len(s) + 1}
         /\ Len(s) + 1 \notin DOMAIN s
BY SMT

\* AsyncCommandBase::OnResult up to OnResultInner keeps the invariant, whichever
\* thread calls it for a command that was begun.
LEMMA OnResultKeeps ==
  ASSUME HostInv, NEW c \in Commands, OnResult(c), begin[c] # "none"
  PROVE  HostInv'
<1> USE DEF HostInv
<1>1. /\ finished[c] = "no"
      /\ finished' = [finished EXCEPT ![c] = "busy"]
      /\ UNCHANGED <<hdi, messenger, respond, holding, begin, stage, toNotify, notifying, released>>
      /\ sent' = IF c \in holding THEN [sent EXCEPT ![c] = Append(@, "finish")] ELSE sent
  BY DEF OnResult, Send, disconnectVars
<1>2. /\ sent[c] \in Seq({"tip", "finish"})
      /\ Len(sent[c]) <= MaxTips
      /\ \A i \in DOMAIN sent[c] : sent[c][i] = "tip"
  BY <1>1 DEF TypeOK, SentOK
<1>3. /\ sent'[c] \in Seq({"tip", "finish"})
      /\ Len(sent'[c]) <= MaxTips + 1
      /\ \A i \in DOMAIN sent'[c] : sent'[c][i] = "finish" => i = Len(sent'[c])
  <2>1. CASE c \in holding
    <3>1. sent'[c] = Append(sent[c], "finish")
      BY <1>1, <2>1 DEF TypeOK
    <3> QED
      BY <1>2, <3>1, AppendFact, HostAssumption
  <2>2. CASE c \notin holding
    BY <1>1, <1>2, <2>2, HostAssumption DEF TypeOK
  <2> QED
    BY <2>1, <2>2
<1>4. \A d \in Commands : d # c => sent'[d] = sent[d] /\ finished'[d] = finished[d]
  BY <1>1 DEF TypeOK
<1>5. TypeOK'
  <2>1. sent' \in [Commands -> Seq({"tip", "finish"})]
    BY <1>1, <1>2, AppendFact DEF TypeOK
  <2>2. \A d \in Commands : Len(sent'[d]) <= MaxTips + 1
    BY <1>3, <1>4 DEF TypeOK
  <2> QED
    BY <1>1, <2>1, <2>2 DEF TypeOK
<1>6. StageOK'
  BY <1>1 DEF StageOK
<1>7. ListedOwesAnswer'
  BY <1>1 DEF ListedOwesAnswer, TypeOK
<1>8. \A d \in Commands : (Fresh(d) /\ Listed(d) /\ Ahead(d))'
  BY <1>1 DEF TypeOK, Fresh, Listed, Ahead
<1>9. \A d \in Commands : SentOK(d)'
  <2> TAKE d \in Commands
  <2>1. CASE d = c
    BY <1>1, <1>3, <2>1 DEF TypeOK, SentOK
  <2>2. CASE d # c
    BY <1>4, <2>2 DEF SentOK
  <2> QED
    BY <2>1, <2>2
<1> QED
  BY <1>5, <1>6, <1>7, <1>8, <1>9

\* The initial state satisfies the invariant.
LEMMA HostInitOK == Init => HostInv
<1> SUFFICES ASSUME Init PROVE HostInv
  OBVIOUS
<1>1. sent = [c \in Commands |-> <<>>]
  BY DEF Init
<1>2. \A c \in Commands : Len(sent[c]) = 0 /\ DOMAIN sent[c] = {}
  <2> TAKE c \in Commands
  <2>1. sent[c] = <<>>
    BY <1>1
  <2> QED
    BY <2>1, EmptyFact, Zenon
<1>3. sent \in [Commands -> Seq({"tip", "finish"})]
  BY <1>1, EmptyFact
<1>4. \A c \in Commands : Len(sent[c]) <= MaxTips
  <2> TAKE c \in Commands
  <2>1. Len(sent[c]) = 0
    BY <1>2
  <2> QED
    BY <2>1, HostAssumption
<1>5. TypeOK
  <2>1. \A c \in Commands : Len(sent[c]) <= MaxTips + 1
    <3> TAKE c \in Commands
    <3>1. Len(sent[c]) = 0
      BY <1>2
    <3> QED
      BY <3>1, HostAssumption
  <2> QED
    BY <1>3, <2>1, Zenon DEF Init, TypeOK, BeginStates
<1>6. \A c \in Commands : SentOK(c)
  BY <1>2, <1>4, Zenon DEF SentOK
<1> QED
  BY <1>5, <1>6, HostAssumption DEF Init, HostInv, StageOK, ListedOwesAnswer, Fresh, Listed, Ahead

\* Every step keeps the invariant.
LEMMA HostInductive == HostInv /\ [Next]_vars => HostInv'
<1> SUFFICES ASSUME HostInv, [Next]_vars PROVE HostInv'
  OBVIOUS
<1> USE HostAssumption
<1>1. CASE OnMessengerReady
  BY <1>1 DEF HostInv, OnMessengerReady, commandVars, disconnectVars, TypeOK, StageOK,
       ListedOwesAnswer, Fresh, Listed, Ahead, SentOK
<1>2. CASE OnHdiDisconnect
  BY <1>2 DEF HostInv, OnHdiDisconnect, commandVars, TypeOK, StageOK,
       ListedOwesAnswer, Fresh, Listed, Ahead, SentOK
<1>3. CASE CopyCommands
  BY <1>3 DEF HostInv, CopyCommands, commandVars, TypeOK, StageOK,
       ListedOwesAnswer, Fresh, Listed, Ahead, SentOK
<1>4. CASE Unregister
  BY <1>4 DEF HostInv, Unregister, commandVars, TypeOK, StageOK,
       ListedOwesAnswer, Fresh, Listed, Ahead, SentOK
<1>5. CASE Release
  BY <1>5 DEF HostInv, Release, commandVars, disconnectVars, TypeOK, StageOK,
       ListedOwesAnswer, Fresh, Listed, Ahead, SentOK
<1>6. ASSUME NEW c \in Commands, StartProcess(c) PROVE HostInv'
  <2>1. TypeOK'
    BY <1>6 DEF HostInv, StartProcess, disconnectVars, TypeOK, BeginStates
  <2>2. StageOK' /\ ListedOwesAnswer'
    BY <1>6 DEF HostInv, StartProcess, MayBegin, disconnectVars, TypeOK, StageOK,
         ListedOwesAnswer, Fresh
  <2>3. \A d \in Commands : (Fresh(d) /\ Listed(d) /\ Ahead(d) /\ SentOK(d))'
    BY <1>6 DEF HostInv, StartProcess, disconnectVars, TypeOK, Fresh, Listed, Ahead, SentOK
  <2> QED
    BY <2>1, <2>2, <2>3 DEF HostInv
<1>7. ASSUME NEW c \in Commands,
             StartProcessReleased(c) \/ SendRequest(c) \/ HdiReturns(c) \/ RefusalAnswered(c)
      PROVE  HostInv'
  <2>1. /\ UNCHANGED <<hdi, messenger, respond, holding, finished, sent, stage, toNotify,
                       notifying, released>>
        /\ \E b \in BeginStates \ {"none"} : begin' = [begin EXCEPT ![c] = b]
        /\ begin'[c] = "refused" => begin[c] = "none"
        /\ begin'[c] = "request" => begin[c] = "added" /\ hdi
        /\ begin'[c] \in {"answering", "accepted"} => begin[c] = "request"
        /\ begin'[c] # "added"
    BY <1>7 DEF HostInv, TypeOK, StartProcessReleased, MayBegin, SendRequest, HdiReturns,
         RefusalAnswered, disconnectVars, BeginStates
  <2>2. TypeOK'
    BY <2>1 DEF HostInv, TypeOK
  <2>3. StageOK' /\ ListedOwesAnswer'
    BY <2>1 DEF HostInv, TypeOK, StageOK, ListedOwesAnswer, Fresh
  <2>4. \A d \in Commands : (Fresh(d) /\ Listed(d) /\ Ahead(d) /\ SentOK(d))'
    BY <2>1 DEF HostInv, TypeOK, StageOK, Fresh, Listed, Ahead, SentOK, BeginStates
  <2> QED
    BY <2>2, <2>3, <2>4 DEF HostInv
<1>8. ASSUME NEW c \in Commands, StartProcessFails(c) PROVE HostInv'
  BY <1>8 DEF HostInv, StartProcessFails, disconnectVars, TypeOK, BeginStates, StageOK,
       ListedOwesAnswer, Fresh, Listed, Ahead, SentOK
<1>9. ASSUME NEW c \in Commands, EndProcess(c) PROVE HostInv'
  BY <1>9 DEF HostInv, EndProcess, disconnectVars, TypeOK, StageOK,
       ListedOwesAnswer, Fresh, Listed, Ahead, SentOK
<1>10. ASSUME NEW c \in Commands, HdiResult(c) \/ AnswerRefusal(c) \/ Notify(c) PROVE HostInv'
  <2>1. OnResult(c) /\ begin[c] # "none"
    BY <1>10 DEF HostInv, HdiResult, HdiCallsBack, AnswerRefusal, Notify, Fresh
  <2> QED
    BY <2>1, OnResultKeeps
<1>11. ASSUME NEW c \in Commands, HdiTip(c) PROVE HostInv'
  <2>1. /\ finished[c] = "no" /\ Len(sent[c]) < MaxTips
        /\ UNCHANGED <<hdi, messenger, respond, holding, begin, finished, stage, toNotify,
                       notifying, released>>
        /\ sent' = IF c \in holding THEN [sent EXCEPT ![c] = Append(@, "tip")] ELSE sent
        /\ sent[c] \in Seq({"tip", "finish"})
        /\ \A i \in DOMAIN sent[c] : sent[c][i] = "tip"
    BY <1>11 DEF HostInv, HdiTip, Send, disconnectVars, TypeOK, SentOK
  <2>2. CASE c \notin holding
    BY <2>1, <2>2 DEF HostInv, TypeOK, StageOK, ListedOwesAnswer, Fresh, Listed, Ahead, SentOK
  <2>3. CASE c \in holding
    <3>1. /\ sent'[c] = Append(sent[c], "tip")
          /\ \A d \in Commands : d # c => sent'[d] = sent[d]
      BY <2>1, <2>3 DEF HostInv, TypeOK
    <3>2. /\ sent'[c] \in Seq({"tip", "finish"})
          /\ Len(sent'[c]) <= MaxTips
          /\ \A i \in DOMAIN sent'[c] : sent'[c][i] = "tip"
      BY <2>1, <3>1, AppendFact
    <3>3. sent' \in [Commands -> Seq({"tip", "finish"})]
      BY <2>1, <2>3, AppendFact DEF HostInv, TypeOK
    <3>4. \A d \in Commands : Len(sent'[d]) <= MaxTips + 1
      <4> TAKE d \in Commands
      <4>1. CASE d = c
        <5>1. Len(sent'[c]) \in Nat
          BY <3>2
        <5> QED
          BY <3>2, <4>1, <5>1, HostAssumption
      <4>2. CASE d # c
        BY <3>1, <4>2 DEF HostInv, TypeOK
      <4> QED
        BY <4>1, <4>2
    <3>5. TypeOK'
      BY <2>1, <3>3, <3>4 DEF HostInv, TypeOK
    <3>6. \A d \in Commands : SentOK(d)'
      BY <2>1, <3>1, <3>2 DEF HostInv, SentOK
    <3> QED
      BY <2>1, <3>5, <3>6 DEF HostInv, StageOK, ListedOwesAnswer, Fresh, Listed, Ahead
  <2> QED
    BY <2>2, <2>3
<1>12. ASSUME NEW c \in Commands, NotifyNext(c) PROVE HostInv'
  BY <1>12 DEF HostInv, NotifyNext, commandVars, TypeOK, StageOK,
       ListedOwesAnswer, Fresh, Listed, Ahead, SentOK
<1>13. ASSUME NEW c \in Commands, NotifyReturns(c) PROVE HostInv'
  BY <1>13 DEF HostInv, NotifyReturns, commandVars, TypeOK, StageOK,
       ListedOwesAnswer, Fresh, Listed, Ahead, SentOK
<1>14. CASE UNCHANGED vars
  BY <1>14 DEF HostInv, vars, commandVars, disconnectVars, TypeOK, StageOK,
       ListedOwesAnswer, Fresh, Listed, Ahead, SentOK
<1> QED
  BY <1>1, <1>2, <1>3, <1>4, <1>5, <1>6, <1>7, <1>8, <1>9, <1>10, <1>11, <1>12, <1>13, <1>14
     DEF Next, DisconnectStep

\* The invariant holds in every behaviour.
LEMMA HostInvariant == Spec => []HostInv
BY HostInitOK, HostInductive, PTL DEF Spec

-------------------------------------------------------------------------------
\* The lists, the progress and the messages of the commands keep their types.
THEOREM HostTypeCorrect == Spec => []TypeOK
<1>1. HostInv => TypeOK
  BY DEF HostInv
<1> QED
  BY <1>1, HostInvariant, PTL

\* What the invariant of the commands is for.
LEMMA HostInvImplies == HostInv => NoCommandLost /\ ResultIsLast /\ ListedOwesAnswer
<1>1. HostInv => NoCommandLost
  BY HostAssumption DEF HostInv, StageOK, Ahead, NoCommandLost, TypeOK
<1>2. HostInv => ResultIsLast
  BY DEF HostInv, SentOK, ResultIsLast
<1>3. HostInv => ListedOwesAnswer
  BY DEF HostInv
<1> QED
  BY <1>1, <1>2, <1>3

\* However StartProcess and OnHdiDisconnect cross, a processed disconnection leaves
\* no accepted command without its result, for any set of commands.
THEOREM DisconnectAnswersAll == Spec => []NoCommandLost
BY HostInvariant, HostInvImplies, PTL

\* A command sends its result once and nothing after it, for any number of tips and
\* whichever threads call OnResult.
THEOREM ResultSentLast == Spec => []ResultIsLast
BY HostInvariant, HostInvImplies, PTL

\* A command that was answered or refused is not listed any more, so a later
\* disconnection does not answer it.
THEOREM ListExact == Spec => []ListedOwesAnswer
BY HostInvariant, HostInvImplies, PTL

-------------------------------------------------------------------------------
(* ClientCalls: the checks of an entry, in their order.                    *)

\* The least of a few numbers is one of them (FiniteSetsExt's Min, by cases).
LEMMA MinFact == \A S \in SUBSET (1..6) : S # {} => Min(S) \in S
<1> SUFFICES ASSUME NEW S \in SUBSET (1..6), S # {} PROVE Min(S) \in S
  OBVIOUS
<1>1. \E x \in S : \A y \in S : x <= y
  <2>1. CASE 1 \in S BY <2>1, SMT
  <2>2. CASE 1 \notin S /\ 2 \in S BY <2>2, SMT
  <2>3. CASE S \cap {1, 2} = {} /\ 3 \in S BY <2>3, SMT
  <2>4. CASE S \cap {1, 2, 3} = {} /\ 4 \in S BY <2>4, SMT
  <2>5. CASE S \cap {1, 2, 3, 4} = {} /\ 5 \in S BY <2>5, SMT
  <2>6. CASE S \cap {1, 2, 3, 4, 5} = {}
    <3>1. \A x \in S : x = 6 BY <2>6, SMT
    <3>2. PICK x \in S : x = 6 BY <3>1
    <3> QED BY <3>1, <3>2, SMT
  <2> QED BY <2>1, <2>2, <2>3, <2>4, <2>5, <2>6, SMT
<1> QED BY <1>1 DEF Min

\* FirstFailure is SUCCESS only if every check passed, for a list of checks whose failures
\* all have another code than SUCCESS; and so for lists of one to six checks.
LEMMA Passed ==
  ASSUME NEW checks, NEW n \in 1..6, DOMAIN checks = 1..n, FirstFailure(checks) = "SUCCESS",
         \A i \in 1..n : ~checks[i][1] => checks[i][2] # "SUCCESS"
  PROVE  \A i \in 1..n : checks[i][1]
<1> DEFINE failed == {i \in DOMAIN checks : ~checks[i][1]}
<1>1. failed \in SUBSET (1..6) BY SMT
<1>2. failed # {} => Min(failed) \in failed BY <1>1, MinFact
<1>3. failed = {} BY <1>2 DEF FirstFailure
<1> QED BY <1>3

\* A list of 1 check.
LEMMA Passed1 ==
  ASSUME NEW p1, NEW a1,
         p1 \/ a1 # "SUCCESS",
         FirstFailure(<< <<p1, a1>> >>) = "SUCCESS"
  PROVE  p1
<1> DEFINE s == << <<p1, a1>> >>
<1>1. DOMAIN s = 1..1
  BY SMT
<1>2. s[1][1] = p1
  BY SMT
<1>3. s[1][2] = a1
  BY SMT
<1> HIDE DEF s
<1>4. \A i \in 1..1 : ~s[i][1] => s[i][2] # "SUCCESS"
  BY <1>2, <1>3, SMT
<1>5. \A i \in 1..1 : s[i][1]
  BY <1>1, <1>4, Passed DEF s
<1> QED BY <1>2, <1>5, SMT

\* A list of 2 checks.
LEMMA Passed2 ==
  ASSUME NEW p1, NEW a1, NEW p2, NEW a2,
         p1 \/ a1 # "SUCCESS", p2 \/ a2 # "SUCCESS",
         FirstFailure(<< <<p1, a1>>, <<p2, a2>> >>) = "SUCCESS"
  PROVE  p1 /\ p2
<1> DEFINE s == << <<p1, a1>>, <<p2, a2>> >>
<1>1. DOMAIN s = 1..2
  BY SMT
<1>2. s[1][1] = p1 /\ s[2][1] = p2
  BY SMT
<1>3. s[1][2] = a1 /\ s[2][2] = a2
  BY SMT
<1> HIDE DEF s
<1>4. \A i \in 1..2 : ~s[i][1] => s[i][2] # "SUCCESS"
  BY <1>2, <1>3, SMT
<1>5. \A i \in 1..2 : s[i][1]
  BY <1>1, <1>4, Passed DEF s
<1> QED BY <1>2, <1>5, SMT

\* A list of 3 checks.
LEMMA Passed3 ==
  ASSUME NEW p1, NEW a1, NEW p2, NEW a2, NEW p3, NEW a3,
         p1 \/ a1 # "SUCCESS", p2 \/ a2 # "SUCCESS", p3 \/ a3 # "SUCCESS",
         FirstFailure(<< <<p1, a1>>, <<p2, a2>>, <<p3, a3>> >>) = "SUCCESS"
  PROVE  p1 /\ p2 /\ p3
<1> DEFINE s == << <<p1, a1>>, <<p2, a2>>, <<p3, a3>> >>
<1>1. DOMAIN s = 1..3
  BY SMT
<1>2. s[1][1] = p1 /\ s[2][1] = p2 /\ s[3][1] = p3
  BY SMT
<1>3. s[1][2] = a1 /\ s[2][2] = a2 /\ s[3][2] = a3
  BY SMT
<1> HIDE DEF s
<1>4. \A i \in 1..3 : ~s[i][1] => s[i][2] # "SUCCESS"
  BY <1>2, <1>3, SMT
<1>5. \A i \in 1..3 : s[i][1]
  BY <1>1, <1>4, Passed DEF s
<1> QED BY <1>2, <1>5, SMT

\* A list of 4 checks.
LEMMA Passed4 ==
  ASSUME NEW p1, NEW a1, NEW p2, NEW a2, NEW p3, NEW a3, NEW p4, NEW a4,
         p1 \/ a1 # "SUCCESS", p2 \/ a2 # "SUCCESS", p3 \/ a3 # "SUCCESS", p4 \/ a4 # "SUCCESS",
         FirstFailure(<< <<p1, a1>>, <<p2, a2>>, <<p3, a3>>, <<p4, a4>> >>) = "SUCCESS"
  PROVE  p1 /\ p2 /\ p3 /\ p4
<1> DEFINE s == << <<p1, a1>>, <<p2, a2>>, <<p3, a3>>, <<p4, a4>> >>
<1>1. DOMAIN s = 1..4
  BY SMT
<1>2. s[1][1] = p1 /\ s[2][1] = p2 /\ s[3][1] = p3 /\ s[4][1] = p4
  BY SMT
<1>3. s[1][2] = a1 /\ s[2][2] = a2 /\ s[3][2] = a3 /\ s[4][2] = a4
  BY SMT
<1> HIDE DEF s
<1>4. \A i \in 1..4 : ~s[i][1] => s[i][2] # "SUCCESS"
  BY <1>2, <1>3, SMT
<1>5. \A i \in 1..4 : s[i][1]
  BY <1>1, <1>4, Passed DEF s
<1> QED BY <1>2, <1>5, SMT

\* A list of 5 checks.
LEMMA Passed5 ==
  ASSUME NEW p1, NEW a1, NEW p2, NEW a2, NEW p3, NEW a3, NEW p4, NEW a4, NEW p5, NEW a5,
         p1 \/ a1 # "SUCCESS", p2 \/ a2 # "SUCCESS", p3 \/ a3 # "SUCCESS", p4 \/ a4 # "SUCCESS",
         p5 \/ a5 # "SUCCESS",
         FirstFailure(<< <<p1, a1>>, <<p2, a2>>, <<p3, a3>>, <<p4, a4>>, <<p5, a5>> >>) = "SUCCESS"
  PROVE  p1 /\ p2 /\ p3 /\ p4 /\ p5
<1> DEFINE s == << <<p1, a1>>, <<p2, a2>>, <<p3, a3>>, <<p4, a4>>, <<p5, a5>> >>
<1>1. DOMAIN s = 1..5
  BY SMT
<1>2. s[1][1] = p1 /\ s[2][1] = p2 /\ s[3][1] = p3 /\ s[4][1] = p4 /\ s[5][1] = p5
  BY SMT
<1>3. s[1][2] = a1 /\ s[2][2] = a2 /\ s[3][2] = a3 /\ s[4][2] = a4 /\ s[5][2] = a5
  BY SMT
<1> HIDE DEF s
<1>4. \A i \in 1..5 : ~s[i][1] => s[i][2] # "SUCCESS"
  BY <1>2, <1>3, SMT
<1>5. \A i \in 1..5 : s[i][1]
  BY <1>1, <1>4, Passed DEF s
<1> QED BY <1>2, <1>5, SMT

\* A list of 6 checks.
LEMMA Passed6 ==
  ASSUME NEW p1, NEW a1, NEW p2, NEW a2, NEW p3, NEW a3, NEW p4, NEW a4, NEW p5, NEW a5, NEW p6, NEW a6,
         p1 \/ a1 # "SUCCESS", p2 \/ a2 # "SUCCESS", p3 \/ a3 # "SUCCESS", p4 \/ a4 # "SUCCESS",
         p5 \/ a5 # "SUCCESS", p6 \/ a6 # "SUCCESS",
         FirstFailure(<< <<p1, a1>>, <<p2, a2>>, <<p3, a3>>, <<p4, a4>>, <<p5, a5>>, <<p6, a6>> >>) = "SUCCESS"
  PROVE  p1 /\ p2 /\ p3 /\ p4 /\ p5 /\ p6
<1> DEFINE s == << <<p1, a1>>, <<p2, a2>>, <<p3, a3>>, <<p4, a4>>, <<p5, a5>>, <<p6, a6>> >>
<1>1. DOMAIN s = 1..6
  BY SMT
<1>2. s[1][1] = p1 /\ s[2][1] = p2 /\ s[3][1] = p3 /\ s[4][1] = p4 /\ s[5][1] = p5 /\ s[6][1] = p6
  BY SMT
<1>3. s[1][2] = a1 /\ s[2][2] = a2 /\ s[3][2] = a3 /\ s[4][2] = a4 /\ s[5][2] = a5 /\ s[6][2] = a6
  BY SMT
<1> HIDE DEF s
<1>4. \A i \in 1..6 : ~s[i][1] => s[i][2] # "SUCCESS"
  BY <1>2, <1>3, SMT
<1>5. \A i \in 1..6 : s[i][1]
  BY <1>1, <1>4, Passed DEF s
<1> QED BY <1>2, <1>5, SMT

-------------------------------------------------------------------------------
(* The entry points: what an effect takes, and how many answers there are. *)

\* The caller has permission p, and so has the first caller unless only the direct one
\* is asked.
Granted(c, p) == p \in c.direct.perms /\ (p \notin OnlyDirect => \A t \in c.first : p \in t.perms)

\* The answers of an outcome, at once and later, can be counted; they are at most one.
Counts(o) == Len(o.now) \in Nat /\ Len(o.later) \in Nat
Once(o) == Counts(o) /\ Len(o.now) + Len(o.later) <= 1

\* What each permission check of the entries takes: the token of the direct caller, and of
\* the first caller where IpcCommon asks for both.
LEMMA GrantedFacts ==
  ASSUME NEW c
  PROVE  /\ Internal(c) => Granted(c, "ACCESS_USER_AUTH_INTERNAL")
         /\ Biometric(c) => Granted(c, "ACCESS_BIOMETRIC")
         /\ SystemApp(c) => Granted(c, "systemApp")
         /\ ManageIdm(c) => Granted(c, "MANAGE_USER_IDM")
         /\ UseIdm(c) => Granted(c, "USE_USER_IDM")
         /\ \A p \in {"SUPPORT_USER_AUTH", "USE_USER_ACCESS_MANAGER", "ACCESS_USER_PASSIVE_RECOGNITION",
                      "ENTERPRISE_DEVICE_MGR"} : CheckPermission(c, p) => Granted(c, p)
         /\ CheckPermission(c, "ENFORCE_USER_IDM") => Granted(c, "ENFORCE_USER_IDM") /\ Granted(c, "accountmgr")
         /\ CheckPermission(c, "CLEAR_REDUNDANCY_PERMISSION") => Granted(c, "ENFORCE_USER_IDM")
<1> USE DEF CheckPermission, Granted, OnlyDirect, DirectOnly, CheckDirectCaller,
            CheckDirectCallerAndFirstCallerIfSet, CheckCallerIsSystemApp, CheckNativeCallingProcessWhiteList
<1>1. Internal(c) => Granted(c, "ACCESS_USER_AUTH_INTERNAL")
  BY SMT DEF Internal
<1>2. Biometric(c) => Granted(c, "ACCESS_BIOMETRIC")
  BY SMT DEF Biometric
<1>3. SystemApp(c) => Granted(c, "systemApp")
  BY SMT DEF SystemApp
<1>4. ManageIdm(c) => Granted(c, "MANAGE_USER_IDM")
  BY SMT DEF ManageIdm
<1>5. UseIdm(c) => Granted(c, "USE_USER_IDM")
  BY SMT DEF UseIdm
<1>6. CheckPermission(c, "SUPPORT_USER_AUTH") => Granted(c, "SUPPORT_USER_AUTH")
  BY SMT
<1>7. CheckPermission(c, "USE_USER_ACCESS_MANAGER") => Granted(c, "USE_USER_ACCESS_MANAGER")
  BY SMT
<1>8. CheckPermission(c, "ACCESS_USER_PASSIVE_RECOGNITION") => Granted(c, "ACCESS_USER_PASSIVE_RECOGNITION")
  BY SMT
<1>9. CheckPermission(c, "ENTERPRISE_DEVICE_MGR") => Granted(c, "ENTERPRISE_DEVICE_MGR")
  BY SMT
<1>10. CheckPermission(c, "ENFORCE_USER_IDM") => Granted(c, "ENFORCE_USER_IDM") /\ Granted(c, "accountmgr")
  BY SMT
<1>11. CheckPermission(c, "CLEAR_REDUNDANCY_PERMISSION") => Granted(c, "ENFORCE_USER_IDM")
  BY SMT
<1> QED
  BY ONLY <1>1, <1>2, <1>3, <1>4, <1>5, <1>6, <1>7, <1>8, <1>9, <1>10, <1>11

\* How often the forms of outcome the entries are made of answer, and which have an effect.
LEMMA ReplyFacts ==
  /\ \A ret, x : LET o == Reply(ret, <<x>>) IN o.ret = ret /\ Once(o) /\ ~o.effect
  /\ \A ret : LET o == Reply(ret, <<>>) IN o.ret = ret /\ Once(o) /\ ~o.effect
  /\ \A ret : LET o == Refuse(ret) IN o.ret = ret /\ Once(o) /\ ~o.effect
  /\ \A ret : LET o == Return(ret) IN Once(o) /\ (o.effect => ret = "SUCCESS")
  /\ \A ret, x : LET o == Effect(ret, <<>>, <<x>>) IN o.ret = ret /\ Once(o)
  /\ \A ret, x : LET o == Effect(ret, <<x>>, <<>>) IN o.ret = ret /\ Once(o)
  /\ \A h : Once(StartContext(h))
<1> USE DEF Reply, Refuse, Effect, Once, Counts
<1>1. \A x : Len(<<x>>) = 1 /\ Len(<<>>) = 0
  BY SMT
<1>2. \A ret, x : LET o == Reply(ret, <<x>>) IN o.ret = ret /\ Once(o) /\ ~o.effect
  BY <1>1
<1>3. \A ret : LET o == Reply(ret, <<>>) IN o.ret = ret /\ Once(o) /\ ~o.effect
  BY <1>1
<1>4. \A ret : LET o == Refuse(ret) IN o.ret = ret /\ Once(o) /\ ~o.effect
  BY <1>2
<1>5. \A ret : LET o == Return(ret) IN Once(o) /\ (o.effect => ret = "SUCCESS")
  BY <1>3 DEF Return
<1>6. \A ret, x : LET o == Effect(ret, <<>>, <<x>>) IN o.ret = ret /\ Once(o)
  BY <1>1
<1>7. \A ret, x : LET o == Effect(ret, <<x>>, <<>>) IN o.ret = ret /\ Once(o)
  BY <1>1
<1>8. \A h : Once(StartContext(h))
  BY <1>4, <1>6 DEF StartContext
<1> QED
  BY <1>2, <1>3, <1>4, <1>5, <1>6, <1>7, <1>8

\* The entries that are a list of checks and a returned code, one lemma each.
LEMMA GetVersionFacts ==
  ASSUME NEW c
  PROVE  /\ Once(GetVersion(c))
         /\ GetVersion(c).effect =>
              Granted(c, "ACCESS_USER_AUTH_INTERNAL") \/ Granted(c, "ACCESS_BIOMETRIC")
<1>1. Once(GetVersion(c))
  BY ReplyFacts DEF GetVersion
<1>2. ASSUME GetVersion(c).effect
      PROVE  Granted(c, "ACCESS_USER_AUTH_INTERNAL") \/ Granted(c, "ACCESS_BIOMETRIC")
  <2> DEFINE allowed == Internal(c) \/ Biometric(c)
  <2>1. FirstFailure(<< <<allowed, "CHECK_PERMISSION_FAILED">> >>) = "SUCCESS"
    BY <1>2, ReplyFacts DEF GetVersion
  <2> HIDE DEF allowed
  <2>2. allowed
    BY <2>1, Passed1
  <2> QED
    BY <2>2, GrantedFacts DEF allowed
<1> QED
  BY <1>1, <1>2

\* GetEnrolledState: one answer at most, and what an effect takes.
LEMMA GetEnrolledStateFacts ==
  ASSUME NEW c, NEW holds
  PROVE  /\ Once(GetEnrolledState(c, holds))
         /\ GetEnrolledState(c, holds).effect =>
              Granted(c, "ACCESS_BIOMETRIC")
<1>1. Once(GetEnrolledState(c, holds))
  BY ReplyFacts DEF GetEnrolledState
<1>2. ASSUME GetEnrolledState(c, holds).effect
      PROVE  Granted(c, "ACCESS_BIOMETRIC")
  BY <1>2, ReplyFacts, Passed5, GrantedFacts DEF GetEnrolledState
<1> QED
  BY <1>1, <1>2

\* CancelAuthOrIdentify: one answer at most, and what an effect takes.
LEMMA CancelAuthOrIdentifyFacts ==
  ASSUME NEW c, NEW holds
  PROVE  /\ Once(CancelAuthOrIdentify(c, holds))
         /\ CancelAuthOrIdentify(c, holds).effect =>
              Granted(c, "ACCESS_USER_AUTH_INTERNAL") \/ Granted(c, "ACCESS_BIOMETRIC")
<1>1. Once(CancelAuthOrIdentify(c, holds))
  BY ReplyFacts DEF CancelAuthOrIdentify
<1>2. ASSUME CancelAuthOrIdentify(c, holds).effect
      PROVE  Granted(c, "ACCESS_USER_AUTH_INTERNAL") \/ Granted(c, "ACCESS_BIOMETRIC")
  <2> DEFINE allowed == Internal(c) \/ Biometric(c)
  <2>1. FirstFailure(<< <<allowed, "CHECK_PERMISSION_FAILED">>,
                        <<"context" \in holds, "INVALID_CONTEXT_ID">>,
                         <<"ownContext" \in holds, "CHECK_PERMISSION_FAILED">> >>) = "SUCCESS"
    BY <1>2, ReplyFacts DEF CancelAuthOrIdentify
  <2> HIDE DEF allowed
  <2>2. allowed
    BY <2>1, Passed3
  <2> QED
    BY <2>2, GrantedFacts DEF allowed
<1> QED
  BY <1>1, <1>2

\* Notice: one answer at most, and what an effect takes.
LEMMA NoticeFacts ==
  ASSUME NEW c, NEW holds
  PROVE  /\ Once(Notice(c, holds))
         /\ Notice(c, holds).effect =>
              Granted(c, "systemApp") /\ Granted(c, "SUPPORT_USER_AUTH")
<1>1. Once(Notice(c, holds))
  BY ReplyFacts DEF Notice
<1>2. ASSUME Notice(c, holds).effect
      PROVE  Granted(c, "systemApp") /\ Granted(c, "SUPPORT_USER_AUTH")
  BY <1>2, ReplyFacts, Passed3, GrantedFacts DEF Notice
<1> QED
  BY <1>1, <1>2

\* RegisterWidgetCallback: one answer at most, and what an effect takes.
LEMMA RegisterWidgetCallbackFacts ==
  ASSUME NEW c, NEW holds
  PROVE  /\ Once(RegisterWidgetCallback(c, holds))
         /\ RegisterWidgetCallback(c, holds).effect =>
              Granted(c, "systemApp") /\ Granted(c, "SUPPORT_USER_AUTH")
<1>1. Once(RegisterWidgetCallback(c, holds))
  BY ReplyFacts DEF RegisterWidgetCallback
<1>2. ASSUME RegisterWidgetCallback(c, holds).effect
      PROVE  Granted(c, "systemApp") /\ Granted(c, "SUPPORT_USER_AUTH")
  BY <1>2, ReplyFacts, Passed3, GrantedFacts DEF RegisterWidgetCallback
<1> QED
  BY <1>1, <1>2

\* SetGlobalConfigParam: one answer at most, and what an effect takes.
LEMMA SetGlobalConfigParamFacts ==
  ASSUME NEW c, NEW holds
  PROVE  /\ Once(SetGlobalConfigParam(c, holds))
         /\ SetGlobalConfigParam(c, holds).effect =>
              Granted(c, "ACCESS_USER_AUTH_INTERNAL") /\ Granted(c, "ENTERPRISE_DEVICE_MGR")
<1>1. Once(SetGlobalConfigParam(c, holds))
  BY ReplyFacts DEF SetGlobalConfigParam
<1>2. ASSUME SetGlobalConfigParam(c, holds).effect
      PROVE  Granted(c, "ACCESS_USER_AUTH_INTERNAL") /\ Granted(c, "ENTERPRISE_DEVICE_MGR")
  <2> DEFINE allowed == Internal(c) /\ CheckPermission(c, "ENTERPRISE_DEVICE_MGR")
  <2>1. FirstFailure(<< <<allowed, "CHECK_PERMISSION_FAILED">>,
                        <<"configParam" \in holds, "INVALID_PARAMETERS">>,
                         <<"engine" \in holds, "engineError">> >>) = "SUCCESS"
    BY <1>2, ReplyFacts DEF SetGlobalConfigParam
  <2> HIDE DEF allowed
  <2>2. allowed
    BY <2>1, Passed3
  <2> QED
    BY <2>2, GrantedFacts DEF allowed
<1> QED
  BY <1>1, <1>2

\* UserConfigParam: one answer at most, and what an effect takes.
LEMMA UserConfigParamFacts ==
  ASSUME NEW c, NEW holds
  PROVE  /\ Once(UserConfigParam(c, holds))
         /\ UserConfigParam(c, holds).effect =>
              Granted(c, "USE_USER_ACCESS_MANAGER")
<1>1. Once(UserConfigParam(c, holds))
  BY ReplyFacts DEF UserConfigParam
<1>2. ASSUME UserConfigParam(c, holds).effect
      PROVE  Granted(c, "USE_USER_ACCESS_MANAGER")
  BY <1>2, ReplyFacts, Passed5, GrantedFacts DEF UserConfigParam
<1> QED
  BY <1>1, <1>2

\* UserAuthSuccessEventListener: one answer at most, and what an effect takes.
LEMMA UserAuthSuccessEventListenerFacts ==
  ASSUME NEW c, NEW holds
  PROVE  /\ Once(UserAuthSuccessEventListener(c, holds))
         /\ UserAuthSuccessEventListener(c, holds).effect =>
              Granted(c, "ACCESS_USER_AUTH_INTERNAL")
<1>1. Once(UserAuthSuccessEventListener(c, holds))
  BY ReplyFacts DEF UserAuthSuccessEventListener
<1>2. ASSUME UserAuthSuccessEventListener(c, holds).effect
      PROVE  Granted(c, "ACCESS_USER_AUTH_INTERNAL")
  BY <1>2, ReplyFacts, Passed2, GrantedFacts DEF UserAuthSuccessEventListener
<1> QED
  BY <1>1, <1>2

\* UserRecognition: one answer at most, and what an effect takes.
LEMMA UserRecognitionFacts ==
  ASSUME NEW c, NEW holds
  PROVE  /\ Once(UserRecognition(c, holds))
         /\ UserRecognition(c, holds).effect =>
              Granted(c, "ACCESS_USER_PASSIVE_RECOGNITION")
<1>1. Once(UserRecognition(c, holds))
  BY ReplyFacts DEF UserRecognition
<1>2. ASSUME UserRecognition(c, holds).effect
      PROVE  Granted(c, "ACCESS_USER_PASSIVE_RECOGNITION")
  BY <1>2, ReplyFacts, Passed3, GrantedFacts DEF UserRecognition
<1> QED
  BY <1>1, <1>2

\* RegisterRemoteAuthCallback: one answer at most, and what an effect takes.
LEMMA RegisterRemoteAuthCallbackFacts ==
  ASSUME NEW c, NEW holds
  PROVE  /\ Once(RegisterRemoteAuthCallback(c, holds))
         /\ RegisterRemoteAuthCallback(c, holds).effect =>
              Granted(c, "systemApp") /\ Granted(c, "ACCESS_USER_AUTH_INTERNAL")
<1>1. Once(RegisterRemoteAuthCallback(c, holds))
  BY ReplyFacts DEF RegisterRemoteAuthCallback
<1>2. ASSUME RegisterRemoteAuthCallback(c, holds).effect
      PROVE  Granted(c, "systemApp") /\ Granted(c, "ACCESS_USER_AUTH_INTERNAL")
  BY <1>2, ReplyFacts, Passed4, GrantedFacts DEF RegisterRemoteAuthCallback
<1> QED
  BY <1>1, <1>2

\* UnregisterRemoteAuthCallback: one answer at most, and what an effect takes.
LEMMA UnregisterRemoteAuthCallbackFacts ==
  ASSUME NEW c
  PROVE  /\ Once(UnregisterRemoteAuthCallback(c))
         /\ UnregisterRemoteAuthCallback(c).effect =>
              Granted(c, "systemApp") /\ Granted(c, "ACCESS_USER_AUTH_INTERNAL")
<1>1. Once(UnregisterRemoteAuthCallback(c))
  BY ReplyFacts DEF UnregisterRemoteAuthCallback
<1>2. ASSUME UnregisterRemoteAuthCallback(c).effect
      PROVE  Granted(c, "systemApp") /\ Granted(c, "ACCESS_USER_AUTH_INTERNAL")
  BY <1>2, ReplyFacts, Passed2, GrantedFacts DEF UnregisterRemoteAuthCallback
<1> QED
  BY <1>1, <1>2

\* OpenSession: one answer at most, and what an effect takes.
LEMMA OpenSessionFacts ==
  ASSUME NEW c, NEW holds
  PROVE  Once(OpenSession(c, holds)) /\ (OpenSession(c, holds).effect => Granted(c, "MANAGE_USER_IDM"))
<1>1. Once(OpenSession(c, holds))
  BY ReplyFacts DEF OpenSession
<1>2. ASSUME OpenSession(c, holds).effect
      PROVE  Granted(c, "MANAGE_USER_IDM")
  BY <1>2, ReplyFacts, Passed2, GrantedFacts DEF OpenSession
<1> QED
  BY <1>1, <1>2

\* CancelEnroll: one answer at most, and what an effect takes.
LEMMA CancelEnrollFacts ==
  ASSUME NEW c, NEW holds
  PROVE  /\ Once(CancelEnroll(c, holds))
         /\ CancelEnroll(c, holds).effect =>
              Granted(c, "MANAGE_USER_IDM")
<1>1. Once(CancelEnroll(c, holds))
  BY ReplyFacts DEF CancelEnroll
<1>2. ASSUME CancelEnroll(c, holds).effect
      PROVE  Granted(c, "MANAGE_USER_IDM")
  BY <1>2, ReplyFacts, Passed2, GrantedFacts DEF CancelEnroll
<1> QED
  BY <1>1, <1>2

\* GetLatestEnrollmentTime: one answer at most, and what an effect takes.
LEMMA GetLatestEnrollmentTimeFacts ==
  ASSUME NEW c, NEW holds
  PROVE  /\ Once(GetLatestEnrollmentTime(c, holds))
         /\ GetLatestEnrollmentTime(c, holds).effect =>
              Granted(c, "USE_USER_IDM")
<1>1. Once(GetLatestEnrollmentTime(c, holds))
  BY ReplyFacts DEF GetLatestEnrollmentTime
<1>2. ASSUME GetLatestEnrollmentTime(c, holds).effect
      PROVE  Granted(c, "USE_USER_IDM")
  BY <1>2, ReplyFacts, Passed2, GrantedFacts DEF GetLatestEnrollmentTime
<1> QED
  BY <1>1, <1>2

\* CredChangeEventListener: one answer at most, and what an effect takes.
LEMMA CredChangeEventListenerFacts ==
  ASSUME NEW c, NEW holds
  PROVE  /\ Once(CredChangeEventListener(c, holds))
         /\ CredChangeEventListener(c, holds).effect =>
              Granted(c, "USE_USER_IDM")
<1>1. Once(CredChangeEventListener(c, holds))
  BY ReplyFacts DEF CredChangeEventListener
<1>2. ASSUME CredChangeEventListener(c, holds).effect
      PROVE  Granted(c, "USE_USER_IDM")
  BY <1>2, ReplyFacts, Passed2, GrantedFacts DEF CredChangeEventListener
<1> QED
  BY <1>1, <1>2

\* QueryReusableAuthResult: one answer at most, and what an effect takes.
LEMMA QueryReusableAuthResultFacts ==
  ASSUME NEW c, NEW holds
  PROVE  /\ Once(QueryReusableAuthResult(c, holds))
         /\ QueryReusableAuthResult(c, holds).effect =>
              Granted(c, "ACCESS_USER_AUTH_INTERNAL") /\ Granted(c, "systemApp")
<1>1. Once(QueryReusableAuthResult(c, holds))
  BY ReplyFacts DEF QueryReusableAuthResult
<1>2. ASSUME QueryReusableAuthResult(c, holds).effect
      PROVE  Granted(c, "ACCESS_USER_AUTH_INTERNAL") /\ Granted(c, "systemApp")
  <2> DEFINE app == GetDirectCallerType(c) = "TOKEN_HAP" /\ SystemApp(c)
             known == "userId" \in holds \/ GetCallingUserId(c, holds)
  <2>1. FirstFailure(<< <<Internal(c), "CHECK_PERMISSION_FAILED">>, <<app, "CHECK_SYSTEM_APP_FAILED">>,
                        <<"atl" \in holds, "TRUST_LEVEL_NOT_SUPPORT">>,
                        <<"authTypes" \in holds, "TYPE_NOT_SUPPORT">>, <<known, "GENERAL_ERROR">>,
                        <<"reusable" \in holds, "INVALID_PARAMETERS">> >>) = "SUCCESS"
    BY <1>2, ReplyFacts DEF QueryReusableAuthResult
  <2> HIDE DEF app, known
  <2>2. Internal(c) /\ app
    BY <2>1, Passed6
  <2> QED
    BY <2>2, GrantedFacts DEF app
<1> QED
  BY <1>1, <1>2

\* The status of a named user takes the internal permission, the caller's own either.
LEMMA GetAvailableStatusFacts ==
  ASSUME NEW c, NEW holds
  PROVE  /\ Once(GetAvailableStatus(c, holds))
         /\ GetAvailableStatus(c, holds).effect =>
              Granted(c, "ACCESS_USER_AUTH_INTERNAL") \/ Granted(c, "ACCESS_BIOMETRIC")
<1> DEFINE allowed == Internal(c) \/ Biometric(c)
           typed == ~({"apiVersion8", "pin"} \subseteq holds)
           ofUser == FirstFailure(<< <<Internal(c), "CHECK_PERMISSION_FAILED">> >>)
           ofCaller == FirstFailure(<< <<allowed, "CHECK_PERMISSION_FAILED">>,
                                       <<typed, "TYPE_NOT_SUPPORT">>,
                                       <<GetCallingUserId(c, holds), "GENERAL_ERROR">> >>)
           check == IF "userId" \in holds THEN ofUser ELSE ofCaller
           code == IF check = "SUCCESS" THEN GetAvailableStatusInner(holds) ELSE check
<1>1. GetAvailableStatus(c, holds) = Return(code)
  BY DEF GetAvailableStatus
<1> HIDE DEF allowed, typed
<1>2. ofUser = "SUCCESS" => Internal(c)
  BY Passed1
<1>3. ofCaller = "SUCCESS" => allowed
  BY Passed3
<1> HIDE DEF ofUser, ofCaller
<1>4. code = "SUCCESS" => Internal(c) \/ allowed
  BY <1>2, <1>3
<1> HIDE DEF check, code
<1>5. Once(Return(code)) /\ (Return(code).effect => code = "SUCCESS")
  BY ReplyFacts
<1> QED
  BY <1>1, <1>4, <1>5, GrantedFacts DEF allowed

\* The refusal of GetProperty and GetPropertyById is answered, and the call succeeds.
LEMMA PropertyFacts ==
  ASSUME NEW c, NEW holds,
         NEW o \in {GetProperty(c, holds), GetPropertyById(c, holds)}
  PROVE  /\ Once(o) /\ o.ret = "SUCCESS"
         /\ o.effect => Granted(c, "ACCESS_USER_AUTH_INTERNAL")
<1>1. CASE o = GetProperty(c, holds)
  BY <1>1, ReplyFacts, GrantedFacts DEF GetProperty
<1>2. CASE o = GetPropertyById(c, holds)
  BY <1>2, ReplyFacts, GrantedFacts DEF GetPropertyById
<1> QED
  BY <1>1, <1>2

\* SetProperty: one answer at most, and what an effect takes.
LEMMA SetPropertyFacts ==
  ASSUME NEW c, NEW holds
  PROVE  /\ Once(SetProperty(c, holds))
         /\ SetProperty(c, holds).effect =>
              Granted(c, "ACCESS_USER_AUTH_INTERNAL")
BY ReplyFacts, GrantedFacts DEF SetProperty

\* GetAuthLockState: one answer at most, and what an effect takes.
LEMMA GetAuthLockStateFacts ==
  ASSUME NEW c, NEW holds
  PROVE  /\ Once(GetAuthLockState(c, holds)) /\ GetAuthLockState(c, holds).ret = "SUCCESS"
         /\ GetAuthLockState(c, holds).effect => Granted(c, "ACCESS_BIOMETRIC")
<1> DEFINE check == FirstFailure(<< <<Biometric(c), "CHECK_PERMISSION_FAILED">>,
                                    <<GetCallingUserId(c, holds), "GENERAL_ERROR">> >>)
<1>1. check = "SUCCESS" => Biometric(c)
  BY Passed2
<1>2. GetAuthLockState(c, holds) = IF check # "SUCCESS" THEN Reply("SUCCESS", <<check>>)
                                   ELSE Effect("SUCCESS", <<GetPropertyHelper(holds)>>, <<>>)
  BY DEF GetAuthLockState
<1> HIDE DEF check
<1> QED
  BY <1>1, <1>2, ReplyFacts, GrantedFacts

\* Auth: one answer at most, and what an effect takes.
LEMMA AuthFacts ==
  ASSUME NEW c, NEW holds
  PROVE  Once(Auth(c, holds)) /\ (Auth(c, holds).effect => Granted(c, "ACCESS_BIOMETRIC"))
<1>1. NorthAuthCheck(c, holds) = "SUCCESS" => Biometric(c)
  BY Passed4 DEF NorthAuthCheck
<1>2. Once(Auth(c, holds))
  BY ReplyFacts DEF Auth
<1>3. Auth(c, holds).effect => NorthAuthCheck(c, holds) = "SUCCESS"
  BY ReplyFacts DEF Auth
<1> QED
  BY <1>1, <1>2, <1>3, GrantedFacts

\* AuthUser may answer twice, so of its answers only that they can be counted is said.
LEMMA AuthUserFacts ==
  ASSUME NEW c, NEW holds
  PROVE  Counts(AuthUser(c, holds)) /\ (AuthUser(c, holds).effect => Granted(c, "ACCESS_USER_AUTH_INTERNAL"))
<1> DEFINE check == FirstFailure(<< <<GetCallerName(c, holds), "GENERAL_ERROR">>,
                                    <<CheckAuthTrustLevel(holds), "TRUST_LEVEL_NOT_SUPPORT">>,
                                    <<Internal(c), "CHECK_PERMISSION_FAILED">> >>)
<1>1. check = "SUCCESS" => Internal(c)
  BY Passed3
<1>2. AuthUser(c, holds) =
        CASE check = "TRUST_LEVEL_NOT_SUPPORT" ->
               Reply("CHECK_PERMISSION_FAILED", <<"TRUST_LEVEL_NOT_SUPPORT">>)
          [] check \notin {"SUCCESS", "TRUST_LEVEL_NOT_SUPPORT"} -> Refuse(check)
          [] check = "SUCCESS" /\ "sudo" \in holds -> StartSudoAuthUser(c, holds)
          [] OTHER -> StartAuthUser(holds)
  BY DEF AuthUser
<1> HIDE DEF check
<1>3. check = "TRUST_LEVEL_NOT_SUPPORT" => Once(AuthUser(c, holds)) /\ ~AuthUser(c, holds).effect
  BY <1>2, ReplyFacts
<1>4. check \notin {"SUCCESS", "TRUST_LEVEL_NOT_SUPPORT"} => Once(AuthUser(c, holds)) /\ ~AuthUser(c, holds).effect
  BY <1>2, ReplyFacts
<1>5. Once(StartSudoAuthUser(c, holds))
  BY ReplyFacts DEF StartSudoAuthUser
<1>6. Counts(StartAuthUser(holds))
  <2>1. Counts(Reply("GENERAL_ERROR", <<"GENERAL_ERROR", "GENERAL_ERROR">>))
    BY DEF Reply, Counts
  <2>2. Counts(AuthRemoteUser(holds))
    BY <2>1, ReplyFacts DEF AuthRemoteUser, Once
  <2> QED
    BY <2>2, ReplyFacts DEF StartAuthUser, Once
<1>7. check = "SUCCESS" => Counts(AuthUser(c, holds))
  BY <1>2, <1>5, <1>6 DEF Once
<1> QED
  BY <1>1, <1>3, <1>4, <1>7, GrantedFacts DEF Once

\* Identify: one answer at most, and what an effect takes.
LEMMA IdentifyFacts ==
  ASSUME NEW c, NEW holds
  PROVE  /\ Once(Identify(c, holds))
         /\ Identify(c, holds).effect =>
              Granted(c, "ACCESS_USER_AUTH_INTERNAL")
BY ReplyFacts, GrantedFacts DEF Identify

\* PrepareRemoteAuth: one answer at most, and what an effect takes.
LEMMA PrepareRemoteAuthFacts ==
  ASSUME NEW c, NEW holds
  PROVE  /\ Once(PrepareRemoteAuth(c, holds))
         /\ PrepareRemoteAuth(c, holds).effect => Granted(c, "ACCESS_USER_AUTH_INTERNAL")
<1> DEFINE check == FirstFailure(<< <<"networkId" \in holds, "INVALID_PARAMETERS">>,
                                    <<Internal(c), "CHECK_PERMISSION_FAILED">> >>)
<1>1. check = "SUCCESS" => Internal(c)
  BY Passed2
<1>2. \E prepared : PrepareRemoteAuth(c, holds) = IF check = "SUCCESS" THEN Effect("SUCCESS", <<>>, <<prepared>>)
                                                  ELSE Reply("SUCCESS", <<check>>)
  BY DEF PrepareRemoteAuth
<1> HIDE DEF check
<1> QED
  BY <1>1, <1>2, ReplyFacts, GrantedFacts

\* AuthWidget asks for the permission within WidgetCallerCheck's fifth check.
LEMMA AuthWidgetFacts ==
  ASSUME NEW c, NEW holds
  PROVE  /\ Once(AuthWidget(c, holds))
         /\ AuthWidget(c, holds).effect =>
              Granted(c, "ACCESS_USER_AUTH_INTERNAL") \/ Granted(c, "ACCESS_BIOMETRIC")
<1> DEFINE caller == WidgetCallerCheck(c, holds)
           parameters == WidgetParamCheck(holds)
           called == caller = "SUCCESS"
           parametered == parameters = "SUCCESS"
           solved == "reusable" \in holds \/ "solution" \in holds
           check == FirstFailure(<< <<called, caller>>, <<parametered, parameters>>,
                                    <<solved, "TYPE_NOT_SUPPORT">> >>)
<1>1. ASSUME caller = "SUCCESS"
      PROVE  CheckCallerPermissionForUserId(c, holds)
  <2> DEFINE mode == CheckWindowMode(c, holds)
             modeOK == mode = "SUCCESS"
             known == "userId" \in holds \/ GetCallingUserId(c, holds)
             listed == "credentialList" \in holds
             privateOK == CheckCallerPermissionForPrivatePin(c, holds)
             userOK == CheckCallerPermissionForUserId(c, holds)
             frontOK == ("sdk" \in holds /\ ~InForeground(c, holds))
                          => CheckPermission(c, "USER_AUTH_FROM_BACKGROUND")
  <2>1. FirstFailure(<< <<known, "GENERAL_ERROR">>, <<listed, "INVALID_PARAMETERS">>, <<modeOK, mode>>,
                        <<privateOK, "CHECK_PERMISSION_FAILED">>, <<userOK, "CHECK_PERMISSION_FAILED">>,
                        <<frontOK, "CHECK_PERMISSION_FAILED">> >>) = "SUCCESS"
    BY <1>1 DEF WidgetCallerCheck
  <2>2. modeOK \/ mode # "SUCCESS"
    OBVIOUS
  <2> HIDE DEF mode, modeOK, known, listed, privateOK, userOK, frontOK
  <2>3. userOK
    BY <2>1, <2>2, Passed6
  <2> QED
    BY <2>3 DEF userOK
<1>2. called \/ caller # "SUCCESS"
  OBVIOUS
<1>3. parametered \/ parameters # "SUCCESS"
  OBVIOUS
<1>4. check = "SUCCESS" => called
  <2> HIDE DEF called, parametered, caller, parameters, solved
  <2> QED
    BY <1>2, <1>3, Passed3
<1>5. /\ Once(AuthWidget(c, holds))
      /\ AuthWidget(c, holds).effect => check = "SUCCESS"
  <2>1. AuthWidget(c, holds) =
          CASE check # "SUCCESS" -> Refuse(check)
            [] check = "SUCCESS" /\ "reusable" \in holds -> Effect("SUCCESS", <<"SUCCESS">>, <<>>)
            [] OTHER -> StartContext(holds)
    BY DEF AuthWidget
  <2> HIDE DEF check
  <2> QED
    BY <2>1, ReplyFacts
<1>6. CheckCallerPermissionForUserId(c, holds) => Internal(c) \/ Biometric(c)
  BY DEF CheckCallerPermissionForUserId
<1> QED
  BY <1>1, <1>4, <1>5, <1>6, GrantedFacts

\* VerifyAuthToken: one answer at most, and what an effect takes.
LEMMA VerifyAuthTokenFacts ==
  ASSUME NEW c, NEW holds
  PROVE  /\ Once(VerifyAuthToken(c, holds))
         /\ VerifyAuthToken(c, holds).effect =>
              Granted(c, "USE_USER_ACCESS_MANAGER")
<1> DEFINE check == FirstFailure(<<
             <<"token" \in holds, "INVALID_PARAMETERS">>,
             <<CheckPermission(c, "USE_USER_ACCESS_MANAGER"), "CHECK_PERMISSION_FAILED">>,
             <<NativeOrSystemApp(c), "CHECK_SYSTEM_APP_FAILED">>,
             <<"engine" \in holds, "engineError">> >>)
<1>1. check = "SUCCESS" => CheckPermission(c, "USE_USER_ACCESS_MANAGER")
  BY Passed4
<1>2. VerifyAuthToken(c, holds) = IF check = "SUCCESS" THEN Effect(check, <<check>>, <<>>) ELSE Refuse(check)
  BY DEF VerifyAuthToken
<1> HIDE DEF check
<1> QED
  BY <1>1, <1>2, ReplyFacts, GrantedFacts

\* An entry that has done its work by the time it answers.
LEMMA DoneFacts ==
  ASSUME NEW check
  PROVE  Once(Done(check)) /\ (Done(check).effect => check = "SUCCESS")
BY ReplyFacts DEF Done

\* CloseSession: one answer at most, and what an effect takes.
LEMMA CloseSessionFacts ==
  ASSUME NEW c, NEW holds
  PROVE  /\ Once(CloseSession(c, holds))
         /\ CloseSession(c, holds).effect =>
              Granted(c, "MANAGE_USER_IDM")
<1> DEFINE code == FirstFailure(<< <<"engine" \in holds, "GENERAL_ERROR">> >>)
<1>1. CloseSession(c, holds) =
        CASE ~ManageIdm(c) -> Return("CHECK_PERMISSION_FAILED")
          [] ManageIdm(c) /\ "ownSession" \notin holds -> Reply("SUCCESS", <<>>)
          [] OTHER -> Return(code)
  BY DEF CloseSession
<1> HIDE DEF code
<1>2. ~ManageIdm(c) => ~CloseSession(c, holds).effect
  <2>1. "CHECK_PERMISSION_FAILED" # "SUCCESS"
    OBVIOUS
  <2> QED
    BY <1>1, <2>1, ReplyFacts
<1>3. Once(CloseSession(c, holds))
  BY <1>1, ReplyFacts
<1> QED
  BY <1>2, <1>3, GrantedFacts

\* The entries of UserIdmService that start a context.
LEMMA ContextEntryFacts ==
  ASSUME NEW c, NEW holds,
         NEW o \in {AddCredential(c, holds), DelCredential(c, holds), UpdateCredential(c, holds)}
  PROVE  Once(o) /\ (o.effect => Granted(c, "MANAGE_USER_IDM"))
<1>1. CASE o = AddCredential(c, holds)
  BY <1>1, ReplyFacts, GrantedFacts DEF AddCredential
<1>2. CASE o = DelCredential(c, holds)
  BY <1>2, ReplyFacts, GrantedFacts DEF DelCredential
<1>3. CASE o = UpdateCredential(c, holds)
  BY <1>3, ReplyFacts, GrantedFacts DEF UpdateCredential, AddCredential
<1> QED
  BY <1>1, <1>2, <1>3

\* What the codes of GetCredentialInfo and its synchronous form are made of.
LEMMA CredentialInfoCode ==
  ASSUME NEW c, NEW holds
  PROVE  /\ GetCredentialInfoInner(c, holds) = "SUCCESS" => UseIdm(c)
         /\ ConvertGetCredentialResult(GetCredentialInfoInner(c, holds), FALSE) = "SUCCESS"
              => GetCredentialInfoInner(c, holds) = "SUCCESS"
<1>1. GetCredentialInfoInner(c, holds) = "SUCCESS" => UseIdm(c)
  BY Passed3 DEF GetCredentialInfoInner
<1>2. ConvertGetCredentialResult(GetCredentialInfoInner(c, holds), FALSE) = "SUCCESS"
        => GetCredentialInfoInner(c, holds) = "SUCCESS"
  BY DEF ConvertGetCredentialResult
<1> QED
  BY <1>1, <1>2

\* The entries of UserIdmService that read.
LEMMA ReadEntryFacts ==
  ASSUME NEW c, NEW holds,
         NEW o \in {GetCredentialInfo(c, holds), GetCredentialInfoSync(c, holds), GetSecInfo(c, holds)}
  PROVE  Once(o) /\ (o.effect => Granted(c, "USE_USER_IDM"))
<1>1. CASE o = GetCredentialInfo(c, holds)
  <2> DEFINE code == ConvertGetCredentialResult(GetCredentialInfoInner(c, holds), FALSE)
  <2>1. o = [Reply("SUCCESS", <<code>>) EXCEPT !.effect = code = "SUCCESS"]
    BY <1>1 DEF GetCredentialInfo
  <2>2. code = "SUCCESS" => UseIdm(c)
    BY CredentialInfoCode
  <2> HIDE DEF code
  <2>3. Once(o) /\ (o.effect => code = "SUCCESS")
    BY <2>1, ReplyFacts DEF Reply, Once, Counts
  <2> QED
    BY <2>2, <2>3, GrantedFacts
<1>2. CASE o = GetCredentialInfoSync(c, holds)
  <2> DEFINE inner == GetCredentialInfoInner(c, holds)
             code == ConvertGetCredentialResult(inner, TRUE)
  <2>1. o = [Reply(code, <<>>) EXCEPT !.effect = inner = "SUCCESS"]
    BY <1>2 DEF GetCredentialInfoSync
  <2>2. inner = "SUCCESS" => UseIdm(c)
    BY CredentialInfoCode
  <2> HIDE DEF code, inner
  <2>3. Once(o) /\ (o.effect => inner = "SUCCESS")
    BY <2>1, ReplyFacts DEF Reply, Once, Counts
  <2> QED
    BY <2>2, <2>3, GrantedFacts
<1>3. CASE o = GetSecInfo(c, holds)
  <2> DEFINE code == FirstFailure(<< <<UseIdm(c), "CHECK_PERMISSION_FAILED">>,
                                     <<"engine" \in holds, "engineError">>,
                                     <<"enrolled" \in holds, "GENERAL_ERROR">> >>)
  <2>1. o = [Refuse(code) EXCEPT !.effect = code = "SUCCESS"]
    BY <1>3 DEF GetSecInfo
  <2>2. code = "SUCCESS" => UseIdm(c)
    BY Passed3
  <2> HIDE DEF code
  <2>3. Once(o) /\ (o.effect => code = "SUCCESS")
    BY <2>1, ReplyFacts DEF Refuse, Reply, Once, Counts
  <2> QED
    BY <2>2, <2>3, GrantedFacts
<1> QED
  BY <1>1, <1>2, <1>3

\* DelUser: one answer at most, and what an effect takes.
LEMMA DelUserFacts ==
  ASSUME NEW c, NEW holds
  PROVE  Once(DelUser(c, holds)) /\ (DelUser(c, holds).effect => Granted(c, "MANAGE_USER_IDM"))
BY DoneFacts, Passed2, GrantedFacts DEF DelUser

\* The entries only the account manager may use.
LEMMA EnforceFacts ==
  ASSUME NEW c, NEW holds, NEW o \in {DeleteSubProfile(c, holds), EnforceDelUser(c, holds)}
  PROVE  Once(o) /\ (o.effect => Granted(c, "ENFORCE_USER_IDM") /\ Granted(c, "accountmgr"))
<1>1. CASE o = DeleteSubProfile(c, holds)
  BY <1>1, DoneFacts, Passed2, GrantedFacts DEF DeleteSubProfile
<1>2. CASE o = EnforceDelUser(c, holds)
  BY <1>2, DoneFacts, Passed3, GrantedFacts DEF EnforceDelUser
<1> QED
  BY <1>1, <1>2

\* The permission of ClearRedundancyCredential is the direct caller's.
LEMMA ClearRedundancyCredentialFacts ==
  ASSUME NEW c, NEW holds
  PROVE  /\ Once(ClearRedundancyCredential(c, holds))
         /\ ClearRedundancyCredential(c, holds).effect => Granted(c, "ENFORCE_USER_IDM")
<1> DEFINE cleared == "engine" \in holds \/ "enrolled" \notin holds
           code == FirstFailure(<< <<CheckPermission(c, "CLEAR_REDUNDANCY_PERMISSION"), "CHECK_PERMISSION_FAILED">>,
                                   <<"account" \in holds, "IPC_ERROR">>, <<cleared, "engineError">> >>)
<1>1. ClearRedundancyCredential(c, holds) = Done(code)
  BY DEF ClearRedundancyCredential
<1> HIDE DEF cleared
<1>2. code = "SUCCESS" => CheckPermission(c, "CLEAR_REDUNDANCY_PERMISSION")
  BY Passed3
<1> HIDE DEF code
<1> QED
  BY <1>1, <1>2, DoneFacts, GrantedFacts

\* A caller is entitled by one permission that is enough alone, or by two that are enough together.
LEMMA NeedFacts ==
  ASSUME NEW m, NEW c
  PROVE  /\ \A p : {p} \in m.needs /\ Granted(c, p) => Entitled(m, c)
         /\ \A p, q : {p, q} \in m.needs /\ Granted(c, p) /\ Granted(c, q) => Entitled(m, c)
BY DEF Entitled, Granted

\* What the outcome of a request must be like: an effect takes an entitled caller, and
\* the answers are at most one, but for the entries of AnswersTwice.
Sound(m, c, holds) ==
  LET o == Outcome(m.entry, c, holds)
  IN /\ Counts(o)
     /\ o.effect => Entitled(m, c)
     /\ m.entry \notin AnswersTwice => Once(o) /\ (m.kind = "report" => o.ret = "SUCCESS")

\* One answer at most is a count of answers.
LEMMA OnceCounts == \A o : Once(o) => Counts(o)
BY DEF Once

\* Every method of the two native clients is sound, whoever calls: 38 methods of
\* UserAuthService and UserIdmService.
LEMMA MethodFacts ==
  ASSUME NEW m \in Methods, NEW c, NEW holds
  PROVE  Sound(m, c, holds)
<1> USE DEF INTERNAL, BIOMETRIC, ACCESS_MANAGER, MANAGE_IDM, USE_IDM, ENFORCE_IDM
<1>1. CASE m = GetAvailableStatusCall
  <2>1. m.entry = "GetAvailableStatus" /\ m.kind = "sync" /\ m.needs = {INTERNAL, BIOMETRIC}
    BY <1>1 DEF GetAvailableStatusCall, Method
  <2>2. Outcome(m.entry, c, holds) = GetAvailableStatus(c, holds)
    BY <2>1 DEF Outcome
  <2>3. Granted(c, "ACCESS_USER_AUTH_INTERNAL") \/ Granted(c, "ACCESS_BIOMETRIC") => Entitled(m, c)
    BY <2>1, NeedFacts
  <2> QED
    BY <2>1, <2>2, <2>3, GetAvailableStatusFacts, OnceCounts DEF Sound
<1>2. CASE m = GetPropertyCall
  <2>1. m.entry = "GetProperty" /\ m.kind = "report" /\ m.needs = {INTERNAL}
    BY <1>2 DEF GetPropertyCall, Method
  <2>2. Outcome(m.entry, c, holds) = GetProperty(c, holds)
    BY <2>1 DEF Outcome
  <2>3. Granted(c, "ACCESS_USER_AUTH_INTERNAL") => Entitled(m, c)
    BY <2>1, NeedFacts
  <2> QED
    BY <2>1, <2>2, <2>3, PropertyFacts, OnceCounts DEF Sound
<1>3. CASE m = GetPropertyByIdCall
  <2>1. m.entry = "GetPropertyById" /\ m.kind = "report" /\ m.needs = {INTERNAL}
    BY <1>3 DEF GetPropertyByIdCall, GetPropertyCall, Method
  <2>2. Outcome(m.entry, c, holds) = GetPropertyById(c, holds)
    BY <2>1 DEF Outcome
  <2>3. Granted(c, "ACCESS_USER_AUTH_INTERNAL") => Entitled(m, c)
    BY <2>1, NeedFacts
  <2> QED
    BY <2>1, <2>2, <2>3, PropertyFacts, OnceCounts DEF Sound
<1>4. CASE m = SetPropertyCall
  <2>1. m.entry = "SetProperty" /\ m.kind = "report" /\ m.needs = {INTERNAL}
    BY <1>4 DEF SetPropertyCall, GetPropertyCall, Method
  <2>2. Outcome(m.entry, c, holds) = SetProperty(c, holds)
    BY <2>1 DEF Outcome
  <2>3. Granted(c, "ACCESS_USER_AUTH_INTERNAL") => Entitled(m, c)
    BY <2>1, NeedFacts
  <2> QED
    BY <2>1, <2>2, <2>3, SetPropertyFacts, OnceCounts DEF Sound, AnswersTwice
<1>5. CASE m = BeginAuthenticationCall
  <2>1. m.entry = "AuthUser" /\ m.kind = "begin" /\ m.needs = {INTERNAL}
    BY <1>5 DEF BeginAuthenticationCall, Method
  <2>2. Outcome(m.entry, c, holds) = AuthUser(c, holds)
    BY <2>1 DEF Outcome
  <2>3. Granted(c, "ACCESS_USER_AUTH_INTERNAL") => Entitled(m, c)
    BY <2>1, NeedFacts
  <2> QED
    BY <2>1, <2>2, <2>3, AuthUserFacts, OnceCounts DEF Sound, AnswersTwice
<1>6. CASE m = BeginNorthAuthenticationCall
  <2>1. m.entry = "Auth" /\ m.kind = "begin" /\ m.needs = {BIOMETRIC}
    BY <1>6 DEF BeginNorthAuthenticationCall, Method
  <2>2. Outcome(m.entry, c, holds) = Auth(c, holds)
    BY <2>1 DEF Outcome
  <2>3. Granted(c, "ACCESS_BIOMETRIC") => Entitled(m, c)
    BY <2>1, NeedFacts
  <2> QED
    BY <2>1, <2>2, <2>3, AuthFacts, OnceCounts DEF Sound
<1>7. CASE m = BeginIdentificationCall
  <2>1. m.entry = "Identify" /\ m.kind = "begin" /\ m.needs = {INTERNAL}
    BY <1>7 DEF BeginIdentificationCall, Method
  <2>2. Outcome(m.entry, c, holds) = Identify(c, holds)
    BY <2>1 DEF Outcome
  <2>3. Granted(c, "ACCESS_USER_AUTH_INTERNAL") => Entitled(m, c)
    BY <2>1, NeedFacts
  <2> QED
    BY <2>1, <2>2, <2>3, IdentifyFacts, OnceCounts DEF Sound
<1>8. CASE m = CancelAuthenticationCall
  <2>1. m.entry = "CancelAuthOrIdentify" /\ m.kind = "sync" /\ m.needs = {INTERNAL, BIOMETRIC}
    BY <1>8 DEF CancelAuthenticationCall, Method
  <2>2. Outcome(m.entry, c, holds) = CancelAuthOrIdentify(c, holds)
    BY <2>1 DEF Outcome
  <2>3. Granted(c, "ACCESS_USER_AUTH_INTERNAL") \/ Granted(c, "ACCESS_BIOMETRIC") => Entitled(m, c)
    BY <2>1, NeedFacts
  <2> QED
    BY <2>1, <2>2, <2>3, CancelAuthOrIdentifyFacts, OnceCounts DEF Sound
<1>9. CASE m = GetVersionCall
  <2>1. m.entry = "GetVersion" /\ m.kind = "sync" /\ m.needs = {INTERNAL, BIOMETRIC}
    BY <1>9 DEF GetVersionCall, Method
  <2>2. Outcome(m.entry, c, holds) = GetVersion(c)
    BY <2>1 DEF Outcome
  <2>3. Granted(c, "ACCESS_USER_AUTH_INTERNAL") \/ Granted(c, "ACCESS_BIOMETRIC") => Entitled(m, c)
    BY <2>1, NeedFacts
  <2> QED
    BY <2>1, <2>2, <2>3, GetVersionFacts, OnceCounts DEF Sound
<1>10. CASE m = SetGlobalConfigParamCall
  <2>1. /\ m.entry = "SetGlobalConfigParam" /\ m.kind = "sync"
        /\ m.needs = {INTERNAL \cup {"ENTERPRISE_DEVICE_MGR"}}
    BY <1>10 DEF SetGlobalConfigParamCall, Method
  <2>2. Outcome(m.entry, c, holds) = SetGlobalConfigParam(c, holds)
    BY <2>1 DEF Outcome
  <2>3. Granted(c, "ACCESS_USER_AUTH_INTERNAL") /\ Granted(c, "ENTERPRISE_DEVICE_MGR") => Entitled(m, c)
    BY <2>1, NeedFacts
  <2> QED
    BY <2>1, <2>2, <2>3, SetGlobalConfigParamFacts, OnceCounts DEF Sound
<1>11. CASE m = UserConfigParamCall
  <2>1. m.entry = "UserConfigParam" /\ m.kind = "sync" /\ m.needs = {ACCESS_MANAGER}
    BY <1>11 DEF UserConfigParamCall, Method
  <2>2. Outcome(m.entry, c, holds) = UserConfigParam(c, holds)
    BY <2>1 DEF Outcome
  <2>3. Granted(c, "USE_USER_ACCESS_MANAGER") => Entitled(m, c)
    BY <2>1, NeedFacts
  <2> QED
    BY <2>1, <2>2, <2>3, UserConfigParamFacts, OnceCounts DEF Sound
<1>12. CASE m = BeginWidgetAuthCall
  <2>1. /\ m.entry = "AuthWidget" /\ m.kind = "begin"
        /\ m.needs = {INTERNAL, BIOMETRIC, BIOMETRIC \cup {"USER_AUTH_FROM_BACKGROUND"}}
    BY <1>12 DEF BeginWidgetAuthCall, Method
  <2>2. Outcome(m.entry, c, holds) = AuthWidget(c, holds)
    BY <2>1 DEF Outcome
  <2>3. Granted(c, "ACCESS_USER_AUTH_INTERNAL") \/ Granted(c, "ACCESS_BIOMETRIC") => Entitled(m, c)
    BY <2>1, NeedFacts
  <2> QED
    BY <2>1, <2>2, <2>3, AuthWidgetFacts, OnceCounts DEF Sound
<1>13. CASE m = SetWidgetCallbackCall
  <2>1. /\ m.entry = "RegisterWidgetCallback" /\ m.kind = "sync"
        /\ m.needs = {{"SUPPORT_USER_AUTH", "systemApp"}}
    BY <1>13 DEF SetWidgetCallbackCall, Method
  <2>2. Outcome(m.entry, c, holds) = RegisterWidgetCallback(c, holds)
    BY <2>1 DEF Outcome
  <2>3. Granted(c, "SUPPORT_USER_AUTH") /\ Granted(c, "systemApp") => Entitled(m, c)
    BY <2>1, NeedFacts
  <2> QED
    BY <2>1, <2>2, <2>3, RegisterWidgetCallbackFacts, OnceCounts DEF Sound
<1>14. CASE m = NoticeCall
  <2>1. /\ m.entry = "Notice" /\ m.kind = "sync"
        /\ m.needs = {{"SUPPORT_USER_AUTH", "systemApp"}}
    BY <1>14 DEF NoticeCall, SetWidgetCallbackCall, Method
  <2>2. Outcome(m.entry, c, holds) = Notice(c, holds)
    BY <2>1 DEF Outcome
  <2>3. Granted(c, "SUPPORT_USER_AUTH") /\ Granted(c, "systemApp") => Entitled(m, c)
    BY <2>1, NeedFacts
  <2> QED
    BY <2>1, <2>2, <2>3, NoticeFacts, OnceCounts DEF Sound
<1>15. CASE m = GetEnrolledStateCall
  <2>1. m.entry = "GetEnrolledState" /\ m.kind = "sync" /\ m.needs = {BIOMETRIC}
    BY <1>15 DEF GetEnrolledStateCall, Method
  <2>2. Outcome(m.entry, c, holds) = GetEnrolledState(c, holds)
    BY <2>1 DEF Outcome
  <2>3. Granted(c, "ACCESS_BIOMETRIC") => Entitled(m, c)
    BY <2>1, NeedFacts
  <2> QED
    BY <2>1, <2>2, <2>3, GetEnrolledStateFacts, OnceCounts DEF Sound
<1>16. CASE m = GetAuthLockStateCall
  <2>1. m.entry = "GetAuthLockState" /\ m.kind = "report" /\ m.needs = {BIOMETRIC}
    BY <1>16 DEF GetAuthLockStateCall, Method
  <2>2. Outcome(m.entry, c, holds) = GetAuthLockState(c, holds)
    BY <2>1 DEF Outcome
  <2>3. Granted(c, "ACCESS_BIOMETRIC") => Entitled(m, c)
    BY <2>1, NeedFacts
  <2> QED
    BY <2>1, <2>2, <2>3, GetAuthLockStateFacts, OnceCounts DEF Sound
<1>17. CASE m = AuthSuccessListenerCall
  <2>1. m.entry = "UserAuthSuccessEventListener" /\ m.kind = "sync" /\ m.needs = {INTERNAL}
    BY <1>17 DEF AuthSuccessListenerCall, Method
  <2>2. Outcome(m.entry, c, holds) = UserAuthSuccessEventListener(c, holds)
    BY <2>1 DEF Outcome
  <2>3. Granted(c, "ACCESS_USER_AUTH_INTERNAL") => Entitled(m, c)
    BY <2>1, NeedFacts
  <2> QED
    BY <2>1, <2>2, <2>3, UserAuthSuccessEventListenerFacts, OnceCounts DEF Sound
<1>18. CASE m = UserRecognitionCall
  <2>1. m.entry = "UserRecognition" /\ m.kind = "sync" /\ m.needs = {{"ACCESS_USER_PASSIVE_RECOGNITION"}}
    BY <1>18 DEF UserRecognitionCall, Method
  <2>2. Outcome(m.entry, c, holds) = UserRecognition(c, holds)
    BY <2>1 DEF Outcome
  <2>3. Granted(c, "ACCESS_USER_PASSIVE_RECOGNITION") => Entitled(m, c)
    BY <2>1, NeedFacts
  <2> QED
    BY <2>1, <2>2, <2>3, UserRecognitionFacts, OnceCounts DEF Sound
<1>19. CASE m = PrepareRemoteAuthCall
  <2>1. m.entry = "PrepareRemoteAuth" /\ m.kind = "ret" /\ m.needs = {INTERNAL}
    BY <1>19 DEF PrepareRemoteAuthCall, Method
  <2>2. Outcome(m.entry, c, holds) = PrepareRemoteAuth(c, holds)
    BY <2>1 DEF Outcome
  <2>3. Granted(c, "ACCESS_USER_AUTH_INTERNAL") => Entitled(m, c)
    BY <2>1, NeedFacts
  <2> QED
    BY <2>1, <2>2, <2>3, PrepareRemoteAuthFacts, OnceCounts DEF Sound
<1>20. CASE m = QueryReusableAuthResultCall
  <2>1. /\ m.entry = "QueryReusableAuthResult" /\ m.kind = "sync"
        /\ m.needs = {INTERNAL \cup {"systemApp"}}
    BY <1>20 DEF QueryReusableAuthResultCall, Method
  <2>2. Outcome(m.entry, c, holds) = QueryReusableAuthResult(c, holds)
    BY <2>1 DEF Outcome
  <2>3. Granted(c, "ACCESS_USER_AUTH_INTERNAL") /\ Granted(c, "systemApp") => Entitled(m, c)
    BY <2>1, NeedFacts
  <2> QED
    BY <2>1, <2>2, <2>3, QueryReusableAuthResultFacts, OnceCounts DEF Sound
<1>21. CASE m = RegisterRemoteAuthCallbackCall
  <2>1. /\ m.entry = "RegisterRemoteAuthCallback" /\ m.kind = "sync"
        /\ m.needs = {INTERNAL \cup {"systemApp"}}
    BY <1>21 DEF RegisterRemoteAuthCallbackCall, Method
  <2>2. Outcome(m.entry, c, holds) = RegisterRemoteAuthCallback(c, holds)
    BY <2>1 DEF Outcome
  <2>3. Granted(c, "ACCESS_USER_AUTH_INTERNAL") /\ Granted(c, "systemApp") => Entitled(m, c)
    BY <2>1, NeedFacts
  <2> QED
    BY <2>1, <2>2, <2>3, RegisterRemoteAuthCallbackFacts, OnceCounts DEF Sound
<1>22. CASE m = VerifyAuthTokenCall
  <2>1. m.entry = "VerifyAuthToken" /\ m.kind = "void" /\ m.needs = {ACCESS_MANAGER}
    BY <1>22 DEF VerifyAuthTokenCall, Method
  <2>2. Outcome(m.entry, c, holds) = VerifyAuthToken(c, holds)
    BY <2>1 DEF Outcome
  <2>3. Granted(c, "USE_USER_ACCESS_MANAGER") => Entitled(m, c)
    BY <2>1, NeedFacts
  <2> QED
    BY <2>1, <2>2, <2>3, VerifyAuthTokenFacts, OnceCounts DEF Sound
<1>23. CASE m = OpenSessionCall
  <2>1. m.entry = "OpenSession" /\ m.kind = "sync" /\ m.needs = {MANAGE_IDM}
    BY <1>23 DEF OpenSessionCall, Method
  <2>2. Outcome(m.entry, c, holds) = OpenSession(c, holds)
    BY <2>1 DEF Outcome
  <2>3. Granted(c, "MANAGE_USER_IDM") => Entitled(m, c)
    BY <2>1, NeedFacts
  <2> QED
    BY <2>1, <2>2, <2>3, OpenSessionFacts, OnceCounts DEF Sound
<1>24. CASE m = CloseSessionCall
  <2>1. m.entry = "CloseSession" /\ m.kind = "sync" /\ m.needs = {MANAGE_IDM}
    BY <1>24 DEF CloseSessionCall, Method
  <2>2. Outcome(m.entry, c, holds) = CloseSession(c, holds)
    BY <2>1 DEF Outcome
  <2>3. Granted(c, "MANAGE_USER_IDM") => Entitled(m, c)
    BY <2>1, NeedFacts
  <2> QED
    BY <2>1, <2>2, <2>3, CloseSessionFacts, OnceCounts DEF Sound
<1>25. CASE m = AddCredentialCall
  <2>1. m.entry = "AddCredential" /\ m.kind = "void" /\ m.needs = {MANAGE_IDM}
    BY <1>25 DEF AddCredentialCall, Method
  <2>2. Outcome(m.entry, c, holds) = AddCredential(c, holds)
    BY <2>1 DEF Outcome
  <2>3. Granted(c, "MANAGE_USER_IDM") => Entitled(m, c)
    BY <2>1, NeedFacts
  <2> QED
    BY <2>1, <2>2, <2>3, ContextEntryFacts, OnceCounts DEF Sound
<1>26. CASE m = UpdateCredentialCall
  <2>1. m.entry = "UpdateCredential" /\ m.kind = "void" /\ m.needs = {MANAGE_IDM}
    BY <1>26 DEF UpdateCredentialCall, Method
  <2>2. Outcome(m.entry, c, holds) = UpdateCredential(c, holds)
    BY <2>1 DEF Outcome
  <2>3. Granted(c, "MANAGE_USER_IDM") => Entitled(m, c)
    BY <2>1, NeedFacts
  <2> QED
    BY <2>1, <2>2, <2>3, ContextEntryFacts, OnceCounts DEF Sound
<1>27. CASE m = CancelCall
  <2>1. m.entry = "CancelEnroll" /\ m.kind = "sync" /\ m.needs = {MANAGE_IDM}
    BY <1>27 DEF CancelCall, Method
  <2>2. Outcome(m.entry, c, holds) = CancelEnroll(c, holds)
    BY <2>1 DEF Outcome
  <2>3. Granted(c, "MANAGE_USER_IDM") => Entitled(m, c)
    BY <2>1, NeedFacts
  <2> QED
    BY <2>1, <2>2, <2>3, CancelEnrollFacts, OnceCounts DEF Sound
<1>28. CASE m = DeleteCredentialCall
  <2>1. m.entry = "DelCredential" /\ m.kind = "void" /\ m.needs = {MANAGE_IDM}
    BY <1>28 DEF DeleteCredentialCall, Method
  <2>2. Outcome(m.entry, c, holds) = DelCredential(c, holds)
    BY <2>1 DEF Outcome
  <2>3. Granted(c, "MANAGE_USER_IDM") => Entitled(m, c)
    BY <2>1, NeedFacts
  <2> QED
    BY <2>1, <2>2, <2>3, ContextEntryFacts, OnceCounts DEF Sound
<1>29. CASE m = DeleteUserCall
  <2>1. m.entry = "DelUser" /\ m.kind = "void" /\ m.needs = {MANAGE_IDM}
    BY <1>29 DEF DeleteUserCall, Method
  <2>2. Outcome(m.entry, c, holds) = DelUser(c, holds)
    BY <2>1 DEF Outcome
  <2>3. Granted(c, "MANAGE_USER_IDM") => Entitled(m, c)
    BY <2>1, NeedFacts
  <2> QED
    BY <2>1, <2>2, <2>3, DelUserFacts, OnceCounts DEF Sound
<1>30. CASE m = EraseUserCall
  <2>1. m.entry = "EnforceDelUser" /\ m.kind = "ret" /\ m.needs = {ENFORCE_IDM \cup {"accountmgr"}}
    BY <1>30 DEF EraseUserCall, Method
  <2>2. Outcome(m.entry, c, holds) = EnforceDelUser(c, holds)
    BY <2>1 DEF Outcome
  <2>3. Granted(c, "ENFORCE_USER_IDM") /\ Granted(c, "accountmgr") => Entitled(m, c)
    BY <2>1, NeedFacts
  <2> QED
    BY <2>1, <2>2, <2>3, EnforceFacts, OnceCounts DEF Sound
<1>31. CASE m = GetCredentialInfoCall
  <2>1. m.entry = "GetCredentialInfo" /\ m.kind = "ret" /\ m.needs = {USE_IDM}
    BY <1>31 DEF GetCredentialInfoCall, Method
  <2>2. Outcome(m.entry, c, holds) = GetCredentialInfo(c, holds)
    BY <2>1 DEF Outcome
  <2>3. Granted(c, "USE_USER_IDM") => Entitled(m, c)
    BY <2>1, NeedFacts
  <2> QED
    BY <2>1, <2>2, <2>3, ReadEntryFacts, OnceCounts DEF Sound
<1>32. CASE m = GetSecUserInfoCall
  <2>1. m.entry = "GetSecInfo" /\ m.kind = "ret" /\ m.needs = {USE_IDM}
    BY <1>32 DEF GetSecUserInfoCall, Method
  <2>2. Outcome(m.entry, c, holds) = GetSecInfo(c, holds)
    BY <2>1 DEF Outcome
  <2>3. Granted(c, "USE_USER_IDM") => Entitled(m, c)
    BY <2>1, NeedFacts
  <2> QED
    BY <2>1, <2>2, <2>3, ReadEntryFacts, OnceCounts DEF Sound
<1>33. CASE m = ClearRedundancyCredentialCall
  <2>1. m.entry = "ClearRedundancyCredential" /\ m.kind = "void" /\ m.needs = {ENFORCE_IDM}
    BY <1>33 DEF ClearRedundancyCredentialCall, Method
  <2>2. Outcome(m.entry, c, holds) = ClearRedundancyCredential(c, holds)
    BY <2>1 DEF Outcome
  <2>3. Granted(c, "ENFORCE_USER_IDM") => Entitled(m, c)
    BY <2>1, NeedFacts
  <2> QED
    BY <2>1, <2>2, <2>3, ClearRedundancyCredentialFacts, OnceCounts DEF Sound
<1>34. CASE m = DeleteSubProfileCall
  <2>1. m.entry = "DeleteSubProfile" /\ m.kind = "void" /\ m.needs = {ENFORCE_IDM \cup {"accountmgr"}}
    BY <1>34 DEF DeleteSubProfileCall, Method
  <2>2. Outcome(m.entry, c, holds) = DeleteSubProfile(c, holds)
    BY <2>1 DEF Outcome
  <2>3. Granted(c, "ENFORCE_USER_IDM") /\ Granted(c, "accountmgr") => Entitled(m, c)
    BY <2>1, NeedFacts
  <2> QED
    BY <2>1, <2>2, <2>3, EnforceFacts, OnceCounts DEF Sound
<1>35. CASE m = CredChangeListenerCall
  <2>1. m.entry = "CredChangeEventListener" /\ m.kind = "sync" /\ m.needs = {USE_IDM}
    BY <1>35 DEF CredChangeListenerCall, Method
  <2>2. Outcome(m.entry, c, holds) = CredChangeEventListener(c, holds)
    BY <2>1 DEF Outcome
  <2>3. Granted(c, "USE_USER_IDM") => Entitled(m, c)
    BY <2>1, NeedFacts
  <2> QED
    BY <2>1, <2>2, <2>3, CredChangeEventListenerFacts, OnceCounts DEF Sound
<1>36. CASE m = GetCredentialInfoSyncCall
  <2>1. m.entry = "GetCredentialInfoSync" /\ m.kind = "sync" /\ m.needs = {USE_IDM}
    BY <1>36 DEF GetCredentialInfoSyncCall, Method
  <2>2. Outcome(m.entry, c, holds) = GetCredentialInfoSync(c, holds)
    BY <2>1 DEF Outcome
  <2>3. Granted(c, "USE_USER_IDM") => Entitled(m, c)
    BY <2>1, NeedFacts
  <2> QED
    BY <2>1, <2>2, <2>3, ReadEntryFacts, OnceCounts DEF Sound
<1>37. CASE m = GetLatestEnrollmentTimeCall
  <2>1. m.entry = "GetLatestEnrollmentTime" /\ m.kind = "sync" /\ m.needs = {USE_IDM}
    BY <1>37 DEF GetLatestEnrollmentTimeCall, Method
  <2>2. Outcome(m.entry, c, holds) = GetLatestEnrollmentTime(c, holds)
    BY <2>1 DEF Outcome
  <2>3. Granted(c, "USE_USER_IDM") => Entitled(m, c)
    BY <2>1, NeedFacts
  <2> QED
    BY <2>1, <2>2, <2>3, GetLatestEnrollmentTimeFacts, OnceCounts DEF Sound
<1>38. CASE m = UnregisterRemoteAuthCallbackCall
  <2>1. /\ m.entry = "UnregisterRemoteAuthCallback" /\ m.kind = "sync"
        /\ m.needs = {INTERNAL \cup {"systemApp"}}
    BY <1>38 DEF UnregisterRemoteAuthCallbackCall, Method
  <2>2. Outcome(m.entry, c, holds) = UnregisterRemoteAuthCallback(c)
    BY <2>1 DEF Outcome
  <2>3. Granted(c, "ACCESS_USER_AUTH_INTERNAL") /\ Granted(c, "systemApp") => Entitled(m, c)
    BY <2>1, NeedFacts
  <2> QED
    BY <2>1, <2>2, <2>3, UnregisterRemoteAuthCallbackFacts, OnceCounts DEF Sound
<1> QED
  BY <1>1, <1>2, <1>3, <1>4, <1>5, <1>6, <1>7, <1>8, <1>9, <1>10, <1>11, <1>12, <1>13, <1>14, <1>15,
     <1>16, <1>17, <1>18, <1>19, <1>20, <1>21, <1>22, <1>23, <1>24, <1>25, <1>26, <1>27, <1>28,
     <1>29, <1>30, <1>31, <1>32, <1>33, <1>34, <1>35, <1>36, <1>37, <1>38 DEF Methods

\* What Handle may take for a reply to a method of client and kind h.
LEMMA RepliesFacts ==
  ASSUME NEW h \in Handlings, NEW r \in Replies[h]
  PROVE  /\ r.o.ret \in {"SUCCESS", "error"} /\ r.o.now \in Nat /\ r.o.pending \in Nat
         /\ r.o.trespass = FALSE /\ r.twice \in BOOLEAN
         /\ ~r.twice => r.o.now + r.o.pending <= 1 /\ (h.kind = "report" => r.o.ret = "SUCCESS")
<1>1. Replies[h] = UNION {{[o |-> o, twice |-> m.entry \in AnswersTwice] : o \in OutcomesOf[m]} :
                          m \in {n \in Methods : n.client = h.client /\ n.kind = h.kind}}
  BY DEF Replies
<1>2. PICK m \in Methods : /\ m.kind = h.kind
                           /\ \E o \in OutcomesOf[m] : r = [o |-> o, twice |-> m.entry \in AnswersTwice]
  BY <1>1
<1>3. PICK o \in OutcomesOf[m] : r = [o |-> o, twice |-> m.entry \in AnswersTwice]
  BY <1>2
<1>4. r.o = o /\ r.twice = (m.entry \in AnswersTwice)
  BY <1>3
<1>5. OutcomesOf[m] = {Summary(m, c, Outcome(m.entry, c, d)) :
                         c \in CallersWith(PermsOf(m)), d \in Deviations(m)}
  BY DEF OutcomesOf
<1>6. PICK c, d : o = Summary(m, c, Outcome(m.entry, c, d))
  BY <1>5
<1> DEFINE e == Outcome(m.entry, c, d)
<1>7. /\ Counts(e)
      /\ e.effect => Entitled(m, c)
      /\ m.entry \notin AnswersTwice => Once(e) /\ (m.kind = "report" => e.ret = "SUCCESS")
  BY MethodFacts DEF Sound
<1> HIDE DEF e
<1>8. /\ o.ret = IF e.ret = "SUCCESS" THEN "SUCCESS" ELSE "error"
      /\ o.now = Len(e.now) /\ o.pending = Len(e.later)
  BY <1>6 DEF Summary, e
<1>9. o.trespass = FALSE
  <2>1. o.trespass = (e.effect /\ ~Entitled(m, c))
    BY <1>6 DEF Summary, e
  <2> QED
    BY <2>1, <1>7
<1>10. ~r.twice => Len(e.now) + Len(e.later) <= 1 /\ (h.kind = "report" => e.ret = "SUCCESS")
  BY <1>2, <1>4, <1>7 DEF Once
<1>11. r.twice \in BOOLEAN
  BY <1>4
<1> QED
  BY <1>4, <1>7, <1>8, <1>9, <1>10, <1>11 DEF Counts

-------------------------------------------------------------------------------
(* The inductive invariant of the calls.                                   *)

CallType ==
  [st : {"idle", "sent", "handled", "held", "done"}, client : Clients, kind : Kinds, gen : Nat,
   ret : {"none", "SUCCESS", "error", "IPC_ERROR"}, pending : Nat, answers : Nat,
   death : BOOLEAN, twice : BOOLEAN, trespass : BOOLEAN]

ClientTypeOK ==
  /\ service \in [gen : Nat, up : BOOLEAN]
  /\ proxy \in [Clients -> Nat]
  /\ callbacks \subseteq Calls
  /\ call \in [Calls -> CallType]

\* A call that no death and no lost reply has touched, and whose entry answers once, has
\* one answer with the one still to come; and none if its method reports the error it
\* was returned and has not done so.
OneAnswer(x) ==
  /\ x.answers + x.pending <= 1
  /\ x.st = "handled" /\ x.kind = "report" /\ x.ret # "SUCCESS" => x.answers + x.pending = 0

CallOK(x) ==
  /\ ~x.trespass
  /\ x.st = "sent" => x.death \/ (x.answers = 0 /\ x.pending = 0)
  /\ x.death \/ x.ret = "IPC_ERROR" \/ x.twice \/ OneAnswer(x)

CallInv == ClientTypeOK /\ \A i \in Calls : CallOK(call[i])

\* A call that was not made is well-typed and has no answer.
LEMMA NoCallFacts ==
  /\ NoCall \in CallType /\ CallOK(NoCall)
  /\ NoCall.pending = 0 /\ NoCall.answers = 0 /\ ~NoCall.trespass
BY DEF NoCall, CallType, CallOK, OneAnswer, Clients, Kinds

\* The initial state satisfies the invariant.
LEMMA ClientInitOK == ClientInit => CallInv
<1> SUFFICES ASSUME ClientInit PROVE CallInv
  OBVIOUS
<1>1. service \in [gen : Nat, up : BOOLEAN] /\ proxy \in [Clients -> Nat] /\ callbacks \subseteq Calls
  BY DEF ClientInit
<1>2. call \in [Calls -> CallType] /\ \A i \in Calls : CallOK(call[i])
  BY NoCallFacts DEF ClientInit
<1> QED
  BY <1>1, <1>2 DEF CallInv, ClientTypeOK

\* A step that changes one call keeps the others.
LEMMA OneCallChanges ==
  ASSUME CallInv, NEW i \in Calls, NEW x \in CallType, call' = [call EXCEPT ![i] = x], CallOK(x),
         service' = service, proxy' \in [Clients -> Nat], callbacks' \subseteq Calls
  PROVE  CallInv'
<1>1. call' \in [Calls -> CallType] /\ \A j \in Calls : CallOK(call'[j])
  BY DEF CallInv, ClientTypeOK
<1> QED
  BY <1>1 DEF CallInv, ClientTypeOK

\* GetProxy gives a generation, or 0 for none.
LEMMA GetProxyNat ==
  ASSUME CallInv, NEW c \in Clients
  PROVE  GetProxy(c) \in Nat
BY DEF CallInv, ClientTypeOK, GetProxy

\* The caller's side: a call is made, or ends before it is sent.
LEMMA MakeCallOK ==
  ASSUME CallInv, NEW i \in Calls, MakeCall(i)
  PROVE  CallInv'
<1>1. PICK h \in Handlings : ProxyNull(i, h) \/ SendCall(i, h) \/ KeysRefused(i, h)
  BY DEF MakeCall
<1>2. h.client \in Clients /\ h.kind \in Kinds
  BY DEF Handlings
<1>3. GetProxy(h.client) \in Nat
  BY <1>2, GetProxyNat
<1>4. [proxy EXCEPT ![h.client] = GetProxy(h.client)] \in [Clients -> Nat] /\ callbacks \subseteq Calls
      /\ proxy \in [Clients -> Nat]
  BY <1>3 DEF CallInv, ClientTypeOK
<1>5. CASE ProxyNull(i, h)
  <2> DEFINE x == [NoCall EXCEPT !.st = "done", !.client = h.client, !.kind = h.kind,
                                 !.ret = "error", !.answers = IF h.kind = "sync" THEN 0 ELSE 1]
  <2>1. x \in CallType /\ CallOK(x)
    <3>1. x \in CallType
      BY <1>2, NoCallFacts DEF CallType
    <3>2. x.pending = 0 /\ ~x.trespass /\ x.answers \in {0, 1} /\ x.st = "done"
      BY NoCallFacts DEF CallType
    <3> HIDE DEF x
    <3>3. CallOK(x)
      BY <3>1, <3>2 DEF CallOK, OneAnswer, CallType
    <3> QED
      BY <3>1, <3>3
  <2>2. call' = [call EXCEPT ![i] = x]
    BY <1>5 DEF ProxyNull
  <2> HIDE DEF x
  <2> QED
    BY <1>4, <1>5, <2>1, <2>2, OneCallChanges DEF ProxyNull
<1>6. CASE SendCall(i, h)
  <2> DEFINE x == [NoCall EXCEPT !.st = "sent", !.client = h.client, !.kind = h.kind,
                                 !.gen = GetProxy(h.client)]
  <2>1. x \in CallType /\ CallOK(x)
    <3>1. x \in CallType
      BY <1>2, <1>3, NoCallFacts DEF CallType
    <3>2. x.pending = 0 /\ ~x.trespass /\ x.answers = 0 /\ x.st = "sent"
      BY NoCallFacts DEF CallType
    <3> HIDE DEF x
    <3>3. CallOK(x)
      BY <3>1, <3>2 DEF CallOK, OneAnswer, CallType
    <3> QED
      BY <3>1, <3>3
  <2>2. call' = [call EXCEPT ![i] = x]
    BY <1>6 DEF SendCall
  <2>3. callbacks' \subseteq Calls
    BY <1>4, <1>6 DEF SendCall, AddCallback
  <2>4. service' = service /\ proxy' \in [Clients -> Nat]
    BY <1>4, <1>6 DEF SendCall
  <2> HIDE DEF x
  <2> QED
    BY <2>1, <2>2, <2>3, <2>4, OneCallChanges
<1>7. CASE KeysRefused(i, h)
  <2> DEFINE x == [NoCall EXCEPT !.st = "done", !.kind = h.kind, !.ret = "error", !.answers = 1]
  <2>1. x \in CallType /\ CallOK(x)
    <3>1. x \in CallType
      BY <1>2, NoCallFacts DEF CallType, Clients
    <3>2. x.pending = 0 /\ ~x.trespass /\ x.answers = 1 /\ x.st = "done"
      BY NoCallFacts DEF CallType
    <3> HIDE DEF x
    <3>3. CallOK(x)
      BY <3>1, <3>2 DEF CallOK, OneAnswer, CallType
    <3> QED
      BY <3>1, <3>3
  <2>2. call' = [call EXCEPT ![i] = x]
    BY <1>7 DEF KeysRefused
  <2> HIDE DEF x
  <2> QED
    BY <1>4, <1>7, <2>1, <2>2, OneCallChanges DEF KeysRefused
<1> QED
  BY <1>1, <1>5, <1>6, <1>7

\* The same for a step that changes some fields of one call.
LEMMA CallFieldsChange ==
  ASSUME CallInv, NEW i \in Calls, call' \in [Calls -> CallType], CallOK(call'[i]),
         \A j \in Calls \ {i} : call'[j] = call[j],
         service' = service, proxy' = proxy, callbacks' \subseteq callbacks
  PROVE  CallInv'
<1>1. \A j \in Calls : CallOK(call'[j])
  BY DEF CallInv
<1> QED
  BY <1>1 DEF CallInv, ClientTypeOK

\* The service handles a request nobody has answered: what it answers at once and what
\* is still to come are one answer.
LEMMA HandleOK ==
  ASSUME CallInv, NEW i \in Calls, Handle(i)
  PROVE  CallInv'
<1> DEFINE h == [client |-> call[i].client, kind |-> call[i].kind]
<1>1. call \in [Calls -> CallType] /\ call[i] \in CallType /\ CallOK(call[i]) /\ call[i].st = "sent"
  BY DEF CallInv, ClientTypeOK, Handle
<1>2. h \in Handlings /\ h.kind = call[i].kind
  BY <1>1 DEF Handlings, CallType
<1>3. PICK r \in Replies[h] :
        call' = [call EXCEPT ![i].st = "handled", ![i].ret = r.o.ret, ![i].pending = r.o.pending,
                             ![i].answers = @ + r.o.now, ![i].twice = r.twice, ![i].trespass = r.o.trespass]
  BY DEF Handle
<1>4. /\ r.o.ret \in {"SUCCESS", "error"} /\ r.o.now \in Nat /\ r.o.pending \in Nat
      /\ r.o.trespass = FALSE /\ r.twice \in BOOLEAN
      /\ ~r.twice => r.o.now + r.o.pending <= 1 /\ (call[i].kind = "report" => r.o.ret = "SUCCESS")
  BY <1>2, RepliesFacts
<1> DEFINE n == call[i].answers + r.o.now
<1> HIDE DEF h
<1>5. /\ call'[i].st = "handled" /\ call'[i].ret = r.o.ret /\ call'[i].pending = r.o.pending
      /\ call'[i].answers = call[i].answers + r.o.now /\ call'[i].twice = r.twice
      /\ call'[i].trespass = r.o.trespass
      /\ call'[i].kind = call[i].kind /\ call'[i].death = call[i].death
  BY <1>1, <1>3 DEF CallType
<1>6. call' \in [Calls -> CallType] /\ \A j \in Calls \ {i} : call'[j] = call[j]
  <2>1. n \in Nat
    BY <1>1, <1>4 DEF CallType
  <2>2. call' = [call EXCEPT ![i] = [call[i] EXCEPT
          !.st = "handled", !.ret = r.o.ret, !.pending = r.o.pending, !.answers = n, !.twice = r.twice,
          !.trespass = r.o.trespass]]
    BY <1>1, <1>3 DEF CallType
  <2> HIDE DEF n
  <2>3. [call[i] EXCEPT !.st = "handled", !.ret = r.o.ret, !.pending = r.o.pending, !.answers = n,
                        !.twice = r.twice, !.trespass = r.o.trespass] \in CallType
    BY <1>1, <1>4, <2>1 DEF CallType
  <2> QED
    BY <1>1, <2>2, <2>3
<1>7. CallOK(call'[i])
  BY <1>1, <1>4, <1>5 DEF CallOK, OneAnswer, CallType
<1> QED
  BY <1>6, <1>7, CallFieldsChange DEF Handle

\* A lost reply is a code of its own.
LEMMA TransportFailsOK ==
  ASSUME CallInv, NEW i \in Calls, TransportFails(i)
  PROVE  CallInv'
<1>1. call \in [Calls -> CallType] /\ call[i] \in CallType /\ CallOK(call[i])
  BY DEF CallInv, ClientTypeOK
<1>2. call' = [call EXCEPT ![i].st = "handled", ![i].ret = "IPC_ERROR"]
  BY DEF TransportFails
<1>3. call'[i].st = "handled" /\ call'[i].ret = "IPC_ERROR" /\ call'[i].trespass = call[i].trespass
  BY <1>1, <1>2 DEF CallType
<1>4. call' \in [Calls -> CallType] /\ \A j \in Calls \ {i} : call'[j] = call[j]
  BY <1>1, <1>2 DEF CallType
<1>5. CallOK(call'[i])
  BY <1>1, <1>3 DEF CallOK
<1> QED
  BY <1>4, <1>5, CallFieldsChange DEF TransportFails

\* The method returns: one that reports an error has had no answer and expects none.
LEMMA ReturnCallOK ==
  ASSUME CallInv, NEW i \in Calls, ReturnCall(i)
  PROVE  CallInv'
<1> DEFINE reports == call[i].kind = "report" /\ call[i].ret # "SUCCESS"
           held == call[i].kind # "sync" /\ call[i].ret # "IPC_ERROR"
           st == IF held THEN "held" ELSE "done"
           answers == IF reports THEN call[i].answers + 1 ELSE call[i].answers
<1>1. call \in [Calls -> CallType] /\ call[i] \in CallType /\ CallOK(call[i]) /\ call[i].st = "handled"
  BY DEF CallInv, ClientTypeOK, ReturnCall
<1>2. call' = [call EXCEPT ![i].st = st, ![i].answers = answers]
  BY <1>1 DEF ReturnCall, CallType
<1>3. st \in {"held", "done"} /\ answers \in Nat /\ callbacks' \subseteq callbacks
  BY <1>1 DEF ReturnCall, CallType
<1>4. ~reports => answers = call[i].answers
  OBVIOUS
<1>5. reports => answers = call[i].answers + 1
  OBVIOUS
<1>6. \/ call[i].death \/ call[i].ret = "IPC_ERROR" \/ call[i].twice
      \/ call[i].answers + call[i].pending <= 1 /\ (reports => call[i].answers + call[i].pending = 0)
  BY <1>1 DEF CallOK, OneAnswer
<1>7. {call[i].answers, call[i].pending} \subseteq Nat
  BY <1>1 DEF CallType
<1> HIDE DEF reports, held, st, answers
<1>8. call[i].death \/ call[i].ret = "IPC_ERROR" \/ call[i].twice \/ answers + call[i].pending <= 1
  BY <1>4, <1>5, <1>6, <1>7
<1>9. /\ call'[i].st = st /\ call'[i].answers = answers
      /\ call'[i].pending = call[i].pending /\ call'[i].ret = call[i].ret /\ call'[i].twice = call[i].twice
      /\ call'[i].trespass = call[i].trespass /\ call'[i].death = call[i].death
  BY <1>1, <1>2 DEF CallType
<1>10. call' \in [Calls -> CallType] /\ \A j \in Calls \ {i} : call'[j] = call[j]
  BY <1>1, <1>2, <1>3 DEF CallType
<1>11. CallOK(call'[i])
  BY <1>1, <1>3, <1>8, <1>9 DEF CallOK, OneAnswer
<1> QED
  BY <1>3, <1>10, <1>11, CallFieldsChange DEF ReturnCall

\* An answer that was to come has come.
LEMMA AnswerOK ==
  ASSUME CallInv, NEW i \in Calls, Answer(i)
  PROVE  CallInv'
<1>1. /\ call \in [Calls -> CallType] /\ call[i] \in CallType /\ CallOK(call[i])
      /\ call[i].st \in {"handled", "held"} /\ call[i].pending > 0
  BY DEF CallInv, ClientTypeOK, Answer
<1>2. call' = [call EXCEPT ![i].pending = @ - 1, ![i].answers = @ + 1]
  BY DEF Answer
<1>3. {call[i].answers, call[i].pending} \subseteq Nat
  BY <1>1 DEF CallType
<1>4. call[i].pending - 1 \in Nat /\ call[i].answers + 1 \in Nat
  BY <1>1, <1>3
<1>5. /\ call'[i].pending = call[i].pending - 1 /\ call'[i].answers = call[i].answers + 1
      /\ call'[i].st = call[i].st /\ call'[i].kind = call[i].kind
      /\ call'[i].ret = call[i].ret /\ call'[i].twice = call[i].twice
      /\ call'[i].trespass = call[i].trespass /\ call'[i].death = call[i].death
  BY <1>1, <1>2 DEF CallType
<1>6. call' \in [Calls -> CallType] /\ \A j \in Calls \ {i} : call'[j] = call[j]
  BY <1>1, <1>2, <1>4 DEF CallType
<1>7. CallOK(call'[i])
  BY <1>1, <1>3, <1>5 DEF CallOK, OneAnswer
<1> QED
  BY <1>6, <1>7, CallFieldsChange DEF Answer

\* The wrapper's end keeps the count.
LEMMA RemoveCallbackOK ==
  ASSUME CallInv, NEW i \in Calls, RemoveCallback(i)
  PROVE  CallInv'
<1>1. call \in [Calls -> CallType] /\ call[i] \in CallType /\ CallOK(call[i])
  BY DEF CallInv, ClientTypeOK
<1>2. call' = [call EXCEPT ![i].st = "done"] /\ callbacks' \subseteq callbacks
  BY DEF RemoveCallback
<1>3. /\ call'[i].st = "done" /\ call'[i].answers = call[i].answers
      /\ call'[i].pending = call[i].pending /\ call'[i].ret = call[i].ret /\ call'[i].twice = call[i].twice
      /\ call'[i].trespass = call[i].trespass /\ call'[i].death = call[i].death
  BY <1>1, <1>2 DEF CallType
<1>4. call' \in [Calls -> CallType] /\ \A j \in Calls \ {i} : call'[j] = call[j]
  BY <1>1, <1>2 DEF CallType
<1>5. CallOK(call'[i])
  BY <1>1, <1>3 DEF CallOK, OneAnswer
<1> QED
  BY <1>2, <1>4, <1>5, CallFieldsChange DEF RemoveCallback

\* The service's death, its restart, and what the clients make of a notice.
LEMMA ServiceStepOK ==
  ASSUME CallInv,
         ServiceDies \/ ServiceStarts \/ \E d \in Deaths : OnRemoteDied(d[1], d[2]) \/ ResetProxy(d[1], d[2])
  PROVE  CallInv'
<1>1. CASE ServiceDies
  BY <1>1 DEF ServiceDies, CallInv, ClientTypeOK
<1>2. CASE ServiceStarts
  <2>1. service.gen + 1 \in Nat
    BY DEF CallInv, ClientTypeOK
  <2> QED
    BY <1>2, <2>1 DEF ServiceStarts, CallInv, ClientTypeOK
<1>3. ASSUME NEW d \in Deaths, OnRemoteDied(d[1], d[2])
      PROVE  CallInv'
  <2>1. /\ call' = [i \in Calls |-> IF i \in callbacks THEN [call[i] EXCEPT !.answers = @ + 1, !.death = TRUE]
                                                       ELSE call[i]]
        /\ callbacks' = {} /\ service' = service /\ proxy' = proxy
    BY <1>3 DEF OnRemoteDied, OnServiceDeath
  <2>2. ASSUME NEW i \in Calls
        PROVE  call'[i] \in CallType /\ CallOK(call'[i])
    <3>1. call[i] \in CallType /\ CallOK(call[i])
      BY DEF CallInv, ClientTypeOK
    <3>2. CASE i \in callbacks
      <4>1. call'[i] = [call[i] EXCEPT !.answers = @ + 1, !.death = TRUE]
        BY <2>1, <3>2
      <4> DEFINE n == call[i].answers + 1
      <4>2. call'[i] \in CallType
        <5>1. n \in Nat
          BY <3>1 DEF CallType
        <5>2. call'[i] = [call[i] EXCEPT !.answers = n, !.death = TRUE]
          BY <4>1
        <5> HIDE DEF n
        <5> QED
          BY <3>1, <5>1, <5>2 DEF CallType
      <4>3. call'[i].death /\ call'[i].trespass = call[i].trespass
        BY <3>1, <4>1 DEF CallType
      <4> QED
        BY <3>1, <4>2, <4>3 DEF CallOK
    <3>3. CASE i \notin callbacks
      BY <2>1, <3>1, <3>3
    <3> QED
      BY <3>2, <3>3
  <2>3. call' \in [Calls -> CallType] /\ \A i \in Calls : CallOK(call'[i])
    BY <2>1, <2>2
  <2> QED
    BY <2>1, <2>3 DEF CallInv, ClientTypeOK
<1>4. ASSUME NEW d \in Deaths, ResetProxy(d[1], d[2])
      PROVE  CallInv'
  <2>1. proxy' \in [Clients -> Nat]
    BY <1>4 DEF ResetProxy, CallInv, ClientTypeOK
  <2> QED
    BY <1>4, <2>1 DEF ResetProxy, CallInv, ClientTypeOK
<1> QED
  BY <1>1, <1>2, <1>3, <1>4

\* Every step keeps the invariant.
LEMMA ClientInductive == CallInv /\ [ClientNext]_clientVars => CallInv'
<1> SUFFICES ASSUME CallInv, [ClientNext]_clientVars PROVE CallInv'
  OBVIOUS
<1>1. CASE UNCHANGED clientVars
  BY <1>1 DEF CallInv, ClientTypeOK, clientVars
<1>2. ASSUME NEW i \in Calls,
             \/ MakeCall(i) \/ Handle(i) \/ TransportFails(i) \/ ReturnCall(i) \/ Answer(i)
             \/ RemoveCallback(i)
      PROVE  CallInv'
  BY <1>2, MakeCallOK, HandleOK, TransportFailsOK, ReturnCallOK, AnswerOK, RemoveCallbackOK
<1>3. CASE ServiceDies \/ ServiceStarts \/ \E d \in Deaths : OnRemoteDied(d[1], d[2]) \/ ResetProxy(d[1], d[2])
  BY <1>3, ServiceStepOK
<1> QED
  BY <1>1, <1>2, <1>3 DEF ClientNext

\* The types of the clients' state, and how far each call has got with its answers.
THEOREM ClientInvariant == ClientSpec => []CallInv
BY ClientInitOK, ClientInductive, PTL DEF ClientSpec

\* What the invariant of the calls is for.
LEMMA CallInvImplies == CallInv => AnsweredOnceUnlessDeath /\ NoTrespass
<1>1. ASSUME CallInv, NEW i \in Calls, call[i].answers > 1
      PROVE  call[i].death \/ call[i].ret = "IPC_ERROR" \/ call[i].twice
  <2>1. call[i] \in CallType /\ CallOK(call[i])
    BY <1>1 DEF CallInv, ClientTypeOK
  <2>2. {call[i].answers, call[i].pending} \subseteq Nat
    BY <2>1 DEF CallType
  <2> QED
    BY <1>1, <2>1, <2>2 DEF CallOK, OneAnswer
<1>2. CallInv => NoTrespass
  BY DEF CallInv, CallOK, NoTrespass
<1> QED
  BY <1>1, <1>2 DEF AnsweredOnceUnlessDeath

\* Whatever a native client calls, whoever the callers are and however the deaths of the
\* service and their notices interleave, a callback is answered at most once, unless a
\* death is reported while its wrapper is registered, the reply of its request is lost,
\* or the entry is one of the two that answer twice (CallbackManager::OnServiceDeath and
\* the wrappers' reports).
THEOREM AnsweredOnceTheorem == ClientSpec => []AnsweredOnceUnlessDeath
BY ClientInvariant, CallInvImplies, PTL

\* No entry of UserAuthService or UserIdmService has an effect for a chain of callers
\* that lacks the permission, whatever tokens the callers have, whatever conditions of
\* the request hold, and on every path through the entry's checks.
THEOREM NoTrespassTheorem == ClientSpec => []NoTrespass
BY ClientInvariant, CallInvImplies, PTL

-------------------------------------------------------------------------------
(* Both in one run.                                                        *)

\* The states in which one of the two has nothing left to do satisfy its invariant.
LEMMA QuietOK == (ClientQuiet => CallInv) /\ (HostQuiet => HostInv)
<1>1. ASSUME ClientQuiet PROVE CallInv
  <2>1. MaxDeaths + 1 \in Nat
    BY ClientAssumption
  <2>2. service \in [gen : Nat, up : BOOLEAN] /\ proxy \in [Clients -> Nat] /\ callbacks \subseteq Calls
    BY <1>1, <2>1 DEF ClientQuiet
  <2> DEFINE x == [NoCall EXCEPT !.st = "done"]
  <2>3. x \in CallType
    BY NoCallFacts DEF CallType
  <2>4. CallOK(x)
    <3>1. x.st = "done" /\ x.pending = 0 /\ x.answers = 0 /\ ~x.trespass
      BY NoCallFacts DEF CallType
    <3> HIDE DEF x
    <3> QED
      BY <3>1 DEF CallOK, OneAnswer
  <2>5. call = [i \in Calls |-> x]
    BY <1>1 DEF ClientQuiet
  <2> HIDE DEF x
  <2> QED
    BY <2>2, <2>3, <2>4, <2>5 DEF CallInv, ClientTypeOK
<1>2. ASSUME HostQuiet PROVE HostInv
  <2>1. \A c \in Commands : sent[c] = <<>> /\ Len(sent[c]) = 0 /\ DOMAIN sent[c] = {}
    BY <1>2, EmptyFact DEF HostQuiet
  <2>2. sent \in [Commands -> Seq({"tip", "finish"})]
    BY <1>2, EmptyFact DEF HostQuiet
  <2>3. \A c \in Commands : Len(sent[c]) <= MaxTips + 1 /\ SentOK(c)
    BY <2>1, HostAssumption DEF SentOK
  <2>4. TypeOK
    BY <1>2, <2>2, <2>3 DEF HostQuiet, TypeOK, BeginStates
  <2> QED
    BY <1>2, <2>3, <2>4, HostAssumption
       DEF HostQuiet, HostInv, StageOK, ListedOwesAnswer, Fresh, Listed, Ahead
<1> QED
  BY <1>1, <1>2

\* What is proved of each side holds of the behaviours in which the other is quiet.
THEOREM DeathsTheorem ==
  DeathsSpec => [](AnsweredOnceUnlessDeath /\ NoTrespass /\ NoCommandLost /\ ResultIsLast /\ ListedOwesAnswer)
<1>1. DeathsInit => CallInv /\ HostInv
  BY QuietOK, ClientInitOK, HostInitOK DEF DeathsInit
<1>2. CallInv /\ HostInv /\ [DeathsNext]_<<clientVars, vars>> => CallInv' /\ HostInv'
  <2>1. CallInv /\ UNCHANGED clientVars => CallInv'
    BY ClientInductive
  <2>2. HostInv /\ UNCHANGED vars => HostInv'
    BY HostInductive
  <2> QED
    BY <2>1, <2>2, ClientInductive, HostInductive DEF DeathsNext
<1>3. CallInv => AnsweredOnceUnlessDeath /\ NoTrespass
  BY CallInvImplies
<1>4. HostInv => NoCommandLost /\ ResultIsLast /\ ListedOwesAnswer
  BY HostInvImplies
<1> QED
  BY <1>1, <1>2, <1>3, <1>4, PTL DEF DeathsSpec
===============================================================================
