------------------------- MODULE CimExchangeProofs -------------------------
(* Proofs about CimExchange, for every set of CIMs, requests and events.   *)
EXTENDS CimExchange, SequenceTheorems, TLAPS

LEMMA CapType == ASSUME NEW n \in Nat PROVE Cap(n) \in 0 .. MaxHop
  BY ConstantAssumption DEF Cap

\* The answer to a message is a message.
LEMMA ReplyType ==
  ASSUME NEW c, NEW m \in Msg, NEW kind \in {"data", "refusal"},
         NEW code \in {200, 202, 401} \cup FetchCodes
  PROVE  Reply(c, m, kind, code) \in Msg
  <1>1. m.hop + 1 \in Nat /\ m.blanks + 1 \in Nat BY ConstantAssumption DEF Msg
  <1>2. Cap(m.hop + 1) \in 0 .. MaxHop /\ Cap(m.blanks + 1) \in 0 .. MaxHop BY <1>1, CapType
  <1> QED BY <1>2 DEF Reply, Msg, Kinds

LEMMA LongTail ==
  ASSUME NEW S, NEW s \in Seq(S), NEW t \in Seq(S),
         Len(s) \in Nat, Len(t) = Len(s) - 1, Len(s) > 1
  PROVE  t # <<>>
  <1>1. SUFFICES ASSUME t = <<>> PROVE FALSE OBVIOUS
  <1>2. Len(<<>>) = 0 BY EmptySeq
  <1>3. Len(t) = 0 BY <1>1, <1>2
  <1>4. \A n \in Nat : n > 1 => n - 1 # 0 OBVIOUS
  <1> QED BY <1>3, <1>4, Zenon

\* Cutting the connection of an idle worker changes nothing.
LEMMA CutIdle == [Idle EXCEPT !.live = FALSE] = Idle
  <1>1. Idle.live = FALSE BY DEF Idle
  <1>2. Idle = [x \in {"step", "todo", "msg", "live"} |-> Idle[x]] BY DEF Idle
  <1> QED BY <1>1, <1>2

\* A worker that goes on has a listener left to run.
LEMMA RestType ==
  ASSUME NEW h \in Busy PROVE Rest(h) \in Busy \cup {Idle}
  <1>1. CASE Len(h.todo) <= 1 BY <1>1 DEF Rest
  <1>2. CASE Len(h.todo) > 1
    <2>1. h.todo \in Seq(Req \cup {Main}) /\ h.todo # <<>> BY DEF Busy
    <2>2. /\ Tail(h.todo) \in Seq(Req \cup {Main})
          /\ Len(Tail(h.todo)) = Len(h.todo) - 1
          /\ Len(h.todo) \in Nat
      BY <2>1, HeadTailProperties, LenProperties
    <2>3. Tail(h.todo) # <<>> BY <1>2, <2>1, <2>2, LongTail
    <2> QED BY <1>2, <2>2, <2>3 DEF Rest, Busy
  <1>3. Len(h.todo) \in Nat BY LenProperties DEF Busy
  <1> QED BY <1>1, <1>2, <1>3

LEMMA NextListenerType ==
  ASSUME WireType, NEW c \in CIM, NEW d \in CIM, chat[c][d] \in Busy, NextListener(c, d)
  PROVE  chat' \in [CIM -> [CIM -> Busy \cup {Idle}]]
  BY RestType DEF NextListener, WireType

\* A worker that is not idle is busy.
LEMMA StepIsBusy ==
  ASSUME WireType, NEW c \in CIM, NEW d \in CIM, chat[c][d].step # "idle"
  PROVE  chat[c][d] \in Busy
  BY DEF WireType, Idle

LEMMA MainIsBusy ==
  ASSUME WireType, NEW c \in CIM, NEW d \in CIM, MainStep(c, d) PROVE chat[c][d] \in Busy
  <1>1. Ignore(c, d) \/ Refuse(c, d) \/ StartFetch(c, d) => chat[c][d].step = "next"
    BY DEF Ignore, Refuse, StartFetch, AtMain
  <1>2. FinishFetch(c, d) \/ FetchThrows(c, d) => chat[c][d].step = "fetch"
    BY DEF FinishFetch, FetchThrows, AtMain
  <1> QED BY <1>1, <1>2, StepIsBusy DEF MainStep

\* Going to another step of the same listener keeps the type.
LEMMA StepType ==
  ASSUME WireType, NEW c \in CIM, NEW d \in CIM, chat[c][d] \in Busy,
         NEW s \in {"fetch", "status", "validate"},
         chat' = [chat EXCEPT ![c][d].step = s]
  PROVE  chat' \in [CIM -> [CIM -> Busy \cup {Idle}]]
  <1>1. [chat[c][d] EXCEPT !.step = s] \in Busy BY DEF Busy
  <1> QED BY <1>1 DEF WireType

LEMMA PostType ==
  ASSUME WireType, NEW c, NEW d, NEW m \in Msg
  PROVE  Post(c, d, m) \in [CIM -> [CIM -> Seq(Msg)]]
  <1>1. CASE c \in CIM /\ d \in CIM
    <2>1. Append(net[d][c], m) \in Seq(Msg) BY <1>1 DEF WireType
    <2> QED BY <1>1, <2>1 DEF Post, WireType
  <1>2. CASE ~(c \in CIM /\ d \in CIM) BY <1>2 DEF Post, WireType
  <1> QED BY <1>1, <1>2

LEMMA AnswerType ==
  ASSUME WireType, NEW c, NEW d, NEW m \in Msg, Answer(c, d, m)
  PROVE  net' \in [CIM -> [CIM -> Seq(Msg)]]
  BY PostType DEF Answer, WireType

LEMMA PutStatusType ==
  ASSUME ClientType, NEW r, NEW code \in Statuses, PutStatus(r, code)
  PROVE  status' \in [Req -> Statuses]
  BY DEF PutStatus, ClientType

LEMMA TypeInit == Init => TypeOK
  <1> SUFFICES ASSUME Init PROVE TypeOK OBVIOUS
  <1>1. ClientType BY DEF Init, ClientType, Result, Statuses
  <1>2. AclType BY ConstantAssumption DEF Init, AclType
  <1>3. SessionType
    <2>1. <<Main>> \in Seq(Req \cup {Main}) /\ <<>> \in Seq(Req \cup {Main}) OBVIOUS
    <2>2. listeners \in [CIM -> Seq(Req \cup {Main})] BY <2>1 DEF Init
    <2>3. named \in [CIM -> BOOLEAN] BY ConstantAssumption DEF Init
    <2>4. stage \in [CIM -> Stages] BY DEF Init, Stages, LoggedIn
    <2> QED BY <2>2, <2>3, <2>4 DEF SessionType
  <1>4. WireType
    <2>1. <<>> \in Seq(Msg) OBVIOUS
    <2> QED BY <2>1 DEF Init, WireType
  <1> QED BY <1>1, <1>2, <1>3, <1>4 DEF TypeOK

\* What the actions leave alone.
LEMMA ClientFrame ==
  ASSUME NEW r \in Req
  PROVE  /\ Issue(r) => UNCHANGED <<aclVars, sessionVars, wireVars>>
         /\ Register(r) => UNCHANGED <<aclVars, wireVars>>
         /\ Send(r) => UNCHANGED <<aclVars, sessionVars>>
         /\ Timeout(r) \/ Commit(r) => UNCHANGED <<aclVars, sessionVars, wireVars>>
  <1>1. Issue(r) => UNCHANGED <<aclVars, sessionVars, wireVars>> BY DEF Issue
  <1>2. Register(r) => UNCHANGED <<aclVars, wireVars>> BY DEF Register
  <1>3. Send(r) => UNCHANGED <<aclVars, sessionVars>> BY DEF Send
  <1>4. Timeout(r) \/ Commit(r) => UNCHANGED <<aclVars, sessionVars, wireVars>>
    BY DEF Timeout, Commit
  <1> QED BY <1>1, <1>2, <1>3, <1>4

LEMMA ChatFrame ==
  ASSUME NEW c \in CIM, NEW d \in CIM
  PROVE  /\ Dispatch(c, d) \/ MainStep(c, d) \/ Drop(c, d)
              => UNCHANGED <<clientVars, aclVars, sessionVars>>
         /\ ListenerStep(c, d) => UNCHANGED <<aclVars, sessionVars>>
  <1>1. Dispatch(c, d) => UNCHANGED <<clientVars, aclVars, sessionVars>> BY DEF Dispatch
  <1>2. Drop(c, d) => UNCHANGED <<clientVars, aclVars, sessionVars>> BY DEF Drop
  <1>3. MainStep(c, d) => UNCHANGED <<clientVars, aclVars, sessionVars>>
    BY DEF MainStep, Ignore, Refuse, StartFetch, FinishFetch, FetchThrows
  <1>4. ListenerStep(c, d) => UNCHANGED <<aclVars, sessionVars>>
    BY DEF ListenerStep, SetResult, SetStatus, Validate
  <1> QED BY <1>1, <1>2, <1>3, <1>4

LEMMA SessionFrame ==
  ASSUME NEW c \in CIM
  PROVE  /\ Dial(c) \/ ConnectStep(c) \/ ConnectFails(c)
              => UNCHANGED <<clientVars, aclVars, wireVars>>
         /\ Disconnect(c) => UNCHANGED <<clientVars, aclVars>>
         /\ SaveAcl(c) => UNCHANGED <<clientVars, sessionVars, wireVars>>
         /\ \A d \in CIM : RemoveAcl(c, d) => UNCHANGED <<clientVars, sessionVars, wireVars>>
         /\ \A d \in CIM, level \in Levels :
              EditAcl(c, d, level) => UNCHANGED <<clientVars, sessionVars, wireVars>>
  <1>1. Dial(c) => UNCHANGED <<clientVars, aclVars, wireVars>> BY DEF Dial
  <1>2. ConnectStep(c) => UNCHANGED <<clientVars, aclVars, wireVars>>
    BY DEF ConnectStep, Login, InstallHandlers, NameListener
  <1>3. ConnectFails(c) => UNCHANGED <<clientVars, aclVars, wireVars>> BY DEF ConnectFails
  <1>4. Disconnect(c) => UNCHANGED <<clientVars, aclVars>> BY DEF Disconnect
  <1>5. SaveAcl(c) => UNCHANGED <<clientVars, sessionVars, wireVars>> BY DEF SaveAcl
  <1>6. \A d \in CIM : RemoveAcl(c, d) => UNCHANGED <<clientVars, sessionVars, wireVars>>
    BY DEF RemoveAcl
  <1>7. \A d \in CIM, level \in Levels :
           EditAcl(c, d, level) => UNCHANGED <<clientVars, sessionVars, wireVars>>
    BY DEF EditAcl
  <1> QED BY <1>1, <1>2, <1>3, <1>4, <1>5, <1>6, <1>7

\* Client requests.
LEMMA ClientTypeStep == TypeOK /\ [Next]_vars => ClientType'
  <1> SUFFICES ASSUME TypeOK, [Next]_vars PROVE ClientType' OBVIOUS
  <1> USE DEF TypeOK
  <1>1. ASSUME NEW r \in Req, Issue(r) PROVE ClientType'
    <2>1. call' \in [Req -> Calls \cup {NoCall}] BY <1>1 DEF Issue, ClientType
    <2>2. /\ pc' \in [Req -> {"idle", "checked", "listening", "returned"}]
          /\ status' \in [Req -> Statuses]
      BY <1>1 DEF Issue, Return, ClientType, Statuses
    <2>3. \A k \in LocalKinds : Local(k, r) \in Result BY DEF Local, Result
    <2>4. result' \in [Req -> Result]
      BY <1>1, <2>3 DEF Issue, Return, ClientType, LocalKinds, Result
    <2> QED BY <1>1, <2>1, <2>2, <2>4 DEF Issue, ClientType
  <1>2. ASSUME NEW r \in Req, Register(r) PROVE ClientType'
    BY <1>2 DEF Register, Return, ClientType, Local, Result, LocalKinds, Statuses
  <1>3. ASSUME NEW r \in Req, Send(r) PROVE ClientType'
    <2>1. /\ pc' \in [Req -> {"idle", "checked", "listening", "returned"}]
          /\ status' \in [Req -> Statuses]
      BY <1>3 DEF Send, Return, ClientType, Statuses
    <2>2. \A k \in LocalKinds : Local(k, r) \in Result BY DEF Local, Result
    <2>3. result' \in [Req -> Result]
      BY <1>3, <2>2 DEF Send, Return, ClientType, LocalKinds
    <2> QED BY <1>3, <2>1, <2>3 DEF Send, ClientType
  <1>4. ASSUME NEW r \in Req, Timeout(r) PROVE ClientType'
    BY <1>4 DEF Timeout, ClientType, Local, Result, LocalKinds
  <1>5. ASSUME NEW r \in Req, Commit(r) PROVE ClientType'
    BY <1>5 DEF Commit, ClientType, Statuses
  <1>6. ASSUME NEW c \in CIM, NEW d \in CIM, NEW r \in Req, SetResult(c, d, r)
        PROVE  ClientType'
    <2>1. chat[c][d].msg \in Msg BY <1>6, StepIsBusy DEF SetResult, AtListener, Busy
    <2>2. [kind |-> chat[c][d].msg.kind, of |-> chat[c][d].msg.of] \in Result
      BY <2>1 DEF Msg, Result
    <2> QED BY <1>6, <2>2 DEF SetResult, ClientType
  <1>7. ASSUME NEW c \in CIM, NEW d \in CIM, NEW r \in Req, SetStatus(c, d, r)
        PROVE  ClientType'
    <2>1. chat[c][d].msg \in Msg BY <1>7, StepIsBusy DEF SetStatus, AtListener, Busy
    <2>2. chat[c][d].msg.code \in Statuses BY <2>1 DEF Msg, Statuses
    <2>3. status' \in [Req -> Statuses] BY <1>7, <2>2, PutStatusType DEF SetStatus
    <2> QED BY <1>7, <2>3 DEF SetStatus, ClientType
  <1>8. ASSUME NEW c \in CIM, NEW d \in CIM, NEW r \in Req, Validate(c, d, r)
        PROVE  ClientType'
    <2>1. chat[c][d].msg \in Msg BY <1>8, StepIsBusy DEF Validate, AtListener, Busy
    <2>2. chat[c][d].msg.of \in Req BY <2>1 DEF Msg
    <2>3. 202 \in Statuses BY DEF Statuses
    <2>4. status' \in [Req -> Statuses]
      BY <1>8, <2>3, PutStatusType DEF Validate, ClientType
    <2> QED BY <1>8, <2>2, <2>4 DEF Validate, ClientType
  <1>9. ASSUME NEW c \in CIM, Crash(c) PROVE ClientType'
    BY <1>9 DEF Crash, ClientType
  <1>10. CASE UNCHANGED clientVars BY <1>10 DEF clientVars, ClientType
  <1>11. CASE UNCHANGED vars BY <1>10, <1>11 DEF vars
  <1> QED BY <1>1, <1>2, <1>3, <1>4, <1>5, <1>6, <1>7, <1>8, <1>9, <1>10, <1>11,
             ClientFrame, ChatFrame, SessionFrame
          DEF Next, RequestStep, ChatStep, ListenerStep

\* Access control lists.
LEMMA AclTypeStep == TypeOK /\ [Next]_vars => AclType'
  <1> SUFFICES ASSUME TypeOK, [Next]_vars PROVE AclType' OBVIOUS
  <1> USE DEF TypeOK
  <1>1. ASSUME NEW c \in CIM, Crash(c) PROVE AclType' BY <1>1 DEF Crash, AclType
  <1>2. ASSUME NEW c \in CIM, SaveAcl(c) PROVE AclType' BY <1>2 DEF SaveAcl, AclType
  <1>3. ASSUME NEW c \in CIM, NEW d \in CIM, RemoveAcl(c, d) PROVE AclType'
    BY <1>3 DEF RemoveAcl, AclType, Levels
  <1>4. ASSUME NEW c \in CIM, NEW d \in CIM, NEW level \in Levels, EditAcl(c, d, level)
        PROVE  AclType'
    BY <1>4 DEF EditAcl, AclType, Levels
  <1>5. CASE UNCHANGED aclVars BY <1>5 DEF aclVars, AclType
  <1>6. CASE UNCHANGED vars BY <1>5, <1>6 DEF vars
  <1> QED BY <1>1, <1>2, <1>3, <1>4, <1>5, <1>6, ClientFrame, ChatFrame, SessionFrame
          DEF Next, RequestStep, ChatStep

\* Sessions with the server.
LEMMA SessionTypeStep == TypeOK /\ [Next]_vars => SessionType'
  <1> SUFFICES ASSUME TypeOK, [Next]_vars PROVE SessionType' OBVIOUS
  <1> USE DEF TypeOK
  <1>1. ASSUME NEW r \in Req, Register(r) PROVE SessionType'
    <2> DEFINE c == call[r].from
               grown == [listeners EXCEPT ![c] = Append(@, r)]
    <2>1. \A x \in CIM : Append(listeners[x], r) \in Seq(Req \cup {Main}) BY DEF SessionType
    <2>2. grown \in [CIM -> Seq(Req \cup {Main})] BY <2>1 DEF SessionType
    <2>3. listeners' \in [CIM -> Seq(Req \cup {Main})]
      <3>1. listeners' = listeners \/ listeners' = grown BY <1>1 DEF Register
      <3> QED BY <2>2, <3>1 DEF SessionType
    <2> QED BY <1>1, <2>3 DEF Register, SessionType
  <1>2. ASSUME NEW c \in CIM, Dial(c) \/ Login(c) \/ InstallHandlers(c) \/ NameListener(c)
                              \/ ConnectFails(c) \/ Disconnect(c) \/ Crash(c)
        PROVE  stage' \in [CIM -> Stages]
    BY <1>2 DEF Dial, Login, InstallHandlers, NameListener, ConnectFails, Disconnect, Crash,
                SetStage, SessionType, Stages, LoggedIn
  <1>3. ASSUME NEW c \in CIM, Dial(c) \/ Login(c) \/ InstallHandlers(c) \/ NameListener(c)
                              \/ ConnectFails(c) \/ Disconnect(c) \/ Crash(c)
        PROVE  named' \in [CIM -> BOOLEAN]
    BY <1>3 DEF Dial, Login, InstallHandlers, NameListener, ConnectFails, Disconnect, Crash,
                SessionType
  <1>4. ASSUME NEW c \in CIM, Dial(c) \/ Login(c) \/ InstallHandlers(c) \/ NameListener(c)
                              \/ ConnectFails(c) \/ Disconnect(c) \/ Crash(c)
        PROVE  listeners' \in [CIM -> Seq(Req \cup {Main})]
    <2>1. <<>> \in Seq(Req \cup {Main}) OBVIOUS
    <2>2. listeners[c] \in Seq(Req \cup {Main}) BY DEF SessionType
    <2>3. Append(listeners[c], Main) \in Seq(Req \cup {Main}) BY <2>2
    <2> QED BY <1>4, <2>1, <2>3
            DEF Dial, Login, InstallHandlers, NameListener, ConnectFails, Disconnect, Crash,
                SessionType
  <1>5. CASE UNCHANGED sessionVars BY <1>5 DEF sessionVars, SessionType
  <1>6. ASSUME NEW c \in CIM, Dial(c) \/ ConnectStep(c)
                              \/ ConnectFails(c) \/ Disconnect(c) \/ Crash(c)
        PROVE  SessionType'
    BY <1>2, <1>3, <1>4, <1>6 DEF SessionType, ConnectStep
  <1>7. CASE UNCHANGED vars BY <1>5, <1>7 DEF vars
  <1> QED BY <1>1, <1>5, <1>6, <1>7, ClientFrame, ChatFrame, SessionFrame
          DEF Next, RequestStep, ChatStep

\* Messages on their way and in the hands of the workers.
LEMMA WireTypeStep == TypeOK /\ [Next]_vars => WireType'
  <1> SUFFICES ASSUME TypeOK, [Next]_vars PROVE WireType' OBVIOUS
  <1> USE DEF TypeOK
  <1>1. ASSUME NEW r \in Req, Send(r) PROVE WireType'
    <2>1. RequestMsg(r) \in Msg BY ConstantAssumption DEF RequestMsg, Msg, Kinds
    <2>2. net' \in [CIM -> [CIM -> Seq(Msg)]] BY <1>1, <2>1, PostType DEF Send, WireType
    <2> QED BY <1>1, <2>2 DEF Send, WireType
  <1>2. ASSUME NEW c \in CIM, NEW d \in CIM, Dispatch(c, d) \/ Drop(c, d) PROVE WireType'
    <2>1. net[c][d] \in Seq(Msg) /\ net[c][d] # <<>> BY <1>2 DEF Dispatch, Drop, WireType
    <2>2. Head(net[c][d]) \in Msg /\ Tail(net[c][d]) \in Seq(Msg)
      BY <2>1, HeadTailProperties
    <2>3. net' \in [CIM -> [CIM -> Seq(Msg)]]
      <3>1. net' = [net EXCEPT ![c][d] = Tail(@)] BY <1>2 DEF Dispatch, Drop
      <3> QED BY <2>2, <3>1 DEF WireType
    <2>4. listeners[c] # <<>> => [step |-> "next", todo |-> listeners[c],
                                  msg |-> Head(net[c][d]), live |-> TRUE] \in Busy
      BY <2>2 DEF SessionType, Busy
    <2>5. chat' \in [CIM -> [CIM -> Busy \cup {Idle}]]
      <3>1. CASE Dispatch(c, d) BY <2>4, <3>1 DEF Dispatch, WireType
      <3>2. CASE Drop(c, d) BY <3>2 DEF Drop, WireType
      <3> QED BY <1>2, <3>1, <3>2
    <2>6. UNCHANGED verdicts BY <1>2 DEF Dispatch, Drop
    <2> QED BY <2>3, <2>5, <2>6 DEF WireType
  <1>3. ASSUME NEW c \in CIM, NEW d \in CIM, MainStep(c, d) PROVE WireType'
    <2>1. chat[c][d] \in Busy BY <1>3, MainIsBusy
    <2>2. chat[c][d].msg \in Msg BY <2>1 DEF Busy
    <2>3. CASE Ignore(c, d) \/ FetchThrows(c, d)
      BY <2>1, <2>3, NextListenerType DEF Ignore, FetchThrows, WireType
    <2>4. CASE Refuse(c, d)
      <3>1. Reply(c, chat[c][d].msg, "refusal", 401) \in Msg BY <2>2, ReplyType
      <3> QED BY <2>1, <2>4, <3>1, NextListenerType, AnswerType DEF Refuse, WireType
    <2>5. CASE FinishFetch(c, d)
      <3> DEFINE n == chat[c][d].msg
                 v(code) == IF Reports(c, n, code) THEN {"reported"}
                            ELSE IF code = 202 THEN {"accepted"} ELSE {}
      <3>1. PICK code \in FetchCodes, sent \in {202} \cup FetchCodes :
              /\ Answer(c, d, Reply(c, n, "data", sent))
              /\ verdicts' = [verdicts EXCEPT ![n.of] = @ \cup v(code)]
        BY <2>5 DEF FinishFetch
      <3>2. net' \in [CIM -> [CIM -> Seq(Msg)]]
        <4>1. Reply(c, n, "data", sent) \in Msg
          <5>1. n \in Msg /\ sent \in {200, 202, 401} \cup FetchCodes BY <2>2
          <5> HIDE DEF n
          <5> QED BY <5>1, ReplyType
        <4> QED BY <3>1, <4>1, AnswerType
      <3>3. verdicts' \in [Req -> SUBSET {"reported", "accepted"}]
        <4>1. \E w \in SUBSET {"reported", "accepted"} :
                verdicts' = [verdicts EXCEPT ![n.of] = @ \cup w]
          BY <3>1
        <4>2. PICK w \in SUBSET {"reported", "accepted"} :
                verdicts' = [verdicts EXCEPT ![n.of] = @ \cup w]
          BY <4>1
        <4> HIDE DEF n
        <4> QED BY <4>2 DEF WireType
      <3> QED BY <2>1, <2>5, <3>2, <3>3, NextListenerType DEF FinishFetch, WireType
    <2>6. CASE StartFetch(c, d) BY <2>1, <2>6, StepType DEF StartFetch, WireType
    <2> QED BY <1>3, <2>3, <2>4, <2>5, <2>6 DEF MainStep
  <1>4. ASSUME NEW c \in CIM, NEW d \in CIM, NEW r \in Req,
               SetResult(c, d, r) \/ SetStatus(c, d, r) \/ Validate(c, d, r)
        PROVE  WireType'
    <2>1. chat[c][d] \in Busy BY <1>4, StepIsBusy DEF SetResult, SetStatus, Validate, AtListener
    <2>2. CASE SetResult(c, d, r) BY <2>1, <2>2, StepType DEF SetResult, WireType
    <2>3. CASE SetStatus(c, d, r) BY <2>1, <2>3, StepType DEF SetStatus, WireType
    <2>4. CASE Validate(c, d, r) BY <2>1, <2>4, NextListenerType DEF Validate, WireType
    <2> QED BY <1>4, <2>2, <2>3, <2>4
  <1>5. ASSUME NEW c \in CIM, Disconnect(c) PROVE WireType'
    <2>1. ASSUME NEW d \in CIM PROVE [chat[c][d] EXCEPT !.live = FALSE] \in Busy \cup {Idle}
      <3>1. CASE chat[c][d] = Idle BY <3>1, CutIdle
      <3>2. CASE chat[c][d] \in Busy BY <3>2 DEF Busy
      <3> QED BY <3>1, <3>2 DEF WireType
    <2> QED BY <1>5, <2>1 DEF Disconnect, CutChats, WireType
  <1>6. ASSUME NEW c \in CIM, Crash(c) PROVE WireType' BY <1>6 DEF Crash, WireType
  <1>7. CASE UNCHANGED wireVars BY <1>7 DEF wireVars, WireType
  <1>8. CASE UNCHANGED vars BY <1>7, <1>8 DEF vars
  <1> QED BY <1>1, <1>2, <1>3, <1>4, <1>5, <1>6, <1>7, <1>8, ClientFrame, SessionFrame
          DEF Next, RequestStep, ChatStep, ListenerStep

LEMMA TypeStep == TypeOK /\ [Next]_vars => TypeOK'
  BY ClientTypeStep, AclTypeStep, SessionTypeStep, WireTypeStep DEF TypeOK

\* Every variable keeps its type in every behaviour.
THEOREM TypeCorrect == Safe => []TypeOK
  BY TypeInit, TypeStep, PTL DEF Safe
=============================================================================
