------------------------- MODULE CimExchangeAnswers -------------------------
(***************************************************************************)
(* What the exchange answers to clients, for every set of CIMs, requests   *)
(* and events.  A message only travels between the two CIMs its request    *)
(* names, and a response listener only runs at the CIM of its request: so  *)
(* whatever a client hears, however wrong, is about a request its own CIM  *)
(* takes part in.                                                          *)
(***************************************************************************)
EXTENDS CimExchangeSafety

\* A thread has its call once it started, and no result before; one that is about to send has
\* a peer to send to.
Course ==
  \A r \in Req :
    /\ pc[r] = "idle" <=> ~Issued(r)
    /\ pc[r] = "idle" => result[r] = None
    /\ pc[r] = "listening" => call[r].to \in CIM

\* A response listener is registered, and run, at the CIM of its request only.
Homed ==
  \A c, d \in CIM : \A r \in Req :
    r \in Elements(listeners[c]) \cup Elements(chat[c][d].todo)
      => Issued(r) /\ call[r].from = c

\* A message goes from the caller of its request to the callee, or back if it is no request.
RoutedAt(c, d, m) ==
  /\ Issued(m.of)
  /\ \/ call[m.of].to = c /\ call[m.of].from = d
     \/ ~IsRequest(m) /\ call[m.of].from = c /\ call[m.of].to = d
Routed == \A c, d \in CIM : \A m \in Pending(c, d) : RoutedAt(c, d, m)

\* What a client hears is about a request its CIM takes part in, as the callee if it is a request.
HeardOf(r, res) ==
  /\ Involved(call[r].from, res.of)
  /\ res.kind = "request" => call[res.of].to = call[r].from
Heard == \A r \in Req : result[r] # None => HeardOf(r, result[r])

RouteInv == TypeOK /\ Course /\ Homed /\ Routed /\ Heard

-----------------------------------------------------------------------------
(* Calls are made once.                                                    *)

LEMMA CallIsCall == NoCall \notin Calls
  <1> SUFFICES ASSUME NoCall \in Calls PROVE FALSE OBVIOUS
  <1>1. NoCall \in [from : CIM, to : CIM \cup {BadJid}, method : Methods, auth : BOOLEAN]
    BY ConstantAssumption
  <1>2. DOMAIN NoCall = {"from", "to", "method", "auth"} BY <1>1
  <1>3. DOMAIN NoCall = {"from"} BY DEF NoCall
  <1> QED BY <1>2, <1>3

LEMMA CallFrame ==
  ASSUME [Next]_vars
  PROVE  call' = call \/ \E r \in Req : Issue(r)
  <1>1. ASSUME NEW r \in Req, RequestStep(r) PROVE call' = call
    BY <1>1 DEF RequestStep, Register, Send, Timeout, Commit
  <1>2. ASSUME NEW c \in CIM, NEW d \in CIM, ListenerStep(c, d) PROVE call' = call
    BY <1>2 DEF ListenerStep, SetResult, SetStatus, Validate
  <1>3. ASSUME NEW c \in CIM, Crash(c) PROVE call' = call BY <1>3 DEF Crash
  <1>4. UNCHANGED clientVars => call' = call BY DEF clientVars
  <1>5. UNCHANGED vars => call' = call BY DEF vars, clientVars
  <1> QED BY <1>1, <1>2, <1>3, <1>4, <1>5, ChatFrame, SessionFrame DEF Next, ChatStep

\* What a request asks does not change once it is issued.
LEMMA CallKept ==
  ASSUME ClientType, Course, [Next]_vars, NEW r \in Req, Issued(r)
  PROVE  Issued(r)' /\ call'[r] = call[r]
  <1>1. CASE call' = call BY <1>1 DEF Issued
  <1>2. ASSUME NEW q \in Req, Issue(q) PROVE call'[r] = call[r]
    <2>1. pc[q] = "idle" /\ pc[r] # "idle" BY <1>2 DEF Issue, Course
    <2>2. PICK k \in Calls : call' = [call EXCEPT ![q] = k] BY <1>2 DEF Issue
    <2> QED BY <2>1, <2>2 DEF ClientType
  <1> QED BY <1>1, <1>2, CallFrame DEF Issued

-----------------------------------------------------------------------------
(* The thread of a request.                                                *)

LEMMA CourseInit == Init => Course
  BY DEF Init, Course, Issued

LEMMA CourseStep == TypeOK /\ Course /\ Homed /\ [Next]_vars => Course'
  <1> SUFFICES ASSUME TypeOK, Course, Homed, [Next]_vars, NEW r \in Req
               PROVE  /\ pc'[r] = "idle" <=> call'[r] = NoCall
                      /\ pc'[r] = "idle" => result'[r] = None
                      /\ pc'[r] = "listening" => call'[r].to \in CIM
    BY DEF Course, Issued
  <1> DEFINE Goal == /\ pc'[r] = "idle" <=> call'[r] = NoCall
                     /\ pc'[r] = "idle" => result'[r] = None
                     /\ pc'[r] = "listening" => call'[r].to \in CIM
  <1> USE DEF TypeOK, ClientType
  <1>1. /\ pc[r] = "idle" <=> call[r] = NoCall
        /\ pc[r] = "idle" => result[r] = None
        /\ pc[r] = "listening" => call[r].to \in CIM
    BY DEF Course, Issued
  <1>2. pc'[r] = pc[r] /\ result'[r] = result[r] /\ call'[r] = call[r] => Goal BY <1>1
  <1>3. pc[r] # "idle" /\ pc'[r] = "returned" /\ call'[r] = call[r] => Goal BY <1>1
  <1>4. ASSUME NEW q \in Req, Issue(q) PROVE Goal
    <2>1. PICK k \in Calls : call' = [call EXCEPT ![q] = k] BY <1>4 DEF Issue
    <2>2. CASE q = r
      <3>1. call'[r] # NoCall BY <2>1, <2>2, CallIsCall
      <3>2. pc'[r] \in {"checked", "returned"} BY <1>4, <2>2 DEF Issue, Return
      <3> QED BY <3>1, <3>2
    <2>3. CASE q # r
      <3>1. call'[r] = call[r] BY <2>1, <2>3
      <3>2. pc'[r] = pc[r] /\ result'[r] = result[r] BY <1>4, <2>3 DEF Issue, Return
      <3> QED BY <1>2, <3>1, <3>2
    <2> QED BY <2>2, <2>3
  <1>5. ASSUME NEW q \in Req, Register(q) PROVE Goal
    <2>1. pc[q] = "checked" /\ call' = call BY <1>5 DEF Register
    <2>2. CASE q = r
      <3>1. call[r] \in Calls BY <1>1, <2>1, <2>2
      <3>2. call[r].to \in CIM \cup {BadJid} BY <3>1, ConstantAssumption
      <3>3. pc'[r] = "returned" \/ (pc'[r] = "listening" /\ call[r].to # BadJid)
        BY <1>5, <2>2 DEF Register, Return
      <3> QED BY <1>1, <2>1, <2>2, <3>2, <3>3
    <2>3. CASE q # r
      <3>1. pc'[r] = pc[r] /\ result'[r] = result[r] BY <1>5, <2>3 DEF Register, Return
      <3> QED BY <1>2, <2>1, <3>1
    <2> QED BY <2>2, <2>3
  <1>6. ASSUME NEW q \in Req, Send(q) PROVE Goal
    <2>1. pc[q] = "listening" /\ call' = call BY <1>6 DEF Send
    <2>2. CASE q = r
      <3>1. pc'[r] = "returned" BY <1>6, <2>2 DEF Send, Return
      <3> QED BY <1>3, <2>1, <2>2, <3>1
    <2>3. CASE q # r
      <3>1. pc'[r] = pc[r] /\ result'[r] = result[r] BY <1>6, <2>3 DEF Send, Return
      <3> QED BY <1>2, <2>1, <3>1
    <2> QED BY <2>2, <2>3
  <1>7. ASSUME NEW q \in Req, Timeout(q) \/ Commit(q) PROVE Goal
    <2>1. pc[q] = "returned" /\ UNCHANGED <<call, pc>> BY <1>7 DEF Timeout, Commit
    <2>2. q # r => result'[r] = result[r] BY <1>7 DEF Timeout, Commit
    <2> QED BY <1>2, <1>3, <2>1, <2>2
  <1>8. ASSUME NEW c \in CIM, NEW d \in CIM, NEW q \in Req, SetResult(c, d, q) PROVE Goal
    <2>1. UNCHANGED <<call, pc>> BY <1>8 DEF SetResult
    <2>2. q \in Elements(chat[c][d].todo)
      <3>1. chat[c][d] \in Busy /\ Head(chat[c][d].todo) = q
        BY <1>8, StepIsBusy DEF SetResult, AtListener
      <3> QED BY <3>1, ElementsTail DEF Busy
    <2>3. pc[q] # "idle" BY <2>2 DEF Homed, Course
    <2>4. q # r => result'[r] = result[r] BY <1>8 DEF SetResult
    <2> QED BY <1>1, <1>2, <2>1, <2>3, <2>4
  <1>9. ASSUME NEW c \in CIM, NEW d \in CIM, NEW q \in Req,
               SetStatus(c, d, q) \/ Validate(c, d, q)
        PROVE  Goal
    BY <1>2, <1>9 DEF SetStatus, Validate
  <1>10. ASSUME NEW c \in CIM, Crash(c) PROVE Goal
    <2>1. call' = call /\ result' = result BY <1>10 DEF Crash
    <2>2. pc'[r] = pc[r] \/ (call[r] # NoCall /\ pc'[r] = "returned") BY <1>10 DEF Crash
    <2> QED BY <1>1, <1>2, <1>3, <2>1, <2>2
  <1>11. UNCHANGED clientVars => Goal BY <1>2 DEF clientVars
  <1>12. UNCHANGED vars => Goal BY <1>11 DEF vars
  <1> HIDE DEF Goal
  <1>13. Goal
    BY <1>4, <1>5, <1>6, <1>7, <1>8, <1>9, <1>10, <1>11, <1>12, ChatFrame, SessionFrame
       DEF Next, RequestStep, ChatStep, ListenerStep
  <1> QED BY <1>13 DEF Goal

-----------------------------------------------------------------------------
(* Response listeners.                                                     *)

LEMMA NoElements == Elements(<<>>) = {}
  <1>1. Len(<<>>) = 0 BY EmptySeq
  <1> QED BY <1>1 DEF Elements

LEMMA RestTodo ==
  ASSUME NEW h \in Busy PROVE Elements(Rest(h).todo) \subseteq Elements(h.todo)
  <1>1. CASE Len(h.todo) <= 1 BY <1>1, NoElements DEF Rest, Idle
  <1>2. CASE ~(Len(h.todo) <= 1)
    <2>1. h.todo \in Seq(Req \cup {Main}) /\ h.todo # <<>> BY DEF Busy
    <2>2. Rest(h).todo = Tail(h.todo) BY <1>2 DEF Rest, Busy
    <2> QED BY <2>1, <2>2, ElementsTail
  <1> QED BY <1>1, <1>2

\* A worker runs listeners of its snapshot; a snapshot is taken of what is registered.
LEMMA TodoSupply ==
  ASSUME TypeOK, [Next]_vars, NEW c \in CIM, NEW d \in CIM
  PROVE  Elements(chat'[c][d].todo) \subseteq Elements(chat[c][d].todo) \cup Elements(listeners[c])
  <1> USE DEF TypeOK
  <1> DEFINE Goal == Elements(chat'[c][d].todo)
                       \subseteq Elements(chat[c][d].todo) \cup Elements(listeners[c])
  <1>1. chat'[c][d].todo = chat[c][d].todo => Goal OBVIOUS
  <1>2. chat'[c][d] = Idle => Goal BY NoElements DEF Idle
  <1> HIDE DEF Goal
  <1>3. ASSUME UNCHANGED wireVars PROVE Goal BY <1>1, <1>3 DEF wireVars
  <1>4. ASSUME NEW r \in Req, Send(r) PROVE Goal BY <1>1, <1>4 DEF Send
  <1>5. ASSUME NEW x \in CIM, NEW y \in CIM, Drop(x, y) PROVE Goal BY <1>1, <1>5 DEF Drop
  <1>6. ASSUME NEW x \in CIM, NEW y \in CIM, Dispatch(x, y) PROVE Goal
    <2>1. CASE c = x /\ d = y
      <3>1. chat'[c][d] = Idle \/ chat'[c][d].todo = listeners[c]
        BY <1>6, <2>1 DEF Dispatch, WireType
      <3> QED BY <1>2, <3>1 DEF Goal
    <2>2. CASE ~(c = x /\ d = y)
      <3>1. chat'[c][d] = chat[c][d] BY <1>6, <2>2 DEF Dispatch, WireType
      <3> QED BY <1>1, <3>1
    <2> QED BY <2>1, <2>2
  <1>7. ASSUME NEW x \in CIM, NEW y \in CIM, chat[x][y] \in Busy, NextListener(x, y) PROVE Goal
    <2>1. CASE c = x /\ d = y
      <3>1. chat'[c][d] = Rest(chat[c][d]) BY <1>7, <2>1 DEF NextListener, WireType
      <3> QED BY <1>7, <2>1, <3>1, RestTodo DEF Goal
    <2>2. CASE ~(c = x /\ d = y)
      <3>1. chat'[c][d] = chat[c][d] BY <1>7, <2>2 DEF NextListener, WireType
      <3> QED BY <1>1, <3>1
    <2> QED BY <2>1, <2>2
  <1>8. ASSUME NEW x \in CIM, NEW y \in CIM, chat[x][y] \in Busy,
               NEW s \in {"fetch", "status", "validate"}, chat' = [chat EXCEPT ![x][y].step = s]
        PROVE  Goal
    <2>1. CASE c = x /\ d = y
      <3>1. chat'[c][d].todo = chat[c][d].todo BY <1>8, <2>1 DEF WireType, Busy
      <3> QED BY <1>1, <3>1
    <2>2. CASE ~(c = x /\ d = y)
      <3>1. chat'[c][d] = chat[c][d] BY <1>8, <2>2 DEF WireType
      <3> QED BY <1>1, <3>1
    <2> QED BY <2>1, <2>2
  <1>9. ASSUME NEW x \in CIM, NEW y \in CIM, MainStep(x, y) PROVE Goal
    <2>1. chat[x][y] \in Busy BY <1>9, MainIsBusy
    <2> QED BY <1>7, <1>8, <1>9, <2>1
            DEF MainStep, Ignore, Refuse, StartFetch, FinishFetch, FetchThrows
  <1>10. ASSUME NEW x \in CIM, NEW y \in CIM, NEW r \in Req,
                SetResult(x, y, r) \/ SetStatus(x, y, r) \/ Validate(x, y, r)
         PROVE  Goal
    <2>1. chat[x][y] \in Busy BY <1>10, StepIsBusy DEF SetResult, SetStatus, Validate, AtListener
    <2> QED BY <1>7, <1>8, <1>10, <2>1 DEF SetResult, SetStatus, Validate
  <1>11. ASSUME NEW x \in CIM, Crash(x) PROVE Goal
    <2>1. chat'[c][d] = Idle \/ chat'[c][d] = chat[c][d] BY <1>11 DEF Crash, WireType
    <2> QED BY <1>1, <1>2, <2>1
  <1>12. ASSUME NEW x \in CIM, Disconnect(x) PROVE Goal
    <2>1. chat'[c][d] = chat[c][d] \/ chat'[c][d] = [chat[c][d] EXCEPT !.live = FALSE]
      <3>1. CASE c = x
        <4>1. chat'[x] = CutChats(x) BY <1>12 DEF Disconnect, WireType
        <4> QED BY <3>1, <4>1 DEF CutChats
      <3>2. CASE c # x
        <4>1. chat'[c] = chat[c] BY <1>12, <3>2 DEF Disconnect, WireType
        <4> QED BY <4>1
      <3> QED BY <3>1, <3>2
    <2>2. [chat[c][d] EXCEPT !.live = FALSE].todo = chat[c][d].todo
      <3>1. CASE chat[c][d] = Idle BY <3>1, CutIdle
      <3>2. CASE chat[c][d] \in Busy BY <3>2 DEF Busy
      <3> QED BY <3>1, <3>2 DEF WireType
    <2> QED BY <1>1, <2>1, <2>2
  <1>13. UNCHANGED vars => Goal BY <1>3 DEF vars
  <1>14. Goal
    BY <1>3, <1>4, <1>5, <1>6, <1>9, <1>10, <1>11, <1>12, <1>13, ClientFrame, SessionFrame
       DEF Next, RequestStep, ChatStep, ListenerStep
  <1> QED BY <1>14 DEF Goal

\* A request registers with the chat manager of its own CIM.
LEMMA ListenerSupply ==
  ASSUME TypeOK, [Next]_vars, NEW c \in CIM, NEW r \in Req, r \in Elements(listeners'[c])
  PROVE  r \in Elements(listeners[c]) \/ (pc[r] = "checked" /\ call[r].from = c)
  <1> USE DEF TypeOK
  <1> DEFINE Goal == r \in Elements(listeners[c]) \/ (pc[r] = "checked" /\ call[r].from = c)
  <1>1. listeners'[c] = listeners[c] => Goal OBVIOUS
  <1>2. listeners[c] \in Seq(Req \cup {Main}) BY DEF SessionType
  <1>3. ASSUME NEW q \in Req, Register(q) PROVE Goal
    <2>1. CASE listeners' = listeners BY <1>1, <2>1
    <2>2. CASE listeners' = [listeners EXCEPT ![call[q].from] = Append(@, q)] /\ call[q].from = c
      <3>1. listeners'[c] = Append(listeners[c], q) BY <2>2 DEF SessionType
      <3>2. r \in Elements(listeners[c]) \cup {q} BY <1>2, <3>1, ElementsAppend
      <3> QED BY <1>3, <2>2, <3>2 DEF Register
    <2>3. CASE listeners' = [listeners EXCEPT ![call[q].from] = Append(@, q)] /\ call[q].from # c
      BY <1>1, <2>3 DEF SessionType
    <2> QED BY <1>3, <2>1, <2>2, <2>3 DEF Register
  <1>4. ASSUME NEW x \in CIM, Dial(x) \/ Crash(x) PROVE Goal
    <2>1. listeners'[c] = listeners[c] \/ listeners'[c] = <<>>
      BY <1>4 DEF Dial, Crash, SessionType
    <2> QED BY <1>1, <2>1, NoElements
  <1>5. ASSUME NEW x \in CIM, InstallHandlers(x) PROVE Goal
    <2>1. listeners'[c] = listeners[c] \/ listeners'[c] = Append(listeners[c], Main)
      BY <1>5 DEF InstallHandlers, SessionType
    <2>2. r # Main BY ConstantAssumption
    <2>3. Elements(Append(listeners[c], Main)) \subseteq Elements(listeners[c]) \cup {Main}
      BY <1>2, ElementsAppend
    <2> QED BY <1>1, <2>1, <2>2, <2>3
  <1>6. ASSUME NEW x \in CIM, Login(x) \/ NameListener(x) \/ ConnectFails(x) \/ Disconnect(x)
        PROVE  Goal
    BY <1>1, <1>6 DEF Login, NameListener, ConnectFails, Disconnect
  <1>7. UNCHANGED sessionVars => Goal BY <1>1 DEF sessionVars
  <1>8. UNCHANGED vars => Goal BY <1>7 DEF vars
  <1> HIDE DEF Goal
  <1>9. Goal
    BY <1>3, <1>4, <1>5, <1>6, <1>7, <1>8, ClientFrame, ChatFrame, SessionFrame
       DEF Next, RequestStep, ChatStep, ConnectStep
  <1> QED BY <1>9 DEF Goal

LEMMA HomedInit == Init => Homed
  <1> SUFFICES ASSUME Init, NEW c \in CIM, NEW d \in CIM, NEW r \in Req,
                      r \in Elements(listeners[c]) \cup Elements(chat[c][d].todo)
               PROVE  FALSE
    BY DEF Homed
  <1>1. chat[c][d].todo = <<>> /\ (listeners[c] = <<>> \/ listeners[c] = <<Main>>)
    BY DEF Init, Idle
  <1>2. Elements(<<Main>>) = {Main} BY DEF Elements
  <1> QED BY <1>1, <1>2, NoElements, ConstantAssumption

LEMMA HomedStep == TypeOK /\ Course /\ Homed /\ [Next]_vars => Homed'
  <1> SUFFICES ASSUME TypeOK, Course, Homed, [Next]_vars,
                      NEW c \in CIM, NEW d \in CIM, NEW r \in Req,
                      r \in Elements(listeners'[c]) \cup Elements(chat'[c][d].todo)
               PROVE  Issued(r)' /\ call'[r].from = c
    BY DEF Homed, Issued, Elements
  <1>1. CASE r \in Elements(chat'[c][d].todo)
    <2>1. r \in Elements(chat[c][d].todo) \cup Elements(listeners[c]) BY <1>1, TodoSupply
    <2>2. Issued(r) /\ call[r].from = c BY <2>1 DEF Homed
    <2> QED BY <2>2, CallKept DEF TypeOK
  <1>2. CASE r \in Elements(listeners'[c])
    <2>1. r \in Elements(listeners[c]) \/ (pc[r] = "checked" /\ call[r].from = c)
      BY <1>2, ListenerSupply
    <2>2. Issued(r) /\ call[r].from = c BY <2>1 DEF Homed, Course
    <2> QED BY <2>2, CallKept DEF TypeOK
  <1> QED BY <1>1, <1>2
-----------------------------------------------------------------------------
(* Messages.                                                               *)

\* The message of a worker that is not idle is pending.
LEMMA HeldIsPending ==
  ASSUME NEW c, NEW d, chat[c][d] # Idle PROVE chat[c][d].msg \in Pending(c, d)
  BY DEF Pending

\* The answer to a message is about the same request, and is none itself.
LEMMA ReplyIs ==
  ASSUME NEW c, NEW m, NEW kind \in {"data", "refusal"}, NEW code
  PROVE  /\ Reply(c, m, kind, code).of = m.of
         /\ ~IsRequest(Reply(c, m, kind, code))
         /\ Reply(c, m, kind, code).kind \in {kind, "blank"}
  BY DEF Reply, IsRequest

\* Answering sends a message back where it came from.
LEMMA ReplyRouted ==
  ASSUME TypeOK, Routed, NEW c \in CIM, NEW d \in CIM, NEW m,
         Refused(c, d, m) \/ Fetched(c, d, m)
  PROVE  m.of \in Req /\ RoutedAt(c, d, m) /\ ~IsRequest(m)
  <1>1. chat[d][c] # Idle BY DEF Refused, Fetched, Idle
  <1>2. RoutedAt(d, c, chat[d][c].msg) /\ chat[d][c].msg \in Msg
    BY <1>1, HeldIsPending, PendingType DEF Routed, TypeOK
  <1>3. m.of = chat[d][c].msg.of /\ ~IsRequest(m) BY ReplyIs DEF Refused, Fetched
  <1> QED BY <1>2, <1>3 DEF RoutedAt, Msg

LEMMA RoutedInit == Init => Routed
  BY PendingInit DEF Routed

LEMMA RoutedStep == TypeOK /\ Course /\ Routed /\ [Next]_vars => Routed'
  <1> SUFFICES ASSUME TypeOK, Course, Routed, [Next]_vars,
                      NEW c \in CIM, NEW d \in CIM, NEW m \in Pending(c, d)'
               PROVE  RoutedAt(c, d, m)'
    BY DEF Routed
  <1>1. m \in Pending(c, d) \/ Requested(c, d, m) \/ Refused(c, d, m) \/ Fetched(c, d, m)
    BY Supply
  <1>2. m.of \in Req /\ RoutedAt(c, d, m)
    <2>1. CASE m \in Pending(c, d) BY <2>1, PendingType DEF Routed, Msg, TypeOK
    <2>2. CASE Requested(c, d, m)
      <3>1. PICK r \in Req : /\ pc[r] = "listening" /\ call[r].from = d /\ call[r].to = c
                             /\ m = RequestMsg(r)
        BY <2>2 DEF Requested
      <3>2. m.of = r BY <3>1 DEF RequestMsg
      <3> QED BY <3>1, <3>2 DEF Course, RoutedAt
    <2>3. CASE Refused(c, d, m) \/ Fetched(c, d, m) BY <2>3, ReplyRouted
    <2> QED BY <1>1, <2>1, <2>2, <2>3
  <1>3. Issued(m.of)' /\ call'[m.of] = call[m.of] BY <1>2, CallKept DEF RoutedAt, TypeOK
  <1> QED BY <1>2, <1>3 DEF RoutedAt, Issued

-----------------------------------------------------------------------------
(* Results.                                                                *)

\* Where a result can come from: it is the thread's own, or a message in the hands of a worker
\* of the CIM of the request.
LEMMA ResultSupply ==
  ASSUME TypeOK, Course, Homed, [Next]_vars, NEW r \in Req,
         result'[r] # result[r], result'[r] # None
  PROVE  \/ /\ result'[r].of = r /\ result'[r].kind \in LocalKinds
            /\ Issued(r)' /\ (Issued(r) => call'[r] = call[r])
         \/ /\ Issued(r)
            /\ \E d \in CIM : LET h == chat[call[r].from][d] IN
                 /\ call[r].from \in CIM /\ h # Idle
                 /\ result'[r] = [kind |-> h.msg.kind, of |-> h.msg.of]
  <1> USE DEF TypeOK, ClientType
  <1> DEFINE Own == /\ result'[r].of = r /\ result'[r].kind \in LocalKinds
                    /\ Issued(r)' /\ (Issued(r) => call'[r] = call[r])
             Goal == Own \/ /\ Issued(r)
                            /\ \E d \in CIM : LET h == chat[call[r].from][d] IN
                                 /\ call[r].from \in CIM /\ h # Idle
                                 /\ result'[r] = [kind |-> h.msg.kind, of |-> h.msg.of]
  <1>1. \A kind \in LocalKinds : Local(kind, r).of = r /\ Local(kind, r).kind = kind BY DEF Local
  <1>2. ASSUME NEW q \in Req, Issue(q) PROVE Goal
    <2>1. PICK k \in Calls : call' = [call EXCEPT ![q] = k] BY <1>2 DEF Issue
    <2>2. q = r BY <1>2 DEF Issue, Return
    <2>3. ~Issued(r) BY <1>2, <2>2 DEF Issue, Course
    <2>4. Issued(r)' BY <2>1, <2>2, CallIsCall DEF Issued
    <2>5. \E kind \in LocalKinds : result'[r] = Local(kind, r)
      BY <1>2, <2>2 DEF Issue, Return, LocalKinds
    <2> QED BY <1>1, <2>3, <2>4, <2>5
  <1>3. ASSUME NEW q \in Req, Register(q) \/ Send(q) \/ Timeout(q) \/ Commit(q) PROVE Goal
    <2>1. call' = call /\ pc[q] # "idle" BY <1>3 DEF Register, Send, Timeout, Commit
    <2>2. q = r BY <1>3 DEF Register, Send, Timeout, Commit, Return
    <2>3. Issued(r) BY <2>1, <2>2 DEF Course
    <2>4. \E kind \in LocalKinds : result'[r] = Local(kind, r)
      <3>1. CASE Register(q) BY <2>2, <3>1 DEF Register, Return, LocalKinds
      <3>2. CASE Send(q) BY <2>2, <3>2 DEF Send, Return, LocalKinds
      <3>3. CASE Timeout(q) BY <2>2, <3>3 DEF Timeout, LocalKinds
      <3>4. CASE Commit(q) BY <3>4 DEF Commit
      <3> QED BY <1>3, <3>1, <3>2, <3>3, <3>4
    <2> QED BY <1>1, <2>1, <2>3, <2>4 DEF Issued
  <1>4. ASSUME NEW c \in CIM, NEW d \in CIM, NEW q \in Req, SetResult(c, d, q) PROVE Goal
    <2>1. q = r BY <1>4 DEF SetResult
    <2>2. chat[c][d] \in Busy /\ Head(chat[c][d].todo) = r
      BY <1>4, <2>1, StepIsBusy DEF SetResult, AtListener
    <2>3. r \in Elements(chat[c][d].todo) BY <2>2, ElementsTail DEF Busy
    <2>4. Issued(r) /\ call[r].from = c BY <2>3 DEF Homed
    <2>5. chat[c][d] # Idle BY <2>2 DEF Busy, Idle
    <2>6. result'[r] = [kind |-> chat[c][d].msg.kind, of |-> chat[c][d].msg.of]
      BY <1>4, <2>1 DEF SetResult
    <2> QED BY <2>4, <2>5, <2>6
  <1>5. ASSUME NEW c \in CIM, NEW d \in CIM, NEW q \in Req,
               SetStatus(c, d, q) \/ Validate(c, d, q)
        PROVE  FALSE
    BY <1>5 DEF SetStatus, Validate
  <1>6. ASSUME NEW c \in CIM, Crash(c) PROVE FALSE BY <1>6 DEF Crash
  <1>7. ~UNCHANGED clientVars /\ ~UNCHANGED vars BY DEF vars, clientVars
  <1> HIDE DEF Goal
  <1>8. Goal
    BY <1>2, <1>3, <1>4, <1>5, <1>6, <1>7, ChatFrame, SessionFrame
       DEF Next, RequestStep, ChatStep, ListenerStep
  <1> QED BY <1>8 DEF Goal

LEMMA HeardInit == Init => Heard
  BY DEF Init, Heard

LEMMA HeardStep == RouteInv /\ [Next]_vars => Heard'
  <1> SUFFICES ASSUME RouteInv, [Next]_vars, NEW r \in Req, result'[r] # None
               PROVE  /\ call'[result'[r].of] # NoCall
                      /\ call'[r].from \in {call'[result'[r].of].from, call'[result'[r].of].to}
                      /\ result'[r].kind = "request" => call'[result'[r].of].to = call'[r].from
    BY DEF Heard, HeardOf, Involved, Issued
  <1> USE DEF RouteInv, TypeOK
  <1>1. ASSUME NEW q \in Req, Issued(q), Issued(r),
               call[r].from \in {call[q].from, call[q].to}, result'[r].of = q,
               result'[r].kind = "request" => call[q].to = call[r].from
        PROVE  /\ call'[result'[r].of] # NoCall
               /\ call'[r].from \in {call'[result'[r].of].from, call'[result'[r].of].to}
               /\ result'[r].kind = "request" => call'[result'[r].of].to = call'[r].from
    BY <1>1, CallKept DEF Issued
  <1>2. CASE result'[r] = result[r]
    <2>1. HeardOf(r, result[r]) /\ Issued(r) BY <1>2 DEF Heard, Course
    <2>2. result[r].of \in Req BY <1>2 DEF ClientType, Result
    <2> QED BY <1>1, <1>2, <2>1, <2>2 DEF HeardOf, Involved
  <1>3. CASE result'[r].of = r /\ result'[r].kind \in LocalKinds /\ Issued(r)'
    BY <1>3 DEF LocalKinds, Issued
  <1>4. ASSUME NEW d \in CIM, Issued(r), call[r].from \in CIM, chat[call[r].from][d] # Idle,
               result'[r] = [kind |-> chat[call[r].from][d].msg.kind,
                             of |-> chat[call[r].from][d].msg.of]
        PROVE  /\ call'[result'[r].of] # NoCall
               /\ call'[r].from \in {call'[result'[r].of].from, call'[result'[r].of].to}
               /\ result'[r].kind = "request" => call'[result'[r].of].to = call'[r].from
    <2> DEFINE m == chat[call[r].from][d].msg
    <2>1. m \in Pending(call[r].from, d) BY <1>4, HeldIsPending
    <2>2. m \in Msg /\ RoutedAt(call[r].from, d, m) BY <1>4, <2>1, PendingType DEF Routed
    <2>3. m.of \in Req BY <2>2 DEF Msg
    <2>4. result'[r].of = m.of /\ result'[r].kind = m.kind BY <1>4
    <2> HIDE DEF m
    <2> QED BY <1>1, <1>4, <2>2, <2>3, <2>4 DEF RoutedAt, IsRequest
  <1> QED BY <1>2, <1>3, <1>4, ResultSupply

LEMMA RouteInvInit == Init => RouteInv
  BY TypeInit, CourseInit, HomedInit, RoutedInit, HeardInit DEF RouteInv

LEMMA RouteInvStep == RouteInv /\ [Next]_vars => RouteInv'
  <1> SUFFICES ASSUME RouteInv, [Next]_vars PROVE RouteInv' OBVIOUS
  <1>1. TypeOK' BY TypeStep DEF RouteInv
  <1>2. Course' BY CourseStep DEF RouteInv
  <1>3. Homed' BY HomedStep DEF RouteInv
  <1>4. Routed' BY RoutedStep DEF RouteInv
  <1>5. Heard' BY HeardStep
  <1> QED BY <1>1, <1>2, <1>3, <1>4, <1>5 DEF RouteInv

LEMMA RouteInvariant == Safe => []RouteInv
  BY RouteInvInit, RouteInvStep, PTL DEF Safe

\* Although nothing ties a response to its request, the answer of a client whose CIM takes part
\* in no other request is the data or the refusal of its own, however many CIMs there are and
\* whatever is lost, edited or restarted (XMPPService 236-275).
THEOREM LoneAnswers == Safe => []LoneAnswerIsOwn
  <1>1. RouteInv => LoneAnswerIsOwn
    <2> SUFFICES ASSUME RouteInv, NEW r \in Req, Alone(r), result[r] # None
                 PROVE  result[r].of = r /\ result[r].kind # "request"
      BY DEF LoneAnswerIsOwn
    <2>1. result[r].of \in Req BY DEF RouteInv, TypeOK, ClientType, Result
    <2>2. HeardOf(r, result[r]) BY DEF RouteInv, Heard
    <2>3. result[r].of = r BY <2>1, <2>2 DEF HeardOf, Alone
    <2> QED BY <2>2, <2>3 DEF HeardOf, Alone
  <1> QED BY <1>1, RouteInvariant, PTL
-----------------------------------------------------------------------------
(* Trust.                                                                  *)

\* No list is being edited, and no edit is under way.
Untouched == Edited = {} => \A c \in CIM : edit[c] = NoEdit

\* What a worker fetches its peer may have.
FetchesAllowed ==
  Edited = {} =>
    \A c, d \in CIM : chat[c][d].step = "fetch" => Allows(acl[c][d], call[chat[c][d].msg.of].method)

TrustInv == RouteInv /\ FetchesRequest /\ Untouched /\ FetchesAllowed /\ TrustBothWays

\* Nothing else changes a list.
LEMMA AclKept ==
  ASSUME AclType, Untouched, Edited = {}, [Next]_vars
  PROVE  acl' = acl /\ Untouched'
  <1>1. \A c \in CIM : edit[c] = NoEdit BY DEF Untouched
  <1>2. ASSUME UNCHANGED aclVars PROVE acl' = acl /\ Untouched'
    BY <1>2 DEF aclVars, Untouched
  <1>3. ASSUME NEW c \in CIM, Crash(c) PROVE acl' = acl /\ Untouched'
    BY <1>1, <1>3 DEF Crash, Untouched, AclType
  <1>4. ASSUME NEW c \in CIM, SaveAcl(c) PROVE FALSE BY <1>1, <1>4 DEF SaveAcl
  <1>5. ASSUME NEW c \in CIM, NEW d \in CIM, RemoveAcl(c, d) PROVE FALSE BY <1>5 DEF RemoveAcl
  <1>6. ASSUME NEW c \in CIM, NEW d \in CIM, NEW level \in Levels, EditAcl(c, d, level)
        PROVE  FALSE
    BY <1>6 DEF EditAcl
  <1>7. UNCHANGED vars => UNCHANGED aclVars BY DEF vars
  <1> QED BY <1>2, <1>3, <1>4, <1>5, <1>6, <1>7, ClientFrame, ChatFrame, SessionFrame
          DEF Next, RequestStep, ChatStep

\* What the caller, and the callee, of request r let each other do.
CallerAllows(r) == Allows(acl[call[r].from][call[r].to], call[r].method)
CalleeAllows(r) == Allows(acl[call[r].to][call[r].from], call[r].method)

LEMMA TrustMeans ==
  ASSUME TypeOK
  PROVE  TrustBothWays <=>
           (Edited = {} =>
             /\ \A c, d \in CIM : \A m \in Pending(c, d) :
                  /\ Issued(m.of) /\ CallerAllows(m.of)
                  /\ m.kind = "data" => CalleeAllows(m.of)
             /\ \A r \in Req : result[r].kind = "data" => CalleeAllows(result[r].of))
  BY DEF TrustBothWays, CallerAllows, CalleeAllows

LEMMA FetchesAllowedStep == TrustInv /\ [Next]_vars => FetchesAllowed'
  <1> SUFFICES ASSUME TrustInv, [Next]_vars, Edited = {},
                      NEW c \in CIM, NEW d \in CIM, chat'[c][d].step = "fetch"
               PROVE  Allows(acl'[c][d], call'[chat'[c][d].msg.of].method)
    BY DEF FetchesAllowed, Allows
  <1> USE DEF TrustInv, RouteInv
  <1>1. /\ chat'[c][d].msg = chat[c][d].msg
        /\ chat[c][d].step = "fetch" \/ StartFetch(c, d)
    BY FetchSupply
  <1>2. Allows(acl[c][d], call[chat[c][d].msg.of].method)
    <2>1. CASE chat[c][d].step = "fetch" BY <2>1 DEF FetchesAllowed
    <2>2. CASE StartFetch(c, d) BY <2>2 DEF StartFetch, Authorised, Method
    <2> QED BY <1>1, <2>1, <2>2
  <1>3. chat[c][d] # Idle
    BY <1>1 DEF StartFetch, AtMain, Idle
  <1>4. chat[c][d].msg.of \in Req /\ Issued(chat[c][d].msg.of)
    BY <1>3, HeldIsPending, PendingType DEF Routed, RoutedAt, TypeOK, Msg
  <1>5. call'[chat[c][d].msg.of] = call[chat[c][d].msg.of] BY <1>4, CallKept DEF TypeOK
  <1>6. acl' = acl BY AclKept DEF TypeOK
  <1> QED BY <1>1, <1>2, <1>5, <1>6

\* A message that comes to be pending is about a request the caller's list allows, and if it
\* is data, the callee's too.
LEMMA PendingTrust ==
  ASSUME TrustInv, [Next]_vars, Edited = {}, NEW c \in CIM, NEW d \in CIM, NEW m \in Pending(c, d)'
  PROVE  /\ m.of \in Req /\ Issued(m.of) /\ CallerAllows(m.of)
         /\ m.kind = "data" => CalleeAllows(m.of)
  <1> USE DEF TrustInv, RouteInv
  <1>1. m \in Pending(c, d) \/ Requested(c, d, m) \/ Refused(c, d, m) \/ Fetched(c, d, m)
    BY Supply
  <1>2. CASE m \in Pending(c, d)
    BY <1>2, TrustMeans, PendingType DEF TypeOK, Msg
  <1>3. CASE Requested(c, d, m)
    <2>1. PICK r \in Req : /\ pc[r] = "listening" /\ call[r].from = d /\ call[r].to = c
                           /\ Allows(acl[d][c], call[r].method)
                           /\ m = RequestMsg(r)
      BY <1>3 DEF Requested
    <2>2. m.of = r /\ m.kind = "request" BY <2>1 DEF RequestMsg
    <2> QED BY <2>1, <2>2 DEF Course, CallerAllows
  <1>4. CASE Refused(c, d, m) \/ Fetched(c, d, m)
    <2> DEFINE n == chat[d][c].msg
    <2>1. chat[d][c] # Idle BY <1>4 DEF Refused, Fetched, Idle
    <2>2. n \in Pending(d, c) BY <2>1, HeldIsPending
    <2>3. n.of \in Req /\ Issued(n.of) /\ CallerAllows(n.of) /\ RoutedAt(d, c, n)
      BY <2>2, TrustMeans, PendingType DEF TypeOK, Msg, Routed
    <2>4. m.of = n.of BY <1>4, ReplyIs DEF Refused, Fetched
    <2>5. CASE Refused(c, d, m)
      <3>1. m.kind \in {"refusal", "blank"} BY <2>5, ReplyIs DEF Refused
      <3> HIDE DEF n
      <3> QED BY <2>3, <2>4, <3>1
    <2>6. CASE Fetched(c, d, m)
      <3>1. IsRequest(n) BY <2>6 DEF Fetched, FetchesRequest
      <3>2. Allows(acl[d][c], call[n.of].method) BY <2>6 DEF Fetched, FetchesAllowed
      <3> HIDE DEF n
      <3>3. call[n.of].to = d /\ call[n.of].from = c BY <2>3, <3>1 DEF RoutedAt
      <3>4. CalleeAllows(n.of) BY <3>2, <3>3 DEF CalleeAllows
      <3> QED BY <2>3, <2>4, <3>4
    <2> QED BY <1>4, <2>5, <2>6
  <1> QED BY <1>1, <1>2, <1>3, <1>4

\* Data a client holds, or comes to hold, is about a request the callee's list allows.
LEMMA ResultTrust ==
  ASSUME TrustInv, [Next]_vars, Edited = {}, NEW r \in Req, result'[r].kind = "data"
  PROVE  /\ result'[r].of \in Req /\ Issued(result'[r].of)
         /\ CalleeAllows(result'[r].of)
  <1> USE DEF TrustInv, RouteInv
  <1>1. result'[r] # None BY DEF None
  <1>2. CASE result'[r] = result[r]
    <2>1. CalleeAllows(result[r].of) BY <1>2, TrustMeans
    <2>2. HeardOf(r, result[r]) BY <1>1, <1>2 DEF Heard
    <2>3. result[r].of \in Req BY <1>1, <1>2 DEF TypeOK, ClientType, Result
    <2> QED BY <1>2, <2>1, <2>2, <2>3 DEF HeardOf, Involved
  <1>3. CASE result'[r].kind \in LocalKinds BY <1>3 DEF LocalKinds
  <1>4. ASSUME NEW d \in CIM, call[r].from \in CIM, chat[call[r].from][d] # Idle,
               result'[r] = [kind |-> chat[call[r].from][d].msg.kind,
                             of |-> chat[call[r].from][d].msg.of]
        PROVE  /\ result'[r].of \in Req /\ Issued(result'[r].of)
               /\ CalleeAllows(result'[r].of)
    <2> DEFINE n == chat[call[r].from][d].msg
    <2>1. n \in Pending(call[r].from, d) BY <1>4, HeldIsPending
    <2>2. result'[r].of = n.of /\ n.kind = "data" BY <1>4
    <2>3. n \in Msg BY <1>4, <2>1, PendingType DEF TypeOK
    <2> HIDE DEF n
    <2> QED BY <1>4, <2>1, <2>2, <2>3, TrustMeans DEF Msg
  <1> QED BY <1>1, <1>2, <1>3, <1>4, ResultSupply

LEMMA TrustInit == Init => TrustInv
  <1> SUFFICES ASSUME Init PROVE TrustInv OBVIOUS
  <1>1. RouteInv BY RouteInvInit
  <1>2. \A c, d \in CIM : Pending(c, d) = {} /\ chat[c][d].step # "fetch"
    BY PendingInit DEF Idle
  <1>3. FetchesRequest /\ FetchesAllowed BY <1>2 DEF FetchesRequest, FetchesAllowed
  <1>4. Untouched BY DEF Init, Untouched
  <1>5. \A r \in Req : result[r].kind # "data" BY DEF Init, None
  <1>6. TrustBothWays BY <1>2, <1>5 DEF TrustBothWays
  <1> QED BY <1>1, <1>3, <1>4, <1>6 DEF TrustInv

LEMMA TrustStep == TrustInv /\ [Next]_vars => TrustInv'
  <1> SUFFICES ASSUME TrustInv, [Next]_vars PROVE TrustInv' OBVIOUS
  <1>1. RouteInv' BY RouteInvStep DEF TrustInv
  <1>2. FetchesRequest' BY FetchesRequestStep DEF TrustInv, RouteInv
  <1>3. Untouched'
    <2>1. CASE Edited = {} BY <2>1, AclKept DEF TrustInv, RouteInv, TypeOK
    <2>2. CASE Edited # {} BY <2>2 DEF Untouched
    <2> QED BY <2>1, <2>2
  <1>4. FetchesAllowed' BY FetchesAllowedStep
  <1>5. TrustBothWays'
    <2> SUFFICES ASSUME Edited = {}
                 PROVE  /\ \A c, d \in CIM : \A m \in Pending(c, d)' :
                             /\ Issued(m.of)' /\ CallerAllows(m.of)'
                             /\ m.kind = "data" => CalleeAllows(m.of)'
                        /\ \A r \in Req : result'[r].kind = "data" => CalleeAllows(result[r].of)'
      BY DEF TrustBothWays, CallerAllows, CalleeAllows
    <2>1. acl' = acl BY AclKept DEF TrustInv, RouteInv, TypeOK
    <2>2. \A q \in Req : Issued(q) => Issued(q)' /\ call'[q] = call[q]
      BY CallKept DEF TrustInv, RouteInv, TypeOK
    <2>3. ASSUME NEW c \in CIM, NEW d \in CIM, NEW m \in Pending(c, d)'
          PROVE  /\ Issued(m.of)' /\ CallerAllows(m.of)'
                 /\ m.kind = "data" => CalleeAllows(m.of)'
      BY <2>1, <2>2, <2>3, PendingTrust DEF CallerAllows, CalleeAllows
    <2>4. ASSUME NEW r \in Req, result'[r].kind = "data" PROVE CalleeAllows(result[r].of)'
      BY <2>1, <2>2, <2>4, ResultTrust DEF CalleeAllows
    <2> QED BY <2>3, <2>4
  <1> QED BY <1>1, <1>2, <1>3, <1>4, <1>5 DEF TrustInv

\* Without edits of the lists, data only flows between CIMs that let each other do what the
\* request does: not even a response taken for that of another request, or a restart, carries
\* data past a list (XMPPService 278-284, XmppMessageListener 38-91).
THEOREM TrustIsMutual == Safe => []TrustBothWays
  <1>1. TrustInv => TrustBothWays BY DEF TrustInv
  <1> QED BY <1>1, TrustInit, TrustStep, PTL DEF Safe
-----------------------------------------------------------------------------
(* Status codes.                                                           *)

\* What a client that is told 202 may count on.
Behind(r) == \/ reports[r] # {}
             \/ \E q \in Req : Involved(call[r].from, q) /\ verdicts[q] # {}
Told(r, code) == code = 202 => Issued(r) /\ Behind(r)

\* The code 202 has a reason wherever it is: in a message, in the response object, written.
ReportInv ==
  /\ RouteInv
  /\ \A c, d \in CIM : \A m \in Pending(c, d) : m.code = 202 => verdicts[m.of] # {}
  /\ \A r \in Req : Told(r, status[r]) /\ Told(r, answer[r].status)

LEMMA ReportInit == Init => ReportInv
  <1> SUFFICES ASSUME Init PROVE ReportInv OBVIOUS
  <1>1. RouteInv BY RouteInvInit
  <1>2. \A c, d \in CIM : Pending(c, d) = {} BY PendingInit
  <1>3. \A r \in Req : status[r] = 200 /\ answer[r].status = 0 BY DEF Init, NoAnswer
  <1> QED BY <1>1, <1>2, <1>3 DEF ReportInv, Told

\* Reports and verdicts are never taken back.
LEMMA VerdictsKept ==
  ASSUME WireType, [Next]_vars, NEW q \in Req PROVE verdicts[q] \subseteq verdicts'[q]
  <1>1. ASSUME NEW c \in CIM, NEW d \in CIM, FinishFetch(c, d)
        PROVE  verdicts[q] \subseteq verdicts'[q]
    <2>1. PICK code \in FetchCodes :
            verdicts' = [verdicts EXCEPT ![chat[c][d].msg.of] = @ \cup
                           IF Reports(c, chat[c][d].msg, code) THEN {"reported"}
                           ELSE IF code = 202 THEN {"accepted"} ELSE {}]
      BY <1>1 DEF FinishFetch
    <2> QED BY <2>1 DEF WireType
  <1>2. ASSUME NEW r \in Req, Send(r) PROVE verdicts' = verdicts BY <1>2 DEF Send
  <1>3. ASSUME NEW c \in CIM, NEW d \in CIM,
               Dispatch(c, d) \/ Drop(c, d) \/ Ignore(c, d) \/ Refuse(c, d)
               \/ StartFetch(c, d) \/ FetchThrows(c, d)
        PROVE  verdicts' = verdicts
    BY <1>3 DEF Dispatch, Drop, Ignore, Refuse, StartFetch, FetchThrows
  <1>4. ASSUME NEW c \in CIM, NEW d \in CIM, ListenerStep(c, d) PROVE verdicts' = verdicts
    BY <1>4 DEF ListenerStep, SetResult, SetStatus, Validate
  <1>5. ASSUME NEW c \in CIM, Disconnect(c) \/ Crash(c) PROVE verdicts' = verdicts
    BY <1>5 DEF Disconnect, Crash
  <1>6. UNCHANGED wireVars => verdicts' = verdicts BY DEF wireVars
  <1>7. UNCHANGED vars => verdicts' = verdicts BY <1>6 DEF vars
  <1> QED BY <1>1, <1>2, <1>3, <1>4, <1>5, <1>6, <1>7, ClientFrame, SessionFrame
          DEF Next, RequestStep, ChatStep, MainStep

LEMMA ReportsKept ==
  ASSUME ClientType, [Next]_vars, NEW r \in Req PROVE reports[r] \subseteq reports'[r]
  <1>1. ASSUME NEW q \in Req, Issue(q) \/ RequestStep(q) PROVE reports' = reports
    BY <1>1 DEF Issue, RequestStep, Register, Send, Timeout, Commit
  <1>2. ASSUME NEW c \in CIM, NEW d \in CIM, NEW q \in Req, SetResult(c, d, q) \/ SetStatus(c, d, q)
        PROVE  reports' = reports
    BY <1>2 DEF SetResult, SetStatus
  <1>3. ASSUME NEW c \in CIM, NEW d \in CIM, NEW q \in Req, Validate(c, d, q)
        PROVE  reports[r] \subseteq reports'[r]
    BY <1>3 DEF Validate, ClientType
  <1>4. ASSUME NEW c \in CIM, Crash(c) PROVE reports' = reports BY <1>4 DEF Crash
  <1>5. UNCHANGED clientVars => reports' = reports BY DEF clientVars
  <1>6. UNCHANGED vars => reports' = reports BY <1>5 DEF vars
  <1> QED BY <1>1, <1>2, <1>3, <1>4, <1>5, <1>6, ChatFrame, SessionFrame
          DEF Next, ChatStep, ListenerStep

LEMMA BehindKept ==
  ASSUME RouteInv, [Next]_vars, NEW r \in Req, Issued(r), Behind(r)
  PROVE  Issued(r)' /\ Behind(r)'
  <1> USE DEF RouteInv, TypeOK
  <1>1. Issued(r)' /\ call'[r] = call[r] BY CallKept
  <1>2. CASE reports[r] # {} BY <1>1, <1>2, ReportsKept DEF Behind
  <1>3. ASSUME NEW q \in Req, Involved(call[r].from, q), verdicts[q] # {}
        PROVE  Involved(call[r].from, q)' /\ verdicts'[q] # {}
    <2>1. Issued(q)' /\ call'[q] = call[q] BY <1>3, CallKept DEF Involved
    <2>2. verdicts'[q] # {} BY <1>3, VerdictsKept
    <2> QED BY <1>1, <1>3, <2>1, <2>2 DEF Involved
  <1> QED BY <1>1, <1>2, <1>3 DEF Behind

\* A message that comes to be pending with code 202 has a verdict behind it.
LEMMA PendingReported ==
  ASSUME ReportInv, [Next]_vars, NEW c \in CIM, NEW d \in CIM, NEW m \in Pending(c, d)',
         m.code = 202
  PROVE  verdicts'[m.of] # {}
  <1>1. m \in Pending(c, d) \/ Requested(c, d, m) \/ Refused(c, d, m) \/ Fetched(c, d, m)
    BY Supply DEF ReportInv, RouteInv
  <1>2. CASE m \in Pending(c, d)
    <2>1. m.of \in Req BY <1>2, PendingType DEF ReportInv, RouteInv, TypeOK, Msg
    <2>2. verdicts[m.of] # {} BY <1>2 DEF ReportInv
    <2> QED BY <2>1, <2>2, VerdictsKept DEF ReportInv, RouteInv, TypeOK
  <1>3. CASE Requested(c, d, m) BY <1>3 DEF Requested, RequestMsg
  <1>4. CASE Refused(c, d, m) BY <1>4 DEF Refused, Reply
  <1>5. CASE Fetched(c, d, m) BY <1>5 DEF Fetched
  <1> QED BY <1>1, <1>2, <1>3, <1>4, <1>5

\* A code that is not 202 may be put anywhere.
LEMMA PutOther ==
  ASSUME ClientType, NEW q, NEW code, code # 202, PutStatus(q, code), NEW r \in Req,
         status'[r] = 202
  PROVE  status[r] = 202
  BY DEF PutStatus, ClientType

\* A response listener that runs is that of an issued request of its CIM.
LEMMA RunsAtHome ==
  ASSUME RouteInv, NEW c \in CIM, NEW d \in CIM, NEW q \in Req, NEW step,
         AtListener(c, d, q, step), step \in {"status", "validate"}
  PROVE  /\ Issued(q) /\ call[q].from = c
         /\ chat[c][d].msg \in Pending(c, d) /\ chat[c][d].msg \in Msg
  <1>1. chat[c][d] \in Busy /\ Head(chat[c][d].todo) = q
    BY StepIsBusy DEF AtListener, RouteInv, TypeOK
  <1>2. q \in Elements(chat[c][d].todo) BY <1>1, ElementsTail DEF Busy
  <1>3. chat[c][d] # Idle BY <1>1 DEF Busy, Idle
  <1> QED BY <1>1, <1>2, <1>3, HeldIsPending DEF RouteInv, Homed, Busy

\* Where a status 202 comes from.
LEMMA StatusSupply ==
  ASSUME ReportInv, [Next]_vars, NEW r \in Req, status'[r] = 202
  PROVE  Issued(r) /\ (Behind(r) \/ reports'[r] # {})
  <1> USE DEF RouteInv, TypeOK
  <1> DEFINE Goal == Issued(r) /\ (Behind(r) \/ reports'[r] # {})
  <1>0. RouteInv BY DEF ReportInv
  <1>1. status[r] = 202 => Goal BY DEF ReportInv, Told
  <1> HIDE DEF Goal
  <1>2. ASSUME NEW q \in Req, Issue(q) \/ Register(q) \/ Send(q) \/ Timeout(q) \/ Commit(q)
        PROVE  status[r] = 202
    BY <1>0, <1>2 DEF Issue, Register, Send, Timeout, Commit, Return, ClientType
  <1>3. ASSUME NEW c \in CIM, NEW d \in CIM, NEW q \in Req, SetStatus(c, d, q) PROVE Goal
    <2> DEFINE m == chat[c][d].msg
    <2>1. Issued(q) /\ call[q].from = c /\ m \in Pending(c, d) /\ m \in Msg
      BY <1>0, <1>3, RunsAtHome DEF SetStatus
    <2>2. PutStatus(q, m.code) BY <1>3 DEF SetStatus
    <2> HIDE DEF m
    <2>3. CASE m.code # 202 BY <1>0, <1>1, <2>2, <2>3, PutOther
    <2>4. CASE q # r
      <3>1. status'[r] = status[r] BY <1>0, <2>2, <2>4 DEF PutStatus, ClientType
      <3> QED BY <1>1, <3>1
    <2>5. CASE m.code = 202 /\ q = r
      <3>1. verdicts[m.of] # {} BY <2>1, <2>5 DEF ReportInv
      <3>2. RoutedAt(c, d, m) BY <1>0, <2>1 DEF Routed
      <3>3. m.of \in Req /\ Involved(c, m.of) BY <2>1, <3>2 DEF RoutedAt, Involved, Msg
      <3>4. call[r].from = c BY <2>1, <2>5
      <3>5. Behind(r) BY <3>1, <3>3, <3>4 DEF Behind
      <3> QED BY <2>1, <2>5, <3>5 DEF Goal
    <2> QED BY <2>3, <2>4, <2>5
  <1>4. ASSUME NEW c \in CIM, NEW d \in CIM, NEW q \in Req, Validate(c, d, q) PROVE Goal
    <2>1. Issued(q) BY <1>0, <1>4, RunsAtHome DEF Validate
    <2>2. CASE UNCHANGED <<reports, status>> BY <1>1, <2>2
    <2>3. CASE /\ reports' = [reports EXCEPT ![q] = @ \cup {chat[c][d].msg.of}]
               /\ PutStatus(q, 202)
      <3>1. q = r => reports'[r] # {} BY <1>0, <2>3 DEF ClientType
      <3>2. q # r => status'[r] = status[r] BY <1>0, <2>3 DEF PutStatus, ClientType
      <3> QED BY <1>1, <2>1, <3>1, <3>2 DEF Goal
    <2> QED BY <1>4, <2>2, <2>3 DEF Validate
  <1>5. ASSUME NEW c \in CIM, NEW d \in CIM, NEW q \in Req, SetResult(c, d, q)
        PROVE  status' = status
    BY <1>5 DEF SetResult
  <1>6. ASSUME NEW c \in CIM, Crash(c) PROVE status' = status BY <1>6 DEF Crash
  <1>7. UNCHANGED clientVars => status' = status BY DEF clientVars
  <1>8. UNCHANGED vars => status' = status BY <1>7 DEF vars
  <1>9. Goal
    BY <1>1, <1>2, <1>3, <1>4, <1>5, <1>6, <1>7, <1>8, ChatFrame, SessionFrame
       DEF Next, RequestStep, ChatStep, ListenerStep
  <1> QED BY <1>9 DEF Goal

\* A code 202 is written only if it was in the response object.
LEMMA AnswerSupply ==
  ASSUME ClientType, [Next]_vars, NEW r \in Req, answer'[r].status = 202
  PROVE  answer[r].status = 202 \/ status[r] = 202
  <1>1. ASSUME NEW q \in Req, Issue(q) \/ Register(q) \/ Send(q) \/ Timeout(q)
        PROVE  answer' = answer
    BY <1>1 DEF Issue, Register, Send, Timeout
  <1>2. ASSUME NEW q \in Req, Commit(q) PROVE answer[r].status = 202 \/ status[r] = 202
    BY <1>2 DEF Commit, ClientType
  <1>3. ASSUME NEW c \in CIM, NEW d \in CIM, ListenerStep(c, d) PROVE answer' = answer
    BY <1>3 DEF ListenerStep, SetResult, SetStatus, Validate
  <1>4. ASSUME NEW c \in CIM, Crash(c) PROVE answer[r].status = 202
    BY <1>4 DEF Crash, Aborted
  <1>5. UNCHANGED clientVars => answer' = answer BY DEF clientVars
  <1>6. UNCHANGED vars => answer' = answer BY <1>5 DEF vars
  <1> QED BY <1>1, <1>2, <1>3, <1>4, <1>5, <1>6, ChatFrame, SessionFrame
          DEF Next, RequestStep, ChatStep

LEMMA ReportStep == ReportInv /\ [Next]_vars => ReportInv'
  <1> SUFFICES ASSUME ReportInv, [Next]_vars PROVE ReportInv' OBVIOUS
  <1>1. RouteInv' BY RouteInvStep DEF ReportInv
  <1>2. \A c, d \in CIM : \A m \in Pending(c, d)' : m.code = 202 => verdicts'[m.of] # {}
    BY PendingReported
  <1>3. ASSUME NEW r \in Req, status'[r] = 202 \/ answer'[r].status = 202
        PROVE  Issued(r)' /\ Behind(r)'
    <2>1. RouteInv /\ ClientType BY DEF ReportInv, RouteInv, TypeOK
    <2>2. Issued(r) /\ (Behind(r) \/ reports'[r] # {})
      <3>1. CASE status'[r] = 202 BY <3>1, StatusSupply
      <3>2. CASE answer'[r].status = 202
        <4>1. answer[r].status = 202 \/ status[r] = 202 BY <2>1, <3>2, AnswerSupply
        <4> QED BY <4>1 DEF ReportInv, Told
      <3> QED BY <1>3, <3>1, <3>2
    <2>3. CASE Behind(r) BY <2>1, <2>2, <2>3, BehindKept
    <2>4. CASE reports'[r] # {}
      <3>1. Issued(r)' BY <2>1, <2>2, CallKept DEF RouteInv
      <3> QED BY <2>4, <3>1 DEF Behind
    <2> QED BY <2>2, <2>3, <2>4
  <1> QED BY <1>1, <1>2, <1>3 DEF ReportInv, Told

\* Whatever races with the writing of a response, a client that is told 202 has a report under
\* its own request, or its CIM takes part in a request whose data another CIM, or this one,
\* filed a report about when it fetched them or whose endpoint answered 202 itself
\* (RequestProcessor 131-136, XmppMessageListener 72, XMPPService 265-268).
THEOREM ReportsBehind202 == Safe => []ReportBehind202
  <1>1. ReportInv => ReportBehind202 BY DEF ReportInv, Told, Behind, ReportBehind202
  <1> QED BY <1>1, ReportInit, ReportStep, PTL DEF Safe

-----------------------------------------------------------------------------
(* The promise to each client.                                             *)

LEMMA LifecycleInit == Init => Lifecycle!Init
  BY DEF Init, Lifecycle!Init, Issued

LEMMA LifecycleStep ==
  TypeOK /\ Course /\ [Next]_vars => [Lifecycle!Next]_<<{r \in Req : Issued(r)}, answer>>
  <1> DEFINE issued == {r \in Req : Issued(r)}
             Goal == Lifecycle!Next \/ (issued' = issued /\ answer' = answer)
  <1> SUFFICES ASSUME TypeOK, Course, [Next]_vars PROVE Goal OBVIOUS
  <1> USE DEF TypeOK, ClientType
  <1>1. call' = call => issued' = issued BY DEF Issued
  <1>2. call' = call /\ answer' = answer => Goal BY <1>1
  <1>3. ASSUME NEW q \in Req, Issue(q) PROVE Goal
    <2>1. PICK k \in Calls : call' = [call EXCEPT ![q] = k] BY <1>3 DEF Issue
    <2>2. ~Issued(q) BY <1>3 DEF Issue, Course
    <2>3. \A r \in Req : Issued(r)' <=> Issued(r) \/ r = q BY <2>1, CallIsCall DEF Issued
    <2>4. issued' = issued \cup {q} BY <2>3
    <2>5. answer' = answer BY <1>3 DEF Issue
    <2>6. Lifecycle!Accept(q) BY <2>2, <2>4, <2>5 DEF Lifecycle!Accept
    <2> QED BY <2>6 DEF Lifecycle!Next
  <1>4. ASSUME NEW q \in Req, Register(q) \/ Send(q) \/ Timeout(q) PROVE Goal
    BY <1>2, <1>4 DEF Register, Send, Timeout
  <1>5. ASSUME NEW q \in Req, Commit(q) PROVE Goal
    <2>1. call' = call /\ pc[q] = "returned" /\ answer[q] = NoAnswer /\ result[q] # None
      BY <1>5 DEF Commit
    <2>2. Issued(q) BY <2>1 DEF Course
    <2>3. \E code \in Statuses :
            answer' = [answer EXCEPT ![q] = [body |-> result[q], status |-> code]]
      <3>1. 503 \in Statuses /\ status[q] \in Statuses BY DEF Statuses
      <3> QED BY <1>5, <3>1 DEF Commit
    <2>4. Lifecycle!Reply(q)
      BY <1>1, <2>1, <2>2, <2>3 DEF Lifecycle!Reply, Lifecycle!Open
    <2> QED BY <2>4 DEF Lifecycle!Next
  <1>6. ASSUME NEW c \in CIM, NEW d \in CIM, ListenerStep(c, d) PROVE Goal
    BY <1>2, <1>6 DEF ListenerStep, SetResult, SetStatus, Validate
  <1>7. ASSUME NEW c \in CIM, Crash(c) PROVE Goal
    <2> DEFINE gone == {r \in Req : /\ call[r] # NoCall /\ call[r].from = c
                                    /\ answer[r] = NoAnswer}
    <2>1. call' = call BY <1>7 DEF Crash
    <2>2. answer' = [r \in Req |-> IF r \in gone THEN Aborted ELSE answer[r]]
      BY <1>7 DEF Crash
    <2>3. gone \subseteq {r \in Req : Lifecycle!Open(r)} BY DEF Lifecycle!Open, Issued
    <2>4. Lifecycle!Break BY <1>1, <2>1, <2>2, <2>3 DEF Lifecycle!Break
    <2> QED BY <2>4 DEF Lifecycle!Next
  <1>8. UNCHANGED clientVars => Goal BY <1>2 DEF clientVars
  <1>9. UNCHANGED vars => Goal BY <1>8 DEF vars
  <1> HIDE DEF Goal
  <1> QED
    BY <1>3, <1>4, <1>5, <1>6, <1>7, <1>8, <1>9, ChatFrame, SessionFrame
       DEF Next, RequestStep, ChatStep

\* The exchange implements the safety part of RequestLifecycle: a client is answered at most
\* once, with a result that was set, or loses its connection with the process.
THEOREM ImplementsLifecycle == Safe => Lifecycle!Safe
  BY RouteInvariant, LifecycleInit, LifecycleStep, PTL DEF Safe, Lifecycle!Safe, RouteInv
=============================================================================
