------------------------- MODULE CimExchangeSafety -------------------------
(***************************************************************************)
(* Safety of CimExchange for every set of CIMs, requests and events.  All  *)
(* the invariants below are about the messages that are pending; lemma     *)
(* Supply says once where a pending message can come from.                 *)
(***************************************************************************)
EXTENDS CimExchangeProofs

Elements(s) == {s[i] : i \in 1 .. Len(s)}

LEMMA ElementsAppend ==
  ASSUME NEW S, NEW s \in Seq(S), NEW e \in S
  PROVE  Elements(Append(s, e)) \subseteq Elements(s) \cup {e}
  <1> SUFFICES ASSUME NEW i \in 1 .. Len(Append(s, e))
               PROVE  Append(s, e)[i] \in Elements(s) \cup {e}
    BY DEF Elements
  <1>1. Len(s) \in Nat /\ Len(Append(s, e)) = Len(s) + 1 BY AppendProperties, LenProperties
  <1>2. CASE i \in 1 .. Len(s) BY <1>2, AppendProperties DEF Elements
  <1>3. CASE i = Len(s) + 1 BY <1>3, AppendProperties
  <1> QED BY <1>1, <1>2, <1>3

LEMMA ElementsTail ==
  ASSUME NEW S, NEW s \in Seq(S), s # <<>>
  PROVE  Elements(Tail(s)) \subseteq Elements(s) /\ Head(s) \in Elements(s)
  <1>1. /\ Len(s) \in Nat /\ Len(s) > 0
    BY EmptySeq, LenProperties
  <1>2. /\ Len(Tail(s)) = Len(s) - 1
        /\ \A i \in 1 .. Len(Tail(s)) : Tail(s)[i] = s[i + 1]
    BY HeadTailProperties
  <1>3. ASSUME NEW i \in 1 .. Len(Tail(s)) PROVE Tail(s)[i] \in Elements(s)
    <2>1. i + 1 \in 1 .. Len(s) BY <1>1, <1>2
    <2> QED BY <1>2, <2>1 DEF Elements
  <1>4. Head(s) = s[1] OBVIOUS
  <1> QED BY <1>1, <1>3, <1>4 DEF Elements

LEMMA PendingDef ==
  ASSUME NEW c, NEW d
  PROVE  Pending(c, d) = Elements(net[c][d])
                         \cup (IF chat[c][d] = Idle THEN {} ELSE {chat[c][d].msg})
  BY DEF Pending, Elements

LEMMA PendingType ==
  ASSUME WireType, NEW c \in CIM, NEW d \in CIM PROVE Pending(c, d) \subseteq Msg
  <1>1. net[c][d] \in Seq(Msg) /\ chat[c][d] \in Busy \cup {Idle} BY DEF WireType
  <1>2. \A i \in 1 .. Len(net[c][d]) : net[c][d][i] \in Msg BY <1>1, ElementOfSeq
  <1> QED BY <1>1, <1>2 DEF Pending, Busy

\* Posting a message makes no other message pending.
LEMMA PendingPost ==
  ASSUME WireType, NEW x, NEW y, NEW e \in Msg, net' = Post(x, y, e),
         NEW c \in CIM, NEW d \in CIM,
         NEW m \in Elements(net'[c][d])
  PROVE  m \in Elements(net[c][d]) \/ (m = e /\ c = y /\ d = x)
  <1>1. net[c][d] \in Seq(Msg) BY DEF WireType
  <1>2. CASE c = y /\ d = x
    <2>1. net'[c][d] = Append(net[c][d], e) BY <1>2 DEF Post, WireType
    <2> QED BY <1>1, <1>2, <2>1, ElementsAppend
  <1>3. CASE ~(c = y /\ d = x)
    <2>1. net'[c][d] = net[c][d] BY <1>3 DEF Post, WireType
    <2> QED BY <2>1
  <1> QED BY <1>2, <1>3

\* A worker holds the message it held, or is idle.
LEMMA RestMsg ==
  ASSUME NEW h \in Busy PROVE Rest(h) = Idle \/ Rest(h).msg = h.msg
  BY DEF Rest, Busy

LEMMA NextListenerMsg ==
  ASSUME WireType, NEW x \in CIM, NEW y \in CIM, chat[x][y] \in Busy, NextListener(x, y),
         NEW c \in CIM, NEW d \in CIM
  PROVE  chat'[c][d] = Idle \/ (chat[c][d] # Idle /\ chat'[c][d].msg = chat[c][d].msg)
  <1>1. CASE c = x /\ d = y
    <2>1. chat'[c][d] = Rest(chat[c][d]) BY <1>1 DEF NextListener, WireType
    <2>2. chat[c][d] # Idle BY <1>1 DEF Busy, Idle
    <2> QED BY <1>1, <2>1, <2>2, RestMsg
  <1>2. CASE ~(c = x /\ d = y)
    <2>1. chat'[c][d] = chat[c][d] BY <1>2 DEF NextListener, WireType
    <2> QED BY <2>1
  <1> QED BY <1>1, <1>2

\* Where a pending message can come from: the caller's send ...
Requested(c, d, m) ==
  \E r \in Req : /\ pc[r] = "listening" /\ call[r].from = d /\ call[r].to = c
                 /\ Allows(acl[d][c], call[r].method)
                 /\ m = RequestMsg(r)
\* ... a refusal of the message a worker holds ...
Refused(c, d, m) ==
  /\ chat[d][c] # Idle /\ ~Destroy(chat[d][c].msg)
  /\ m = Reply(d, chat[d][c].msg, "refusal", 401)
\* ... or the data a worker fetched, for which a code 202 has a reason.
Fetched(c, d, m) ==
  /\ chat[d][c].step = "fetch"
  /\ \E code \in {202} \cup FetchCodes : m = Reply(d, chat[d][c].msg, "data", code)
  /\ m.code = 202 => verdicts'[m.of] # {}

\* Nothing else makes a message pending.
LEMMA Supply ==
  ASSUME TypeOK, [Next]_vars, NEW c \in CIM, NEW d \in CIM, NEW m \in Pending(c, d)'
  PROVE  m \in Pending(c, d) \/ Requested(c, d, m) \/ Refused(c, d, m) \/ Fetched(c, d, m)
  <1> USE DEF TypeOK
  <1> DEFINE Goal == \/ m \in Pending(c, d) \/ Requested(c, d, m)
                     \/ Refused(c, d, m) \/ Fetched(c, d, m)
  <1>0. m \in Elements(net'[c][d]) \/ (chat'[c][d] # Idle /\ m = chat'[c][d].msg)
    BY DEF Pending, Elements
  <1>1. /\ m \in Elements(net[c][d]) => Goal
        /\ chat[c][d] # Idle /\ m = chat[c][d].msg => Goal
    BY DEF Pending, Elements
  <1> HIDE DEF Goal
  <1>2. ASSUME UNCHANGED wireVars PROVE Goal BY <1>0, <1>1, <1>2 DEF wireVars
  <1>3. ASSUME NEW r \in Req, Send(r) PROVE Goal
    <2>1. chat' = chat BY <1>3 DEF Send
    <2>2. RequestMsg(r) \in Msg BY ConstantAssumption DEF RequestMsg, Msg, Kinds
    <2>3. net' = net \/ (/\ net' = Post(call[r].from, call[r].to, RequestMsg(r))
                         /\ pc[r] = "listening"
                         /\ Allows(acl[call[r].from][call[r].to], call[r].method))
      BY <1>3 DEF Send
    <2>4. CASE net' = net BY <1>0, <1>1, <2>1, <2>4
    <2>5. CASE m \in Elements(net'[c][d]) /\ net' # net
      <3>1. m \in Elements(net[c][d]) \/ (m = RequestMsg(r) /\ c = call[r].to /\ d = call[r].from)
        BY <2>2, <2>3, <2>5, PendingPost
      <3>2. CASE m \in Elements(net[c][d]) BY <1>1, <3>2
      <3>3. CASE m = RequestMsg(r) /\ c = call[r].to /\ d = call[r].from
        BY <2>3, <2>5, <3>3 DEF Goal, Requested
      <3> QED BY <3>1, <3>2, <3>3
    <2> QED BY <1>0, <1>1, <2>1, <2>4, <2>5
  <1>4. ASSUME NEW x \in CIM, NEW y \in CIM, Dispatch(x, y) \/ Drop(x, y) PROVE Goal
    <2>1. net[x][y] \in Seq(Msg) /\ net[x][y] # <<>> /\ net' = [net EXCEPT ![x][y] = Tail(@)]
      BY <1>4 DEF Dispatch, Drop, WireType
    <2>2. Elements(Tail(net[x][y])) \subseteq Elements(net[x][y])
          /\ Head(net[x][y]) \in Elements(net[x][y])
      BY <2>1, ElementsTail
    <2>3. Elements(net'[c][d]) \subseteq Elements(net[c][d])
      <3>1. CASE c = x /\ d = y BY <2>1, <2>2, <3>1 DEF WireType
      <3>2. CASE ~(c = x /\ d = y)
        <4>1. net'[c][d] = net[c][d] BY <2>1, <3>2 DEF WireType
        <4> QED BY <4>1
      <3> QED BY <3>1, <3>2
    <2>4. CASE chat' = chat BY <1>0, <1>1, <2>3, <2>4
    <2>5. CASE Dispatch(x, y) /\ c = x /\ d = y
      <3>1. chat'[c][d] # Idle => chat'[c][d].msg = Head(net[x][y])
        BY <2>5 DEF Dispatch, WireType
      <3> QED BY <1>0, <1>1, <2>2, <2>3, <2>5, <3>1
    <2>6. CASE Dispatch(x, y) /\ ~(c = x /\ d = y)
      <3>1. chat'[c][d] = chat[c][d] BY <2>6 DEF Dispatch, WireType
      <3> QED BY <1>0, <1>1, <2>3, <3>1
    <2> QED BY <1>4, <2>4, <2>5, <2>6 DEF Drop
  <1>5. ASSUME NEW x \in CIM, NEW y \in CIM, MainStep(x, y) PROVE Goal
    <2>1. chat[x][y] \in Busy BY <1>5, MainIsBusy
    <2>2. chat[x][y].msg \in Msg /\ chat[x][y] # Idle BY <2>1 DEF Busy, Idle
    <2>3. CASE Ignore(x, y) \/ FetchThrows(x, y)
      <3>1. chat'[c][d] = Idle \/ (chat[c][d] # Idle /\ chat'[c][d].msg = chat[c][d].msg)
        BY <2>1, <2>3, NextListenerMsg DEF Ignore, FetchThrows
      <3>2. net' = net BY <2>3 DEF Ignore, FetchThrows
      <3> QED BY <1>0, <1>1, <3>1, <3>2
    <2>4. CASE StartFetch(x, y)
      <3>1. chat'[c][d] = chat[c][d] \/ (chat[c][d] # Idle /\ chat'[c][d].msg = chat[c][d].msg)
        BY <2>2, <2>4 DEF StartFetch, WireType
      <3>2. net' = net BY <2>4 DEF StartFetch
      <3> QED BY <1>0, <1>1, <3>1, <3>2
    <2>5. ASSUME NEW e \in Msg, Answer(x, y, e), NextListener(x, y),
                 c = y /\ d = x /\ m = e => Goal
          PROVE  Goal
      <3>1. chat'[c][d] = Idle \/ (chat[c][d] # Idle /\ chat'[c][d].msg = chat[c][d].msg)
        BY <2>1, <2>5, NextListenerMsg
      <3>2. net' = net \/ net' = Post(x, y, e) BY <2>5 DEF Answer
      <3>3. m \in Elements(net'[c][d]) => m \in Elements(net[c][d]) \/ (m = e /\ c = y /\ d = x)
        BY <3>2, PendingPost
      <3> QED BY <1>0, <1>1, <2>5, <3>1, <3>3
    <2>6. CASE Refuse(x, y)
      <3>1. Reply(x, chat[x][y].msg, "refusal", 401) \in Msg BY <2>2, ReplyType
      <3>2. c = y /\ d = x /\ m = Reply(x, chat[x][y].msg, "refusal", 401) => Goal
        BY <2>2, <2>6 DEF Refuse, Refused, Goal
      <3> QED BY <2>5, <2>6, <3>1, <3>2 DEF Refuse
    <2>7. CASE FinishFetch(x, y)
      <3> DEFINE n == chat[x][y].msg
      <3>1. PICK code \in FetchCodes, sent \in {202} \cup FetchCodes :
              /\ sent = IF Reports(x, n, code) THEN 202 ELSE code
              /\ Answer(x, y, Reply(x, n, "data", sent))
              /\ verdicts' = [verdicts EXCEPT ![n.of] = @ \cup
                    IF Reports(x, n, code) THEN {"reported"}
                    ELSE IF code = 202 THEN {"accepted"} ELSE {}]
        BY <2>7 DEF FinishFetch
      <3>2. Reply(x, n, "data", sent) \in Msg
        <4>1. n \in Msg /\ sent \in {200, 202, 401} \cup FetchCodes BY <2>2
        <4> HIDE DEF n
        <4> QED BY <4>1, ReplyType
      <3>3. ASSUME c = y, d = x, m = Reply(x, n, "data", sent) PROVE Goal
        <4>1. m.of = n.of /\ n.of \in Req BY <2>2, <3>3 DEF Reply, Msg
        <4>2. m.code = 202 => sent = 202 BY <3>3 DEF Reply
        <4>3. sent = 202 => verdicts'[n.of] # {}
          <5> HIDE DEF n
          <5>1. n.of \in Req /\ verdicts \in [Req -> SUBSET {"reported", "accepted"}]
            BY <4>1 DEF WireType
          <5>2. CASE Reports(x, n, code) BY <3>1, <5>1, <5>2
          <5>3. CASE ~Reports(x, n, code) BY <3>1, <5>1, <5>3
          <5> QED BY <5>2, <5>3
        <4>4. chat[d][c].step = "fetch" BY <2>7, <3>3 DEF FinishFetch, AtMain
        <4>5. Fetched(c, d, m) BY <3>3, <4>1, <4>2, <4>3, <4>4 DEF Fetched
        <4> QED BY <4>5 DEF Goal
      <3> QED BY <2>5, <2>7, <3>1, <3>2, <3>3 DEF FinishFetch
    <2> QED BY <1>5, <2>3, <2>4, <2>6, <2>7 DEF MainStep
  <1>6. ASSUME NEW x \in CIM, NEW y \in CIM, NEW r \in Req,
               SetResult(x, y, r) \/ SetStatus(x, y, r) \/ Validate(x, y, r)
        PROVE  Goal
    <2>1. chat[x][y] \in Busy BY <1>6, StepIsBusy DEF SetResult, SetStatus, Validate, AtListener
    <2>2. chat[x][y] # Idle BY <2>1 DEF Busy, Idle
    <2>3. net' = net BY <1>6 DEF SetResult, SetStatus, Validate
    <2>4. chat'[c][d] = chat[c][d] \/ chat'[c][d] = Idle
          \/ (chat[c][d] # Idle /\ chat'[c][d].msg = chat[c][d].msg)
      <3>1. CASE SetResult(x, y, r) BY <2>2, <3>1 DEF SetResult, WireType
      <3>2. CASE SetStatus(x, y, r) BY <2>2, <3>2 DEF SetStatus, WireType
      <3>3. CASE Validate(x, y, r) BY <2>1, <3>3, NextListenerMsg DEF Validate
      <3> QED BY <1>6, <3>1, <3>2, <3>3
    <2> QED BY <1>0, <1>1, <2>3, <2>4
  <1>7. ASSUME NEW x \in CIM, Disconnect(x) \/ Crash(x) PROVE Goal
    <2>1. net' = net BY <1>7 DEF Disconnect, Crash
    <2>2. chat'[c][d] = chat[c][d] \/ chat'[c][d] = Idle
          \/ chat'[c][d] = [chat[c][d] EXCEPT !.live = FALSE]
      <3>1. CASE Crash(x) BY <3>1 DEF Crash, WireType
      <3>2. CASE Disconnect(x) /\ c = x
        <4>1. chat'[x] = CutChats(x) BY <3>2 DEF Disconnect, WireType
        <4> QED BY <3>2, <4>1 DEF CutChats
      <3>3. CASE Disconnect(x) /\ c # x
        <4>1. chat'[c] = chat[c] BY <3>3 DEF Disconnect, WireType
        <4> QED BY <4>1
      <3> QED BY <1>7, <3>1, <3>2, <3>3
    <2>3. chat'[c][d] = [chat[c][d] EXCEPT !.live = FALSE]
            => chat'[c][d] = Idle \/ (chat[c][d] # Idle /\ chat'[c][d].msg = chat[c][d].msg)
      <3>1. CASE chat[c][d] = Idle BY <3>1, CutIdle
      <3>2. CASE chat[c][d] \in Busy BY <3>2 DEF Busy, Idle
      <3> QED BY <3>1, <3>2 DEF WireType
    <2> QED BY <1>0, <1>1, <2>1, <2>2, <2>3
  <1>8. ASSUME UNCHANGED vars PROVE Goal BY <1>2, <1>8 DEF vars
  <1>9. Goal BY <1>2, <1>3, <1>4, <1>5, <1>6, <1>7, <1>8, ClientFrame, SessionFrame
             DEF Next, RequestStep, ChatStep, ListenerStep
  <1> QED BY <1>9 DEF Goal

\* A worker that fetches started to fetch the message it holds, or goes on fetching it.
LEMMA FetchSupply ==
  ASSUME TypeOK, [Next]_vars, NEW c \in CIM, NEW d \in CIM, chat'[c][d].step = "fetch"
  PROVE  /\ chat'[c][d].msg = chat[c][d].msg
         /\ chat[c][d].step = "fetch" \/ StartFetch(c, d)
  <1> USE DEF TypeOK
  <1> DEFINE Goal == /\ chat'[c][d].msg = chat[c][d].msg
                     /\ chat[c][d].step = "fetch" \/ StartFetch(c, d)
  <1>1. chat'[c][d] = chat[c][d] => Goal OBVIOUS
  <1> HIDE DEF Goal
  <1>2. Idle.step # "fetch" BY DEF Idle
  <1>3. ASSUME UNCHANGED wireVars PROVE Goal BY <1>1, <1>3 DEF wireVars
  <1>4. ASSUME NEW r \in Req, Send(r) PROVE Goal BY <1>1, <1>4 DEF Send
  <1>5. ASSUME NEW x \in CIM, NEW y \in CIM, Dispatch(x, y) \/ Drop(x, y) PROVE Goal
    <2>1. CASE Drop(x, y) BY <1>1, <2>1 DEF Drop
    <2>2. CASE Dispatch(x, y) /\ c = x /\ d = y
      BY <1>2, <2>2 DEF Dispatch, WireType
    <2>3. CASE Dispatch(x, y) /\ ~(c = x /\ d = y)
      BY <1>1, <2>3 DEF Dispatch, WireType
    <2> QED BY <1>5, <2>1, <2>2, <2>3
  <1>6. ASSUME NEW x \in CIM, NEW y \in CIM, chat[x][y] \in Busy, NextListener(x, y)
        PROVE  Goal
    <2>1. CASE c = x /\ d = y
      <3>1. chat'[c][d] = Rest(chat[c][d]) BY <1>6, <2>1 DEF NextListener, WireType
      <3>2. Rest(chat[c][d]) = Idle \/ Rest(chat[c][d]).step = "next"
        BY <1>6, <2>1 DEF Rest, Busy
      <3> QED BY <1>2, <3>1, <3>2
    <2>2. CASE ~(c = x /\ d = y) BY <1>1, <1>6, <2>2 DEF NextListener, WireType
    <2> QED BY <2>1, <2>2
  <1>7. ASSUME NEW x \in CIM, NEW y \in CIM, MainStep(x, y) PROVE Goal
    <2>1. chat[x][y] \in Busy BY <1>7, MainIsBusy
    <2>2. CASE StartFetch(x, y) /\ c = x /\ d = y
      BY <2>1, <2>2 DEF StartFetch, WireType, Busy, Goal
    <2>3. CASE StartFetch(x, y) /\ ~(c = x /\ d = y)
      BY <1>1, <2>3 DEF StartFetch, WireType
    <2> QED BY <1>6, <1>7, <2>1, <2>2, <2>3
        DEF MainStep, Ignore, Refuse, FinishFetch, FetchThrows
  <1>8. ASSUME NEW x \in CIM, NEW y \in CIM, NEW r \in Req,
               SetResult(x, y, r) \/ SetStatus(x, y, r) \/ Validate(x, y, r)
        PROVE  Goal
    <2>1. chat[x][y] \in Busy BY <1>8, StepIsBusy DEF SetResult, SetStatus, Validate, AtListener
    <2>2. CASE SetResult(x, y, r) \/ SetStatus(x, y, r)
      <3>1. CASE c = x /\ d = y
        <4>1. chat'[c][d].step \in {"status", "validate"}
          BY <2>1, <2>2, <3>1 DEF SetResult, SetStatus, WireType, Busy
        <4> QED BY <4>1
      <3>2. CASE ~(c = x /\ d = y)
        <4>1. \E s \in {"status", "validate"} : chat' = [chat EXCEPT ![x][y].step = s]
          BY <2>2 DEF SetResult, SetStatus
        <4>2. chat'[c][d] = chat[c][d] BY <3>2, <4>1 DEF WireType
        <4> QED BY <1>1, <4>2
      <3> QED BY <3>1, <3>2
    <2> QED BY <1>6, <1>8, <2>1, <2>2 DEF Validate
  <1>9. ASSUME NEW x \in CIM, Disconnect(x) \/ Crash(x) PROVE Goal
    <2>1. CASE c # x
      <3>1. chat'[c] = chat[c] BY <1>9, <2>1 DEF Disconnect, Crash, WireType
      <3> QED BY <1>1, <3>1
    <2>2. CASE Crash(x) /\ c = x BY <1>2, <2>2 DEF Crash, WireType
    <2>3. CASE Disconnect(x) /\ c = x
      <3>1. chat'[x] = CutChats(x) BY <2>3 DEF Disconnect, WireType
      <3>2. chat'[c][d] = [chat[c][d] EXCEPT !.live = FALSE] BY <2>3, <3>1 DEF CutChats
      <3>3. chat[c][d] \in Busy
        <4>1. CASE chat[c][d] = Idle BY <1>2, <3>2, <4>1, CutIdle
        <4> QED BY <4>1 DEF WireType
      <3>4. chat'[c][d].step = chat[c][d].step /\ chat'[c][d].msg = chat[c][d].msg
        BY <3>2, <3>3 DEF Busy
      <3> QED BY <3>4 DEF Goal
    <2> QED BY <1>9, <2>1, <2>2, <2>3
  <1>10. ASSUME UNCHANGED vars PROVE Goal BY <1>3, <1>10 DEF vars
  <1>11. Goal BY <1>3, <1>4, <1>5, <1>7, <1>8, <1>9, <1>10, ClientFrame, SessionFrame
              DEF Next, RequestStep, ChatStep, ListenerStep
  <1> QED BY <1>11 DEF Goal

-----------------------------------------------------------------------------
(* Chains of messages end.                                                 *)

\* How far down its chain a message of each kind can be.
ChainOK(m) ==
  /\ m.kind = "request" => m.hop = 1 /\ m.blanks = 0
  /\ m.kind = "data"    => m.hop = 2 /\ m.blanks = 0
  /\ m.kind = "blank"   => m.hop <= 2 + m.blanks
  /\ m.kind = "refusal" => m.hop <= 3 + m.blanks

\* Data are fetched for requests only.
FetchesRequest ==
  \A c, d \in CIM : chat[c][d].step = "fetch" => IsRequest(chat[c][d].msg)

ChainInv == TypeOK /\ FetchesRequest /\ \A c, d \in CIM : \A m \in Pending(c, d) : ChainOK(m)

LEMMA ReplyChain ==
  ASSUME NEW c, NEW m \in Msg, ChainOK(m), NEW code \in {200, 202, 401} \cup FetchCodes
  PROVE  /\ ~Destroy(m) => ChainOK(Reply(c, m, "refusal", code))
         /\ IsRequest(m) => ChainOK(Reply(c, m, "data", code))
  <1>1. /\ m.hop \in 0 .. MaxHop /\ m.blanks \in 0 .. MaxHop
        /\ m.kind \in {"request", "data", "refusal", "blank"}
        /\ MaxHop \in Nat /\ MaxHop >= 3
    BY ConstantAssumption DEF Msg, Kinds
  <1>2. ~Destroy(m) => m.hop <= 2 + m.blanks BY <1>1 DEF ChainOK, Destroy
  <1>3. ASSUME ~Destroy(m) PROVE ChainOK(Reply(c, m, "refusal", code))
    <2>1. CASE named[c] BY <1>1, <1>2, <1>3, <2>1 DEF Reply, ChainOK, Cap
    <2>2. CASE ~named[c] BY <1>1, <1>2, <1>3, <2>2 DEF Reply, ChainOK, Cap
    <2> QED BY <2>1, <2>2
  <1>4. ASSUME IsRequest(m) PROVE ChainOK(Reply(c, m, "data", code))
    <2>1. m.hop = 1 /\ m.blanks = 0 BY <1>4 DEF ChainOK, IsRequest
    <2>2. Cap(2) = 2 /\ Cap(1) = 1 BY <1>1 DEF Cap
    <2> QED BY <1>1, <2>1, <2>2 DEF Reply, ChainOK
  <1> QED BY <1>3, <1>4

LEMMA FetchesRequestStep ==
  ASSUME TypeOK, FetchesRequest, [Next]_vars PROVE FetchesRequest'
  <1> SUFFICES ASSUME NEW c \in CIM, NEW d \in CIM, chat'[c][d].step = "fetch"
               PROVE  IsRequest(chat'[c][d].msg)
    BY DEF FetchesRequest, IsRequest
  <1>1. /\ chat'[c][d].msg = chat[c][d].msg
        /\ chat[c][d].step = "fetch" \/ StartFetch(c, d)
    BY FetchSupply
  <1>2. CASE chat[c][d].step = "fetch" BY <1>1, <1>2 DEF FetchesRequest
  <1>3. CASE StartFetch(c, d) BY <1>1, <1>3 DEF StartFetch
  <1> QED BY <1>1, <1>2, <1>3

\* Nothing is pending in the initial state.
LEMMA PendingInit ==
  ASSUME Init, NEW c \in CIM, NEW d \in CIM
  PROVE  Pending(c, d) = {} /\ chat[c][d] = Idle
  <1>1. net[c][d] = <<>> /\ chat[c][d] = Idle BY DEF Init
  <1>2. Len(<<>>) = 0 BY EmptySeq
  <1>3. 1 .. Len(net[c][d]) = {} BY <1>1, <1>2
  <1> QED BY <1>1, <1>3 DEF Pending

LEMMA ChainInit == Init => ChainInv
  <1> SUFFICES ASSUME Init PROVE ChainInv OBVIOUS
  <1>1. FetchesRequest BY PendingInit DEF FetchesRequest, Idle
  <1> QED BY <1>1, TypeInit, PendingInit DEF ChainInv

LEMMA ChainStep == ChainInv /\ [Next]_vars => ChainInv'
  <1> SUFFICES ASSUME ChainInv, [Next]_vars PROVE ChainInv' OBVIOUS
  <1>1. TypeOK' BY TypeStep DEF ChainInv
  <1>2. FetchesRequest' BY FetchesRequestStep DEF ChainInv
  <1>3. ASSUME NEW c \in CIM, NEW d \in CIM, NEW m \in Pending(c, d)' PROVE ChainOK(m)
    <2>1. m \in Pending(c, d) \/ Requested(c, d, m) \/ Refused(c, d, m) \/ Fetched(c, d, m)
      BY Supply DEF ChainInv
    <2>2. CASE m \in Pending(c, d) BY <2>2 DEF ChainInv
    <2>3. CASE Requested(c, d, m) BY <2>3 DEF Requested, RequestMsg, ChainOK
    <2>4. chat[d][c] # Idle => chat[d][c].msg \in Msg /\ ChainOK(chat[d][c].msg)
      <3>1. chat[d][c] # Idle => chat[d][c].msg \in Pending(d, c) BY DEF Pending
      <3> QED BY <3>1, PendingType DEF ChainInv, TypeOK
    <2>5. CASE Refused(c, d, m) BY <2>4, <2>5, ReplyChain DEF Refused
    <2>6. CASE Fetched(c, d, m)
      <3>1. IsRequest(chat[d][c].msg) BY <2>6 DEF Fetched, ChainInv, FetchesRequest
      <3>2. chat[d][c] # Idle BY <2>6 DEF Fetched, Idle
      <3> QED BY <2>4, <2>6, <3>1, <3>2, ReplyChain DEF Fetched
    <2> QED BY <2>1, <2>2, <2>3, <2>5, <2>6
  <1> QED BY <1>1, <1>2, <1>3 DEF ChainInv

\* However many CIMs, requests and faults there are, a message is never further down a
\* chain than its third place, blank messages aside: nothing is refused for ever.
THEOREM ChainsBounded == Safe => []ChainBound
  <1>1. ChainInv => ChainBound
    <2> SUFFICES ASSUME ChainInv, NEW c \in CIM, NEW d \in CIM, NEW m \in Pending(c, d)
                 PROVE  m.hop <= 3 + m.blanks
      BY DEF ChainBound
    <2>1. m \in Msg /\ ChainOK(m) BY PendingType DEF ChainInv, TypeOK
    <2>2. m.hop \in Nat /\ m.blanks \in Nat BY <2>1, ConstantAssumption DEF Msg
    <2> QED BY <2>1, <2>2 DEF ChainOK, Msg, Kinds
  <1> QED BY <1>1, ChainInit, ChainStep, PTL DEF Safe
=============================================================================
