---------------------------- MODULE CimExchange ----------------------------
(***************************************************************************)
(* Requests exchanged by CIMs over the peer-to-peer (XMPP) network.        *)
(*                                                                         *)
(* A client asks its CIM for a resource of another CIM.  The controller    *)
(* (XmppCommunicationController) hands the request to XMPPService, which   *)
(* appends an anonymous response listener to the chat manager, checks its  *)
(* own access control list and sends a P2P message.  At the other end the  *)
(* permanent listener (XmppMessageListener) checks its access control      *)
(* list, fetches the data and sends a P2P message back.  The response      *)
(* listeners resolve the client's DeferredResult.                          *)
(*                                                                         *)
(* Every incoming message is given, in order, to EVERY listener of the     *)
(* receiving CIM: nothing ties a response to its request, and no response  *)
(* listener is ever removed.  One worker per chat (receiver, sender) runs  *)
(* the listeners, so messages of different peers are handled concurrently. *)
(***************************************************************************)
EXTENDS Integers, Sequences, FiniteSets

CONSTANTS
    CIM,            \* the components connected to the network
    BadJid,         \* a receiver whose address stringprep rejects
    Req,            \* the client requests of a behaviour
    Calls,          \* what a request may ask: [from, to, method, auth]
    InitAcls,       \* the access control lists a behaviour may start with
    Up,             \* CIMs connected in the initial state
    FetchCodes,     \* codes a local endpoint answers with
    InvalidPayload, \* <<c, kind, request>>: bodies that fail the SHACL shapes of c
    Events,         \* the faults that may happen
    Edited,         \* the entries <<c, d>> of the lists administrators edit
    MaxHop,         \* the history counters of messages saturate here
    Main            \* XmppMessageListener, as a member of a listener list

Levels == {"none", "readonly", "full"}
Methods == {"GET", "POST"}

ASSUME ConstantAssumption ==
    /\ Main \notin Req
    /\ BadJid \notin CIM
    /\ Calls \subseteq [from : CIM, to : CIM \cup {BadJid}, method : Methods, auth : BOOLEAN]
    /\ InitAcls \subseteq [CIM -> [CIM -> Levels]]
    /\ Up \subseteq CIM
    /\ FetchCodes \subseteq Nat
    /\ MaxHop \in Nat /\ MaxHop >= 3

VARIABLES
    call,       \* call[r]: what request r asks, NoCall before it is issued
    pc,         \* pc[r]: how far the controller thread of r is
    result,     \* result[r]: what its DeferredResult holds
    status,     \* status[r]: the status code of its HTTP response object
    answer,     \* answer[r]: what was written to the client
    reports,    \* reports[r]: whose data was filed as invalid under r's path
    acl,        \* acl[c][d]: what c's access control list grants to d
    edit,       \* edit[c]: an update of the list between delete and save
    stage,      \* stage[c]: the state of XMPPService.connection
    named,      \* named[c]: XmppMessageListener.xmppUser is set
    listeners,  \* listeners[c]: incoming listeners of the chat manager, in order
    net,        \* net[c][d]: messages from d to c, oldest first
    chat,       \* chat[c][d]: the worker of c's chat with d
    verdicts    \* verdicts[r]: why a fetch for r came out as 202 (history)

clientVars  == <<call, pc, result, status, answer, reports>>
aclVars     == <<acl, edit>>
sessionVars == <<stage, named, listeners>>
wireVars    == <<net, chat, verdicts>>
vars == <<clientVars, aclVars, sessionVars, wireVars>>

-----------------------------------------------------------------------------
(* Messages.  "of" (the request a message is about), "hop" (its position   *)
(* in a chain of messages that answer each other) and "blanks" (how many   *)
(* of the chain were blank) are history, no code reads them.               *)

\* A message whose sender did not know its own name carries a null owner; the
\* receiver's parser stops there and leaves every later field at its default.
Kinds == {"request", "data", "refusal", "blank"}
Msg == [kind : Kinds, of : Req, code : {200, 202, 401} \cup FetchCodes,
        hop : 0 .. MaxHop, blanks : 0 .. MaxHop]
NoMsg == [kind |-> "none"]

IsRequest(m) == m.kind = "request"
Error(m)     == m.kind = "refusal" \/ (m.kind = "data" /\ m.code > 299)
Destroy_Unset(m) == FALSE                    \* mutated: the flag is not set
Destroy(m)   == m.kind = "refusal"
Method(m)    == IF IsRequest(m) THEN call[m.of].method ELSE "EMPTY"
Invalid(c, m) == m.code < 300 /\ <<c, m.kind, m.of>> \in InvalidPayload

Cap(n) == IF n > MaxHop THEN MaxHop ELSE n

RequestMsg(r) == [kind |-> "request", of |-> r, code |-> 200, hop |-> 1, blanks |-> 0]

\* The answer c gives to m, as its receiver parses it.
Reply(c, m, kind, code) ==
    IF named[c]
    THEN [kind |-> kind, of |-> m.of, code |-> code,
          hop |-> Cap(m.hop + 1), blanks |-> m.blanks]
    ELSE [kind |-> "blank", of |-> m.of, code |-> 200,
          hop |-> Cap(m.hop + 1), blanks |-> Cap(m.blanks + 1)]

\* c sends m to d.
Post(c, d, m) == [net EXCEPT ![d][c] = Append(@, m)]

Allows(level, method) == level = "full" \/ (level = "readonly" /\ method = "GET")

-----------------------------------------------------------------------------
NoCall   == [from |-> "nobody"]
NoAnswer == [body |-> [kind |-> "none"], status |-> 0]
Aborted  == [body |-> [kind |-> "none"], status |-> 1]   \* the connection broke
NoEdit   == [peer |-> "nobody", level |-> "none"]
None     == [kind |-> "none"]
Local(kind, r) == [kind |-> kind, of |-> r]

Idle == [step |-> "idle", todo |-> <<>>, msg |-> NoMsg, live |-> FALSE]

LoggedIn == {"login", "handlers", "ready"}
Connected(c) == stage[c] \in {"dialed"} \cup LoggedIn

Init ==
    /\ call = [r \in Req |-> NoCall]
    /\ pc = [r \in Req |-> "idle"]
    /\ result = [r \in Req |-> None]
    /\ status = [r \in Req |-> 200]
    /\ answer = [r \in Req |-> NoAnswer]
    /\ reports = [r \in Req |-> {}]
    /\ acl \in InitAcls
    /\ edit = [c \in CIM |-> NoEdit]
    /\ stage = [c \in CIM |-> IF c \in Up THEN "ready" ELSE "null"]
    /\ named = [c \in CIM |-> c \in Up]
    /\ listeners = [c \in CIM |-> IF c \in Up THEN <<Main>> ELSE <<>>]
    /\ net = [c \in CIM |-> [d \in CIM |-> <<>>]]
    /\ chat = [c \in CIM |-> [d \in CIM |-> Idle]]
    /\ verdicts = [r \in Req |-> {}]

-----------------------------------------------------------------------------
(* The client side: the controller thread of a request.                    *)

\* The controller returns a DeferredResult that already holds `body', with code.
Return(r, body, code) ==
    /\ pc' = [pc EXCEPT ![r] = "returned"]
    /\ result' = [result EXCEPT ![r] = body]
    /\ status' = [status EXCEPT ![r] = code]

\* getResource / postResource up to the call of sendMessage: token, connection,
\* and for a body its normalisation, which may fail ("uninterop").
Issue(r) ==
    /\ pc[r] = "idle"
    /\ \E k \in Calls :
        /\ call' = [call EXCEPT ![r] = k]
        /\ \/ k.auth /\ Connected(k.from)
              /\ pc' = [pc EXCEPT ![r] = "checked"]
              /\ UNCHANGED <<result, status>>
           \/ k.auth /\ Connected(k.from) /\ k.method # "GET" /\ "uninterop" \in Events
              /\ Return(r, Local("uninterop", r), 418)
           \/ k.auth /\ ~Connected(k.from) /\ Return(r, Local("offline", r), 409)
           \/ ~k.auth /\ k.method = "GET" /\ Return(r, None, 401)
           \/ ~k.auth /\ k.method # "GET" /\ Return(r, Local("nodata", r), 401)
    /\ UNCHANGED <<answer, reports, aclVars, sessionVars, wireVars>>

\* Mutated: parses the address again until it is one, instead of logging the failure.
Register_Reparses(r) ==
    /\ pc[r] = "checked" /\ call[r].to # BadJid /\ stage[call[r].from] # "null"
    /\ listeners' = [listeners EXCEPT ![call[r].from] = Append(@, r)]
    /\ pc' = [pc EXCEPT ![r] = "listening"]
    /\ UNCHANGED <<call, result, status, answer, reports, aclVars, stage, named, wireVars>>

\* XMPPService.sendMessage up to addIncomingListener.  An address that cannot be
\* parsed is only logged; with no connection object the call ends in an exception.
Register(r) ==
    /\ pc[r] = "checked"
    /\ LET c == call[r].from IN
       \/ /\ call[r].to = BadJid
          /\ pc' = [pc EXCEPT ![r] = "returned"]
          /\ UNCHANGED <<result, status, listeners>>
       \/ /\ call[r].to # BadJid /\ stage[c] = "null"
          /\ Return(r, Local("failure", r), 500)
          /\ UNCHANGED listeners
       \/ /\ call[r].to # BadJid /\ stage[c] # "null"
          /\ listeners' = [listeners EXCEPT ![c] = Append(@, r)]
          /\ pc' = [pc EXCEPT ![r] = "listening"]
          /\ UNCHANGED <<result, status>>
    /\ UNCHANGED <<call, answer, reports, aclVars, stage, named, wireVars>>

\* The chat manager r registered with is the one of the current connection.
OwnSession(r) == \E i \in 1 .. Len(listeners[call[r].from]) : listeners[call[r].from][i] = r

\* The rest of sendMessage: the sender's own access control list, then chat.send.
\* A connection that is down is only logged; a null connection is an exception.
Send(r) ==
    /\ pc[r] = "listening"
    /\ LET c == call[r].from
           d == call[r].to IN
       \/ /\ ~Allows(acl[c][d], call[r].method)
          /\ pc' = [pc EXCEPT ![r] = "returned"]
          /\ result' = [result EXCEPT ![r] = IF @ = None THEN Local("barred", r) ELSE @]
          /\ status' = [status EXCEPT ![r] = 401]
          /\ UNCHANGED net
       \/ /\ Allows(acl[c][d], call[r].method) /\ stage[c] = "null"
          /\ Return(r, Local("failure", r), 500)
          /\ UNCHANGED net
       \/ /\ Allows(acl[c][d], call[r].method) /\ stage[c] # "null"
          /\ pc' = [pc EXCEPT ![r] = "returned"]
          /\ net' = IF stage[c] \in LoggedIn /\ OwnSession(r)
                    THEN Post(c, d, RequestMsg(r))
                    ELSE net
          /\ UNCHANGED <<result, status>>
    /\ UNCHANGED <<call, answer, reports, aclVars, sessionVars, chat, verdicts>>

\* spring.mvc.async.request-timeout: a request nobody answered gets a 503.
Timeout(r) ==
    /\ "expire" \in Events
    /\ pc[r] = "returned" /\ result[r] = None /\ answer[r] = NoAnswer
    /\ result' = [result EXCEPT ![r] = Local("expired", r)]
    /\ UNCHANGED <<call, pc, status, answer, reports, aclVars, sessionVars, wireVars>>

\* The container writes the response, with the status code it finds at that time.
Commit(r) ==
    /\ pc[r] = "returned" /\ result[r] # None /\ answer[r] = NoAnswer
    /\ answer' = [answer EXCEPT ![r] =
                    [body |-> result[r],
                     status |-> IF result[r].kind = "expired" THEN 503 ELSE status[r]]]
    /\ UNCHANGED <<call, pc, result, status, reports, aclVars, sessionVars, wireVars>>

-----------------------------------------------------------------------------
(* The receiving side: the worker of a chat runs every listener in turn.   *)

\* Hands the message at the head of net[c][d] to the listeners known at that moment.
Dispatch(c, d) ==
    /\ stage[c] \in LoggedIn
    /\ chat[c][d] = Idle /\ net[c][d] # <<>>
    /\ net' = [net EXCEPT ![c][d] = Tail(@)]
    /\ chat' = [chat EXCEPT ![c][d] =
                  IF listeners[c] = <<>> THEN Idle
                  ELSE [step |-> "next", todo |-> listeners[c],
                        msg |-> Head(net[c][d]), live |-> TRUE]]
    /\ UNCHANGED <<clientVars, aclVars, sessionVars, verdicts>>

\* Mutated: does not notice that the last listener was run.
Rest_Past(h) == [h EXCEPT !.todo = Tail(@), !.step = "next"]

\* The worker goes on to the next listener of its snapshot.
Rest(h) == IF Len(h.todo) <= 1 THEN Idle
           ELSE [h EXCEPT !.todo = Tail(@), !.step = "next"]
NextListener(c, d) == chat' = [chat EXCEPT ![c][d] = Rest(@)]

AtMain(c, d, step) ==
    /\ chat[c][d].step = step /\ chat[c][d].todo # <<>> /\ Head(chat[c][d].todo) = Main

\* Mutated: the chat is a field of the listener, which another message may have changed.
Answer_SharedChat(c, d, m) ==
    \E e \in CIM : net' = IF chat[c][d].live THEN Post(c, e, m) ELSE net

\* chat.send in a listener: an exception (only logged) once the connection is gone.
Answer(c, d, m) ==
    net' = IF chat[c][d].live THEN Post(c, d, m) ELSE net

\* Mutated: does not look at the method of a read-only peer.
Authorised_AnyMethod(c, d, m) == acl[c][d] # "none"

Authorised(c, d, m) == Allows(acl[c][d], Method(m))

\* A blank message has a null method: comparing it throws, for a read-only peer.
Throws(c, d, m) == m.kind = "blank" /\ acl[c][d] = "readonly"

\* newIncomingMessage of XmppMessageListener answers nothing.
Ignore(c, d) ==
    /\ AtMain(c, d, "next")
    /\ LET m == chat[c][d].msg IN
         \/ Destroy(m)
         \/ Throws(c, d, m)
         \/ Authorised(c, d, m) /\ Error(m)
    /\ NextListener(c, d)
    /\ UNCHANGED <<clientVars, aclVars, sessionVars, net, verdicts>>

\* Mutated: an unauthorised peer gets no answer.
Refuse_Silent(c, d) ==
    /\ AtMain(c, d, "next")
    /\ ~Destroy(chat[c][d].msg) /\ ~Authorised(c, d, chat[c][d].msg)
    /\ NextListener(c, d)
    /\ UNCHANGED <<clientVars, aclVars, sessionVars, net, verdicts>>

\* It refuses: the peer is not authorised, or the message is no request.
Refuse(c, d) ==
    /\ AtMain(c, d, "next")
    /\ LET m == chat[c][d].msg IN
         /\ ~Destroy(m) /\ ~Throws(c, d, m)
         /\ ~Authorised(c, d, m) \/ (~Error(m) /\ ~IsRequest(m))
         /\ Answer(c, d, Reply(c, m, "refusal", 401))
    /\ NextListener(c, d)
    /\ UNCHANGED <<clientVars, aclVars, sessionVars, verdicts>>

\* It starts to fetch the data of an authorised request.
StartFetch(c, d) ==
    /\ AtMain(c, d, "next")
    /\ LET m == chat[c][d].msg IN IsRequest(m) /\ Authorised(c, d, m)
    /\ chat' = [chat EXCEPT ![c][d].step = "fetch"]
    /\ UNCHANGED <<clientVars, aclVars, sessionVars, net, verdicts>>

\* Data got with GET fails the shapes of the CIM that fetched it.
Reports(c, m, code) ==
    Method(m) = "GET" /\ code \in 200 .. 299 /\ <<c, "data", m.of>> \in InvalidPayload

\* Mutated: the code says 202 and the report is not stored.
FinishFetch_NotStored(c, d) ==
    /\ AtMain(c, d, "fetch")
    /\ \E code \in FetchCodes :
         LET m == chat[c][d].msg IN
         Answer(c, d, Reply(c, m, "data", IF Reports(c, m, code) THEN 202 ELSE code))
    /\ NextListener(c, d)
    /\ UNCHANGED <<clientVars, aclVars, sessionVars, verdicts>>

\* The local endpoint answered (or the fetcher made up an error): send it back, as a 202
\* when a report was filed here.
FinishFetch(c, d) ==
    /\ AtMain(c, d, "fetch")
    /\ \E code \in FetchCodes :
         LET m == chat[c][d].msg
             sent == IF Reports(c, m, code) THEN 202 ELSE code IN
         /\ Answer(c, d, Reply(c, m, "data", sent))
         /\ verdicts' = [verdicts EXCEPT ![m.of] = @ \cup
                IF Reports(c, m, code) THEN {"reported"}
                ELSE IF code = 202 THEN {"accepted"} ELSE {}]
    /\ NextListener(c, d)
    /\ UNCHANGED <<clientVars, aclVars, sessionVars>>

\* The fetcher throws (a bridging rule that is no regular expression): no answer.
FetchThrows(c, d) ==
    /\ "badrule" \in Events
    /\ AtMain(c, d, "fetch")
    /\ NextListener(c, d)
    /\ UNCHANGED <<clientVars, aclVars, sessionVars, net, verdicts>>

AtListener(c, d, r, step) ==
    /\ chat[c][d].step = step /\ chat[c][d].todo # <<>> /\ Head(chat[c][d].todo) = r

\* A response listener resolves its DeferredResult; the first to do so wins.
SetResult(c, d, r) ==
    /\ AtListener(c, d, r, "next")
    /\ result' = [result EXCEPT ![r] =
                    IF @ = None THEN [kind |-> chat[c][d].msg.kind, of |-> chat[c][d].msg.of]
                    ELSE @]
    /\ chat' = [chat EXCEPT ![c][d].step = "status"]
    /\ UNCHANGED <<call, pc, status, answer, reports, aclVars, sessionVars, net, verdicts>>

\* Changes the status code, in vain once the response is written.
PutStatus(r, code) == status' = [status EXCEPT ![r] = IF answer[r] = NoAnswer THEN code ELSE @]

\* Then it copies the code of the message ...
SetStatus(c, d, r) ==
    /\ AtListener(c, d, r, "status")
    /\ PutStatus(r, chat[c][d].msg.code)
    /\ chat' = [chat EXCEPT ![c][d].step = "validate"]
    /\ UNCHANGED <<call, pc, result, answer, reports, aclVars, sessionVars, net, verdicts>>

\* Mutated: the report is made but not stored.
Validate_NotStored(c, d, r) ==
    /\ AtListener(c, d, r, "validate")
    /\ PutStatus(r, IF Invalid(c, chat[c][d].msg) THEN 202 ELSE status[r])
    /\ NextListener(c, d)
    /\ UNCHANGED <<call, pc, result, answer, reports, aclVars, sessionVars, net, verdicts>>

\* ... and validates the body, filing a report under the path of its own request.
Validate(c, d, r) ==
    /\ AtListener(c, d, r, "validate")
    /\ IF Invalid(c, chat[c][d].msg)
       THEN /\ reports' = [reports EXCEPT ![r] = @ \cup {chat[c][d].msg.of}]
            /\ PutStatus(r, 202)
       ELSE UNCHANGED <<reports, status>>
    /\ NextListener(c, d)
    /\ UNCHANGED <<call, pc, result, answer, aclVars, sessionVars, net, verdicts>>

-----------------------------------------------------------------------------
(* The session of a CIM with the XMPP server (one connecting thread).      *)

SetStage(c, s) == stage' = [stage EXCEPT ![c] = s]

\* connection = new XMPPTCPConnection; connection.connect(): a new chat manager.
Dial(c) ==
    /\ stage[c] \in {"null", "off"}
    /\ SetStage(c, "dialed")
    /\ listeners' = [listeners EXCEPT ![c] = <<>>]
    /\ UNCHANGED <<clientVars, aclVars, named, wireVars>>

Login(c) ==
    /\ stage[c] = "dialed" /\ SetStage(c, "login")
    /\ UNCHANGED <<clientVars, aclVars, named, listeners, wireVars>>

\* The catch blocks of connect(): connection = null.
ConnectFails(c) ==
    /\ "connfail" \in Events
    /\ stage[c] \in {"off", "dialed"} /\ SetStage(c, "null")
    /\ UNCHANGED <<clientVars, aclVars, named, listeners, wireVars>>

InstallHandlers(c) ==
    /\ stage[c] = "login" /\ SetStage(c, "handlers")
    /\ listeners' = [listeners EXCEPT ![c] = Append(@, Main)]
    /\ UNCHANGED <<clientVars, aclVars, named, wireVars>>

NameListener(c) ==
    /\ stage[c] = "handlers" /\ SetStage(c, "ready")
    /\ named' = [named EXCEPT ![c] = TRUE]
    /\ UNCHANGED <<clientVars, aclVars, listeners, wireVars>>

CutChats(c) == [d \in CIM |-> [chat[c][d] EXCEPT !.live = FALSE]]

\* /api/xmpp/disconnect, or the connection breaks.  A thread that is past login goes
\* on to name the listener; one that is not fails at login() and drops the connection.
Disconnect(c) ==
    /\ "disconnect" \in Events
    /\ Connected(c)
    /\ SetStage(c, IF stage[c] = "dialed" THEN "null" ELSE "off")
    /\ named' = [named EXCEPT ![c] = @ \/ stage[c] \in LoggedIn]
    /\ chat' = [chat EXCEPT ![c] = CutChats(c)]
    /\ UNCHANGED <<clientVars, aclVars, listeners, net, verdicts>>

\* The process dies: its clients lose their connections, the database stays.
Crash(c) ==
    /\ "crash" \in Events
    /\ SetStage(c, "null")
    /\ named' = [named EXCEPT ![c] = FALSE]
    /\ listeners' = [listeners EXCEPT ![c] = <<>>]
    /\ chat' = [chat EXCEPT ![c] = [d \in CIM |-> Idle]]
    /\ edit' = [edit EXCEPT ![c] = NoEdit]
    /\ LET lost == {r \in Req : call[r] # NoCall /\ call[r].from = c} IN
         /\ pc' = [r \in Req |-> IF r \in lost THEN "returned" ELSE pc[r]]
         /\ answer' = [r \in Req |-> IF r \in lost /\ answer[r] = NoAnswer
                                     THEN Aborted ELSE answer[r]]
    /\ UNCHANGED <<call, result, status, reports, acl, net, verdicts>>

\* The server drops a message for a CIM that is not logged in.
Drop(c, d) ==
    /\ "drop" \in Events
    /\ stage[c] \notin LoggedIn /\ net[c][d] # <<>>
    /\ net' = [net EXCEPT ![c][d] = Tail(@)]
    /\ UNCHANGED <<clientVars, aclVars, sessionVars, chat, verdicts>>

-----------------------------------------------------------------------------
(* The access control list of a CIM: update is a delete and a save.        *)

EditAcl(c, d, level) ==
    /\ <<c, d>> \in Edited
    /\ edit[c] = NoEdit /\ level # "none"
    /\ acl' = [acl EXCEPT ![c][d] = "none"]
    /\ edit' = [edit EXCEPT ![c] = [peer |-> d, level |-> level]]
    /\ UNCHANGED <<clientVars, sessionVars, wireVars>>

SaveAcl(c) ==
    /\ edit[c] # NoEdit
    /\ acl' = [acl EXCEPT ![c][edit[c].peer] = edit[c].level]
    /\ edit' = [edit EXCEPT ![c] = NoEdit]
    /\ UNCHANGED <<clientVars, sessionVars, wireVars>>

RemoveAcl(c, d) ==
    /\ <<c, d>> \in Edited
    /\ acl[c][d] # "none"
    /\ acl' = [acl EXCEPT ![c][d] = "none"]
    /\ UNCHANGED <<edit, clientVars, sessionVars, wireVars>>

-----------------------------------------------------------------------------
RequestStep(r) == Register(r) \/ Send(r) \/ Timeout(r) \/ Commit(r)

MainStep(c, d) == Ignore(c, d) \/ Refuse(c, d) \/ StartFetch(c, d)
                  \/ FinishFetch(c, d) \/ FetchThrows(c, d)

ListenerStep(c, d) ==
    \E r \in Req : SetResult(c, d, r) \/ SetStatus(c, d, r) \/ Validate(c, d, r)

ChatStep(c, d) == Dispatch(c, d) \/ MainStep(c, d) \/ ListenerStep(c, d)

ConnectStep(c) == Login(c) \/ InstallHandlers(c) \/ NameListener(c)

Next ==
    \/ \E r \in Req : Issue(r) \/ RequestStep(r)
    \/ \E c, d \in CIM : ChatStep(c, d) \/ Drop(c, d) \/ RemoveAcl(c, d)
    \/ \E c \in CIM : Dial(c) \/ ConnectStep(c) \/ ConnectFails(c)
                      \/ Disconnect(c) \/ Crash(c) \/ SaveAcl(c)
    \/ \E c, d \in CIM, level \in Levels : EditAcl(c, d, level)

\* Every thread that can go on does; nothing forces a client to ask, an administrator
\* to connect or a fault to happen.
Fairness ==
    /\ \A r \in Req : WF_vars(RequestStep(r))
    /\ \A c, d \in CIM : WF_vars(ChatStep(c, d))
    /\ \A c \in CIM : WF_vars(ConnectStep(c))

Safe == Init /\ [][Next]_vars
Spec == Safe /\ Fairness

-----------------------------------------------------------------------------
(* Correctness.                                                            *)

Stages == {"null", "off", "dialed"} \cup LoggedIn
LocalKinds == {"offline", "uninterop", "nodata", "failure", "barred", "expired"}
Statuses == {200, 202, 401, 409, 418, 500, 503} \cup FetchCodes
Result == [kind : Kinds \cup LocalKinds, of : Req] \cup {None}
Busy == [step : {"next", "fetch", "status", "validate"},
         todo : {s \in Seq(Req \cup {Main}) : s # <<>>}, msg : Msg, live : BOOLEAN]

ClientType ==
    /\ call \in [Req -> Calls \cup {NoCall}]
    /\ pc \in [Req -> {"idle", "checked", "listening", "returned"}]
    /\ result \in [Req -> Result]
    /\ status \in [Req -> Statuses]
    /\ answer \in [Req -> [body : Result \ {None}, status : Statuses] \cup {NoAnswer, Aborted}]
    /\ reports \in [Req -> SUBSET Req]
AclType ==
    /\ acl \in [CIM -> [CIM -> Levels]]
    /\ edit \in [CIM -> [peer : CIM, level : Levels] \cup {NoEdit}]
SessionType ==
    /\ stage \in [CIM -> Stages]
    /\ named \in [CIM -> BOOLEAN]
    /\ listeners \in [CIM -> Seq(Req \cup {Main})]
WireType ==
    /\ net \in [CIM -> [CIM -> Seq(Msg)]]
    /\ chat \in [CIM -> [CIM -> Busy \cup {Idle}]]
    /\ verdicts \in [Req -> SUBSET {"reported", "accepted"}]

\* Every variable stays within its type: in particular a worker that runs has a
\* message and a listener left to run, and history counters stay within their bound.
TypeOK == ClientType /\ AclType /\ SessionType /\ WireType

\* The messages to c from d: on their way, or in the hands of the worker.
Pending(c, d) == {net[c][d][i] : i \in 1 .. Len(net[c][d])}
                 \cup (IF chat[c][d] = Idle THEN {} ELSE {chat[c][d].msg})

Issued(r) == call[r] # NoCall
Answered(r) == answer[r] # NoAnswer

\* A request is followed by at most two messages that answer each other, its response
\* and the refusal of that response, unless a CIM that does not know its own name
\* answered: this is what the error and destroy flags are for ("otherwise it will
\* generate an infinite loop", XmppMessageListener).
ChainBound ==
    \A c, d \in CIM : \A m \in Pending(c, d) : m.hop <= 3 + m.blanks

\* Peers trust each other both ways before data flows, as long as no list is edited: a
\* message about r exists only if the caller's list grants the callee, and data for r,
\* on its way or held by any client, only if the callee's list grants the caller too.
TrustBothWays ==
    Edited = {} =>
    /\ \A c, d \in CIM : \A m \in Pending(c, d) :
          LET k == call[m.of] IN
          /\ Issued(m.of) /\ Allows(acl[k.from][k.to], k.method)
          /\ m.kind = "data" => Allows(acl[k.to][k.from], k.method)
    /\ \A r \in Req : result[r].kind = "data" =>
          LET k == call[result[r].of] IN Allows(acl[k.to][k.from], k.method)

\* c takes part in request r.
Involved(c, r) == Issued(r) /\ c \in {call[r].from, call[r].to}

\* "Data has been correctly exchanged but a validation report was created"
\* (XmppCommunicationController): a client is told 202 only if its own CIM filed a report
\* under its request, or for some request its CIM takes part in the CIM that fetched the
\* data filed one, or had the 202 from its endpoint.
ReportBehind202 ==
    \A r \in Req : answer[r].status = 202 =>
        \/ reports[r] # {}
        \/ \E q \in Req : Involved(call[r].from, q) /\ verdicts[q] # {}

\* A CIM that issued one request, to another CIM, and that no other request involves,
\* answers its client with the data or the refusal of that very request.
Alone(r) == /\ Issued(r) /\ call[r].from # call[r].to
            /\ \A q \in Req \ {r} : ~Involved(call[r].from, q)
LoneAnswerIsOwn ==
    \A r \in Req : Alone(r) /\ result[r] # None =>
        result[r].of = r /\ result[r].kind # "request"

\* Every request is answered.  Without the event "expire" this says that it is answered
\* without the help of the timeout.
EveryCallAnswered == \A r \in Req : Issued(r) ~> Answered(r)

\* The network comes to rest: in the end no worker runs, and the CIMs that are logged in
\* have no message waiting (one for a CIM that stays away may wait for ever).
NetworkCalms ==
    <>[](\A c, d \in CIM : /\ chat[c][d] = Idle
                           /\ stage[c] \in LoggedIn => net[c][d] = <<>>)

\* The exchange keeps the promise of RequestLifecycle to every client.
Lifecycle == INSTANCE RequestLifecycle
                 WITH issued <- {r \in Req : Issued(r)}, Lost <- Aborted,
                      Answers <- [body : Result \ {None}, status : Statuses]
KeepsLifecycle == Lifecycle!Spec

\* What XMPPService promises of its response listener ("Append a listener to catch the
\* response"): a client is answered with the response to its own request.
AnswerIsOwn ==
    \A r \in Req : answer[r].body.kind \in Kinds =>
        answer[r].body.kind \in {"data", "refusal"} /\ answer[r].body.of = r
=============================================================================
