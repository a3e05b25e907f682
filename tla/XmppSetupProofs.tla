--------------------------- MODULE XmppSetupProofs --------------------------
(* What holds of XmppSetup for every number of administrators, users and   *)
(* connections.                                                            *)
EXTENDS XmppSetup, TLAPS

-----------------------------------------------------------------------------
(* Types.                                                                  *)

\* A thread that stores has a user to store; one that obtained a chat manager, and one that is
\* about to add the listener, found one.
Prepared ==
    \A t \in Thread :
        /\ pc[t] \in {"store.read", "store.delete", "store.save"} => user[t] \in User
        /\ pc[t] = "connect.keep" => obtained[t] \in Conn
        /\ pc[t] = "connect.handle" => manager \in Conn

LEMMA SetupInit == Init => TypeOK /\ Prepared
  BY DEF Init, TypeOK, Prepared, NoReply, Reply, Replies, Places

LEMMA StoredUser == XmppUser \in User \cup {NoUser}
  BY DEF XmppUser

LEMMA ReplyType ==
  ASSUME NEW op \in {"connect", "disconnect", "store", "none", "autoconnect"},
         NEW code \in {0, 200, 201, 409, 500}
  PROVE  Reply(op, code) \in Replies
  BY DEF Reply, Replies

LEMMA GotoType ==
  ASSUME pc \in [Thread -> Places], NEW t \in Thread, NEW there \in Places, Goto(t, there)
  PROVE  /\ pc' \in [Thread -> Places]
         /\ pc'[t] = there
         /\ \A s \in Thread : s # t => pc'[s] = pc[s]
  BY DEF Goto

LEMMA AnswerType ==
  ASSUME TypeOK, NEW t \in Thread, NEW op \in {"connect", "disconnect", "store"},
         NEW code \in {200, 201, 409, 500}, Answer(t, op, code)
  PROVE  /\ pc' \in [Thread -> Places] /\ user' = user
         /\ gone' = gone /\ obtained' = obtained /\ alone' = alone
         /\ reply' \in [Thread -> Replies]
         /\ pc'[t] = "idle"
         /\ \A s \in Thread : s # t => pc'[s] = pc[s]
  <1>1. "idle" \in Places BY DEF Places
  <1>2. Reply(op, code) \in Replies BY ReplyType
  <1>3. Goto(t, "idle") /\ UNCHANGED <<user, gone, obtained, alone>>
        /\ reply' = [reply EXCEPT ![t] = Reply(op, code)]
    BY DEF Answer
  <1>4. reply' \in [Thread -> Replies] BY <1>2, <1>3 DEF TypeOK
  <1> QED BY <1>1, <1>3, <1>4, GotoType DEF TypeOK

LEMMA StoreType ==
  ASSUME TypeOK, Prepared, NEW t \in Thread, StoreStep(t)
  PROVE  TypeOK' /\ Prepared'
  <1>1. CASE ReadRows(t)
    BY <1>1 DEF ReadRows, Goto, TypeOK, Prepared, fields, session, Places
  <1>2. CASE DeleteRows(t)
    <2>1. CASE Answer(t, "store", 500) /\ UNCHANGED users /\ UNCHANGED <<fields, session>>
      BY <2>1, AnswerType DEF TypeOK, Prepared, fields, session
    <2>2. CASE Goto(t, "store.save")
      BY <1>2, <2>2 DEF DeleteRows, Answer, Goto, TypeOK, Prepared, fields, session, Places
    <2> QED BY <1>2, <2>1, <2>2 DEF DeleteRows
  <1>3. CASE SaveRow(t)
    <2>1. Answer(t, "store", 201) /\ user[t] \in User BY <1>3 DEF SaveRow, Prepared
    <2> QED BY <1>3, <2>1, AnswerType DEF SaveRow, TypeOK, Prepared, fields, session
  <1> QED BY <1>1, <1>2, <1>3 DEF StoreStep

LEMMA CutType ==
  ASSUME TypeOK, Prepared, NEW t \in Thread, CutStep(t) \/ TellDisconnected(t)
  PROVE  TypeOK' /\ Prepared'
  <1>1. ASSUME NEW op \in {"connect", "disconnect"}, CheckField(t, op)
        PROVE  TypeOK' /\ Prepared'
    BY <1>1 DEF CheckField, Before, Within, After, Goto, TypeOK, Prepared, fields, session, Places
  <1>2. ASSUME NEW op \in {"connect", "disconnect"}, CutSession(t, op)
        PROVE  TypeOK' /\ Prepared'
    <2>1. CASE Answer(t, op, 500)
      BY <1>2, <2>1, AnswerType DEF CutSession, TypeOK, Prepared, fields, Cut
    <2>2. CASE Cut /\ Goto(t, After[op]) /\ connection # NoConn
      BY <1>2, <2>2 DEF CutSession, Within, Cut, After, Goto, Answer, TypeOK, Prepared, fields, Places
    <2> QED BY <1>2, <2>1, <2>2 DEF CutSession
  <1>3. CASE TellDisconnected(t)
    BY <1>3, AnswerType DEF TellDisconnected, TypeOK, Prepared, fields, session
  <1> QED BY <1>1, <1>2, <1>3 DEF CutStep

LEMMA ConnectType ==
  ASSUME TypeOK, Prepared, NEW t \in Thread, ConnectStep(t)
  PROVE  TypeOK' /\ Prepared'
  <1> USE DEF Goto, TypeOK, Prepared, fields, session, Places
  <1>1. CASE CheckConnected(t) BY <1>1, StoredUser DEF CheckConnected
  <1>2. CASE Configure(t) BY <1>2 DEF Configure
  <1>3. CASE Dial(t) BY <1>3 DEF Dial, FieldIs
  <1>4. CASE Login(t) BY <1>4 DEF Login, FieldIs
  <1>5. CASE GetManager(t) BY <1>5 DEF GetManager
  <1>6. CASE AddHandlers(t) BY <1>6 DEF AddHandlers
  <1>7. CASE NameListener(t) BY <1>7 DEF NameListener
  <1>8. CASE Catch(t) BY <1>8 DEF Catch
  <1>9. CASE TellConnected(t) BY <1>9, AnswerType DEF TellConnected
  <1>10. CASE BootEnds(t) BY <1>10 DEF BootEnds
  <1>11. CASE ReadUser(t) BY <1>11, StoredUser DEF ReadUser
  <1>12. CASE KeepManager(t) BY <1>12 DEF KeepManager
  <1>13. CASE SetCallback(t) BY <1>13 DEF SetCallback
  <1> QED BY <1>1, <1>2, <1>3, <1>4, <1>5, <1>6, <1>7, <1>8, <1>9, <1>10, <1>11, <1>12, <1>13
          DEF ConnectStep

LEMMA CallType ==
  ASSUME TypeOK, Prepared, NEW t \in Thread, Call(t)
  PROVE  TypeOK' /\ Prepared'
  <1>1. PICK op \in Operations, u \in User :
          /\ Goto(t, Start[op])
          /\ user' = [user EXCEPT ![t] = IF op = "store" THEN u ELSE NoUser]
    BY DEF Call
  <1>2. op \in {"connect", "disconnect", "store"} BY SetupAssumption
  <1>3. /\ Start[op] \in Places /\ Start[op] \notin {"connect.keep", "connect.handle"}
        /\ Start[op] \in {"store.read", "store.delete", "store.save"} => op = "store"
    BY <1>2 DEF Start, Places
  <1>4. pc' \in [Thread -> Places] /\ pc'[t] = Start[op]
        /\ \A s \in Thread : s # t => pc'[s] = pc[s]
    BY <1>1, <1>3, GotoType DEF TypeOK
  <1>5. /\ user' \in [Thread -> User \cup {NoUser}]
        /\ op = "store" => user'[t] \in User
        /\ \A s \in Thread : s # t => user'[s] = user[s]
    BY <1>1 DEF TypeOK
  <1>7. reply' \in [Thread -> Replies]
    <2>1. NoReply \in Replies BY ReplyType DEF NoReply
    <2>2. reply' = [reply EXCEPT ![t] = NoReply] BY DEF Call
    <2> QED BY <2>1, <2>2 DEF TypeOK
  <1>8. alone' \in [Thread -> BOOLEAN]
    <2>1. alone' = [s \in Thread |-> s = t /\ \A x \in Thread : pc[x] = "idle"] BY DEF Call
    <2>2. \A s \in Thread : (s = t /\ \A x \in Thread : pc[x] = "idle") \in BOOLEAN OBVIOUS
    <2> QED BY <2>1, <2>2, Zenon
  <1>9. UNCHANGED <<users, fields, session, gone, obtained>> BY DEF Call
  <1>10. TypeOK' BY <1>4, <1>5, <1>7, <1>8, <1>9 DEF TypeOK, fields, session
  <1>11. Prepared' BY <1>3, <1>4, <1>5, <1>9 DEF Prepared, fields
  <1> QED BY <1>10, <1>11

LEMMA RestartType ==
  ASSUME TypeOK, Prepared, Restart
  PROVE  TypeOK' /\ Prepared' /\ \A t \in Thread : pc'[t] \in {"idle", "connect.check"}
  <1>1. /\ pc' \in [Thread -> {"idle", "connect.check"}]
        /\ reply' \in [Thread -> Replies]
    <2> DEFINE boots == Reply("autoconnect", 0)
    <2>1. NoReply \in Replies /\ boots \in Replies BY DEF NoReply, Reply, Replies
    <2> HIDE DEF boots
    <2>2. CASE ~Autoconnect BY <2>1, <2>2 DEF Restart
    <2>3. CASE Autoconnect
      <3>1. PICK boot \in Thread :
              /\ pc' = [t \in Thread |-> IF t = boot THEN "connect.check" ELSE "idle"]
              /\ reply' = [t \in Thread |-> IF t = boot THEN boots ELSE NoReply]
        BY <2>3 DEF Restart, boots
      <3> QED BY <2>1, <3>1
    <2> QED BY <2>2, <2>3
  <1>2. /\ user' \in [Thread -> User \cup {NoUser}]
        /\ gone' \in [Thread -> SUBSET User]
        /\ obtained' \in [Thread -> Conn \cup {NoConn}]
        /\ alone' \in [Thread -> BOOLEAN]
        /\ link' \in [Conn -> {"closed", "open", "auth"}]
    BY DEF Restart
  <1>3. /\ connection' = NoConn /\ manager' = NoConn /\ listenerUser' = NoUser
        /\ handled' = {} /\ UNCHANGED <<users, owner>>
    BY DEF Restart
  <1> QED BY <1>1, <1>2, <1>3 DEF TypeOK, Prepared, Places

LEMMA SetupStep == TypeOK /\ Prepared /\ [Next]_vars => TypeOK' /\ Prepared'
  <1> SUFFICES ASSUME TypeOK, Prepared, [Next]_vars PROVE TypeOK' /\ Prepared'
    OBVIOUS
  <1>1. ASSUME NEW o \in Conn, Break(o) PROVE TypeOK' /\ Prepared'
    BY <1>1 DEF Break, TypeOK, Prepared, fields, threads
  <1>2. CASE UNCHANGED vars BY <1>2 DEF vars, fields, session, threads, TypeOK, Prepared
  <1> QED BY <1>1, <1>2, CallType, StoreType, CutType, ConnectType, RestartType
          DEF Next, ThreadStep

\* The type invariant of XmppSetup: a chat manager that gets the listener exists.
THEOREM SetupTypeCorrect == Spec => [](TypeOK /\ Prepared)
  BY SetupInit, SetupStep, PTL DEF Spec

-----------------------------------------------------------------------------
(* No race leaves the CIM half connected.                                 *)

\* While the connection of the field is open and not logged in, somebody is about to log it
\* in or to drop it.
Attended == FieldIs("open") => \E t \in Thread : pc[t] \in {"connect.login", "connect.catch"}

Working == {"connect.login", "connect.catch"}

\* A step that leaves the connection alone and moves a thread that is not at work on it
\* keeps it attended.
LEMMA AttendedFrame ==
  ASSUME Attended, UNCHANGED <<connection, link>>, NEW t \in Thread,
         pc[t] \notin Working, \A s \in Thread : s # t => pc'[s] = pc[s]
  PROVE  Attended'
  BY DEF Attended, FieldIs, Working

LEMMA AttendedConnect ==
  ASSUME TypeOK, Prepared, Attended, NEW t \in Thread, ConnectStep(t)
  PROVE  Attended'
  <1>1. CASE \/ CheckConnected(t) \/ ReadUser(t) \/ TellConnected(t) \/ BootEnds(t)
             \/ GetManager(t) \/ KeepManager(t) \/ AddHandlers(t) \/ SetCallback(t) \/ NameListener(t)
    BY <1>1, AttendedFrame
       DEF CheckConnected, ReadUser, TellConnected, BootEnds, GetManager, KeepManager, AddHandlers,
           SetCallback, NameListener, Answer, Goto, TypeOK, Working, fields, session
  <1>2. CASE Configure(t)
    <2>1. CASE UNCHANGED <<connection, owner, handled>>
      BY <1>2, <2>1, AttendedFrame DEF Configure, Goto, TypeOK, Working
    <2>2. CASE \E o \in Conn : Unused(o) /\ connection' = o
      BY <1>2, <2>2 DEF Configure, Unused, Attended, FieldIs
    <2> QED BY <1>2, <2>1, <2>2 DEF Configure
  <1>3. CASE Dial(t)
    <2>1. pc'[t] \in {"connect.login", "connect.catch"}
          /\ \A s \in Thread : s # t => pc'[s] = pc[s]
      BY <1>3 DEF Dial, Goto, TypeOK
    <2>2. CASE UNCHANGED link
      BY <1>3, <2>2, AttendedFrame DEF Dial, Goto, TypeOK, Working, fields
    <2>3. CASE FieldIs("closed") /\ link' = [link EXCEPT ![connection] = "open"]
      BY <1>3, <2>1, <2>3 DEF Dial, Attended, FieldIs, TypeOK, fields
    <2> QED BY <1>3, <2>2, <2>3 DEF Dial
  <1>4. CASE Login(t)
    <2>1. CASE UNCHANGED link /\ Goto(t, "connect.catch")
      BY <1>4, <2>1 DEF Login, Goto, Attended, FieldIs, TypeOK, fields
    <2>2. CASE /\ FieldIs("open") /\ link' = [link EXCEPT ![connection] = "auth"]
               /\ Goto(t, "connect.manager")
      BY <1>4, <2>2 DEF Login, Goto, Attended, FieldIs, TypeOK, fields
    <2> QED BY <1>4, <2>1, <2>2 DEF Login
  <1>5. CASE Catch(t) BY <1>5 DEF Catch, Attended, FieldIs
  <1> QED BY <1>1, <1>2, <1>3, <1>4, <1>5 DEF ConnectStep

LEMMA AttendedStep == TypeOK /\ Prepared /\ Attended /\ [Next]_vars => Attended'
  <1> SUFFICES ASSUME TypeOK, Prepared, Attended, [Next]_vars PROVE Attended'
    OBVIOUS
  <1>1. ASSUME NEW t \in Thread, Call(t) PROVE Attended'
    BY <1>1, AttendedFrame DEF Call, Goto, TypeOK, Working, fields, session
  <1>2. ASSUME NEW t \in Thread, StoreStep(t) \/ TellDisconnected(t) PROVE Attended'
    BY <1>2, AttendedFrame
       DEF StoreStep, ReadRows, DeleteRows, SaveRow, TellDisconnected, Answer, Goto, TypeOK,
           Working, fields, session
  <1>3. ASSUME NEW t \in Thread, CutStep(t) PROVE Attended'
    <2>1. PICK op \in {"connect", "disconnect"} : CheckField(t, op) \/ CutSession(t, op)
      BY <1>3 DEF CutStep
    <2>2. CASE CheckField(t, op)
      BY <2>2, AttendedFrame DEF CheckField, Before, Goto, TypeOK, Working, fields, session
    <2>3. CASE CutSession(t, op) /\ connection = NoConn
      BY <2>3 DEF CutSession, Attended, FieldIs, fields
    <2>4. CASE CutSession(t, op) /\ connection # NoConn
      <3>1. link' = [link EXCEPT ![connection] = "closed"] /\ UNCHANGED fields
        BY <2>4 DEF CutSession, Cut
      <3> QED BY <2>4, <3>1 DEF Attended, FieldIs, TypeOK, fields
    <2> QED BY <2>1, <2>2, <2>3, <2>4
  <1>4. ASSUME NEW o \in Conn, Break(o) PROVE Attended'
    BY <1>4 DEF Break, Attended, FieldIs, TypeOK, fields, threads
  <1>5. CASE Restart BY <1>5 DEF Restart, Attended, FieldIs
  <1>6. CASE UNCHANGED vars
    BY <1>6 DEF vars, fields, session, threads, Attended, FieldIs
  <1> QED BY <1>1, <1>2, <1>3, <1>4, <1>5, <1>6, AttendedConnect DEF Next, ThreadStep

\* However many administrators connect, disconnect and store at once: a CIM that is at rest
\* and says it is connected is logged in.
THEOREM SetupNeverHalfOpen == Spec => []NeverHalfOpen
  <1>1. Init => Attended BY DEF Init, Attended, FieldIs
  <1>2. TypeOK /\ Attended => NeverHalfOpen
    BY DEF Attended, NeverHalfOpen, AtRest, IsConnected, FieldIs, LoggedIn, TypeOK
  <1> QED BY <1>1, <1>2, SetupInit, SetupStep, AttendedStep, PTL DEF Spec

-----------------------------------------------------------------------------
(* One administrator at a time.                                            *)

OneAdministrator == \A s, t \in Thread : s = t

\* What is logged in is the field's, and the field is only replaced when it is not.
Sole ==
    /\ SoleSession
    /\ \A t \in Thread :
         pc[t] \in {"connect.user", "connect.configure", "connect.dial", "connect.login", "connect.catch"}
            => ~FieldIs("auth")

\* The user a thread connects with is the one its connection object has; once the thread is
\* through, the listener is on that connection and bears that name.
Signing == {"connect.dial", "connect.login", "connect.manager", "connect.keep", "connect.handle",
            "connect.callback", "connect.name"}
Signed ==
    /\ \A t \in Thread :
         /\ pc[t] \in Signing => connection # NoConn /\ owner[connection] = user[t]
         /\ pc[t] = "connect.keep" => obtained[t] = connection
         /\ pc[t] = "connect.handle" => manager = connection
         /\ pc[t] \in {"connect.callback", "connect.name"} => connection \in handled
    /\ (\A t \in Thread : pc[t] \notin Signing) /\ FieldIs("auth")
         => connection \in handled /\ listenerUser = owner[connection]

LEMMA SoleStep ==
  ASSUME OneAdministrator, TypeOK, Sole, [Next]_vars
  PROVE  Sole'
  <1> USE DEF OneAdministrator, TypeOK, Sole, SoleSession, LoggedIn, FieldIs, Goto, fields, session
  <1>1. ASSUME NEW t \in Thread, Call(t) PROVE Sole'
    BY <1>1, SetupAssumption DEF Call, Start
  <1>2. ASSUME NEW t \in Thread, StoreStep(t) PROVE Sole'
    BY <1>2 DEF StoreStep, ReadRows, DeleteRows, SaveRow, Answer
  <1>3. ASSUME NEW t \in Thread, CutStep(t) \/ TellDisconnected(t) PROVE Sole'
    BY <1>3 DEF CutStep, CheckField, CutSession, Cut, TellDisconnected, Answer, Before, Within, After
  <1>4. ASSUME NEW t \in Thread, ConnectStep(t) PROVE Sole'
    <2>1. CASE CheckConnected(t) \/ ReadUser(t) BY <2>1 DEF CheckConnected, ReadUser, IsConnected
    <2>2. CASE Configure(t)
      <3>1. \A o \in Conn : link'[o] # "auth" BY <2>2, SetupAssumption DEF Configure
      <3> QED BY <2>2, <3>1 DEF Configure
    <2>3. CASE Dial(t) BY <2>3 DEF Dial
    <2>4. CASE Login(t) BY <2>4 DEF Login
    <2>5. CASE GetManager(t) \/ KeepManager(t) BY <2>5 DEF GetManager, KeepManager
    <2>6. CASE AddHandlers(t) \/ SetCallback(t) \/ NameListener(t)
      BY <2>6 DEF AddHandlers, SetCallback, NameListener
    <2>7. CASE Catch(t) BY <2>7 DEF Catch
    <2>8. CASE TellConnected(t) \/ BootEnds(t) BY <2>8 DEF TellConnected, BootEnds, Answer
    <2> QED BY <1>4, <2>1, <2>2, <2>3, <2>4, <2>5, <2>6, <2>7, <2>8 DEF ConnectStep
  <1>5. ASSUME NEW o \in Conn, Break(o) PROVE Sole' BY <1>5 DEF Break, threads
  <1>6. CASE Restart BY <1>6 DEF Restart
  <1>7. CASE UNCHANGED vars BY <1>7 DEF vars, threads
  <1> QED BY <1>1, <1>2, <1>3, <1>4, <1>5, <1>6, <1>7 DEF Next, ThreadStep

LEMMA SignedStep ==
  ASSUME OneAdministrator, TypeOK, Prepared, Sole, Signed, [Next]_vars
  PROVE  Signed'
  <1> USE DEF OneAdministrator, TypeOK, Signed, Signing, FieldIs, Goto, fields, session
  <1>1. ASSUME NEW t \in Thread, Call(t) PROVE Signed'
    BY <1>1, SetupAssumption DEF Call, Start
  <1>2. ASSUME NEW t \in Thread, StoreStep(t) PROVE Signed'
    BY <1>2 DEF StoreStep, ReadRows, DeleteRows, SaveRow, Answer
  <1>3. ASSUME NEW t \in Thread, CutStep(t) \/ TellDisconnected(t) PROVE Signed'
    BY <1>3 DEF CutStep, CheckField, CutSession, Cut, TellDisconnected, Answer, Before, Within, After
  <1>4. ASSUME NEW t \in Thread, ConnectStep(t) PROVE Signed'
    <2>1. CASE CheckConnected(t) \/ ReadUser(t) BY <2>1 DEF CheckConnected, ReadUser, IsConnected
    <2>2. CASE Configure(t) BY <2>2, SetupAssumption DEF Configure, Unused
    <2>3. CASE Dial(t) BY <2>3 DEF Dial, Sole
    <2>4. CASE Login(t) BY <2>4 DEF Login, Sole
    <2>5. CASE GetManager(t) \/ KeepManager(t) BY <2>5 DEF GetManager, KeepManager
    <2>6. CASE AddHandlers(t) \/ SetCallback(t) BY <2>6 DEF AddHandlers, SetCallback
    <2>7. CASE NameListener(t) BY <2>7 DEF NameListener
    <2>8. CASE Catch(t) BY <2>8 DEF Catch
    <2>9. CASE TellConnected(t) \/ BootEnds(t) BY <2>9 DEF TellConnected, BootEnds, Answer
    <2> QED BY <1>4, <2>1, <2>2, <2>3, <2>4, <2>5, <2>6, <2>7, <2>8, <2>9 DEF ConnectStep
  <1>5. ASSUME NEW o \in Conn, Break(o) PROVE Signed' BY <1>5 DEF Break, threads
  <1>6. CASE Restart BY <1>6 DEF Restart
  <1>7. CASE UNCHANGED vars BY <1>7 DEF vars, threads
  <1> QED BY <1>1, <1>2, <1>3, <1>4, <1>5, <1>6, <1>7 DEF Next, ThreadStep

\* A CIM with one administrator at a time is never logged in over a connection that its
\* field lost, whatever fails, breaks or restarts.
THEOREM SetupSoleSession ==
  ASSUME OneAdministrator PROVE Spec => []SoleSession
  <1>1. Init => Sole BY DEF Init, Sole, SoleSession, LoggedIn, FieldIs
  <1>2. Sole => SoleSession BY DEF Sole
  <1>3. TypeOK /\ Sole /\ [Next]_vars => Sole' BY SoleStep
  <1> QED BY <1>1, <1>2, <1>3, SetupInit, SetupStep, PTL DEF Spec

\* Only racing administrators leave a CIM logged in after a disconnect (the run of
\* DisconnectLeaves shows two): with one at a time, disconnect does what XmppSetupController
\* documents, whatever fails, breaks or restarts.
THEOREM SetupDisconnectLeaves ==
  ASSUME OneAdministrator PROVE Spec => DisconnectLeaves
  <1> DEFINE Leaves == \A t \in Thread : pc[t] = "disconnect.tell" /\ pc'[t] = "idle" /\ alone[t]
                            /\ reply'[t].code = 200 => \A o \in Conn : ~LoggedIn(o)'
  <1>1. Init => Sole BY DEF Init, Sole, SoleSession, LoggedIn, FieldIs
  <1>2. TypeOK /\ Sole /\ [Next]_vars => Sole' BY SoleStep
  <1>3. ASSUME TypeOK, Sole, [Next]_vars PROVE Leaves
    <2> SUFFICES ASSUME NEW t \in Thread, pc[t] = "disconnect.tell", pc'[t] = "idle",
                        reply'[t].code = 200, NEW o \in Conn
                 PROVE  link'[o] # "auth"
      BY DEF LoggedIn
    <2> USE DEF TypeOK, Goto, fields, session
    <2>1. CASE Restart BY <2>1 DEF Restart
    <2>2. CASE \E s \in Thread : ThreadStep(s)
      <3>1. ThreadStep(t) BY <2>2 DEF OneAdministrator
      <3>2. TellDisconnected(t)
        BY <3>1 DEF ThreadStep, Call, StoreStep, ReadRows, DeleteRows, SaveRow, CutStep, CheckField,
               CutSession, ConnectStep, CheckConnected, ReadUser, Configure, Dial, Login,
               GetManager, KeepManager,
               AddHandlers, SetCallback, NameListener, Catch, TellConnected, BootEnds, Before, Within
      <3>3. ~IsConnected BY <1>3, <3>2 DEF TellDisconnected, Answer, Reply
      <3>4. link[o] # "auth"
        BY <1>3, <3>3, SetupAssumption DEF Sole, SoleSession, LoggedIn, IsConnected, FieldIs
      <3> QED BY <3>2, <3>4 DEF TellDisconnected
    <2>3. ~UNCHANGED pc OBVIOUS
    <2>4. UNCHANGED vars \/ (\E c \in Conn : Break(c)) => UNCHANGED pc BY DEF vars, threads, Break
    <2> QED BY <1>3, <2>1, <2>2, <2>3, <2>4 DEF Next
  <1>4. DisconnectLeaves <=> [][Leaves]_vars BY DEF DisconnectLeaves
  <1> HIDE DEF Leaves
  <1> QED BY <1>1, <1>2, <1>3, <1>4, SetupInit, SetupStep, PTL DEF Spec

\* Such a CIM, logged in and at rest, listens, and signs with the user it is logged in as.
THEOREM SetupServedAtRest ==
  ASSUME OneAdministrator PROVE Spec => []ServedAtRest
  <1>1. Init => Sole /\ Signed BY DEF Init, Sole, Signed, Signing, SoleSession, LoggedIn, FieldIs
  <1>2. TypeOK /\ Sole /\ Signed => ServedAtRest
    <2> SUFFICES ASSUME TypeOK, Sole, Signed, AtRest, NEW o \in Conn, LoggedIn(o)
                 PROVE  o \in handled /\ listenerUser = owner[o]
      BY DEF ServedAtRest
    <2>1. o = connection BY DEF Sole, SoleSession
    <2>2. o # NoConn BY SetupAssumption
    <2> QED BY <2>1, <2>2 DEF Signed, Signing, AtRest, FieldIs, LoggedIn
  <1>3. TypeOK /\ Prepared /\ Sole /\ Signed /\ [Next]_vars => Sole' /\ Signed'
    BY SoleStep, SignedStep
  <1> QED BY <1>1, <1>2, <1>3, SetupInit, SetupStep, PTL DEF Spec

-----------------------------------------------------------------------------
(* The stored user.                                                        *)

LEMMA KeepsStep ==
  ASSUME "restart" \notin Faults, TypeOK, [Next]_vars, Kept
  PROVE  Kept'
  <1> USE DEF Kept, TypeOK, Goto, Answer, fields, session
  <1>1. ASSUME NEW t \in Thread, StoreStep(t)
        PROVE  Kept'
    BY <1>1 DEF StoreStep, ReadRows, DeleteRows, SaveRow
  <1>2. ASSUME NEW t \in Thread, ThreadStep(t), ~StoreStep(t)
        PROVE  UNCHANGED users /\ \A s \in Thread : pc[s] = "store.save" => pc'[s] = "store.save"
    BY <1>2 DEF ThreadStep, Call, CutStep, CheckField, CutSession, TellDisconnected, ConnectStep,
                CheckConnected, ReadUser, Configure, Dial, Login, GetManager, KeepManager,
                AddHandlers, SetCallback, NameListener,
                Catch, TellConnected, BootEnds, Before, Within, Booting
  <1>3. ASSUME NEW o \in Conn, Break(o) PROVE UNCHANGED <<users, pc>>
    BY <1>3 DEF Break, threads
  <1>4. CASE UNCHANGED vars BY <1>4 DEF vars, threads
  <1> QED BY <1>1, <1>2, <1>3, <1>4 DEF Next, Restart

\* However many administrators store their users at once, some user stays stored, as long as
\* the process lives.
THEOREM SetupKeepsAUser ==
  ASSUME "restart" \notin Faults PROVE Spec => KeepsAUser
  <1>1. TypeOK /\ [Next]_vars => [Kept => Kept']_vars BY KeepsStep
  <1> QED BY <1>1, SetupInit, SetupStep, PTL DEF Spec, KeepsAUser

\* Nobody works beside a thread that is alone; what it read is what it deletes.
Lone ==
    \A t \in Thread : alone[t] =>
        /\ pc[t] # "idle" => \A s \in Thread : s # t => pc[s] = "idle"
        /\ pc[t] = "store.delete" => gone[t] = users
        /\ pc[t] = "store.save" => users = {}

LEMMA LoneStep == TypeOK /\ Lone /\ [Next]_vars => Lone'
  <1> SUFFICES ASSUME TypeOK, Lone, [Next]_vars PROVE Lone' OBVIOUS
  <1> USE DEF TypeOK, Lone, Goto, fields, session
  <1>1. ASSUME NEW t \in Thread, Call(t) PROVE Lone'
    <2>1. PICK op \in {"connect", "disconnect", "store"} : pc' = [pc EXCEPT ![t] = Start[op]]
      BY <1>1, SetupAssumption DEF Call
    <2>2. pc'[t] \in {"connect.cut", "disconnect.cut", "store.read"}
      BY <2>1 DEF Start
    <2>3. \A s \in Thread : alone'[s] => s = t /\ \A x \in Thread : pc[x] = "idle"
      BY <1>1 DEF Call
    <2>4. \A s \in Thread : s # t => pc'[s] = pc[s] BY <2>1
    <2> QED BY <2>2, <2>3, <2>4
  <1>2. ASSUME NEW t \in Thread, StoreStep(t) PROVE Lone'
    BY <1>2 DEF StoreStep, ReadRows, DeleteRows, SaveRow, Answer
  <1>3. ASSUME NEW t \in Thread, CutStep(t) \/ TellDisconnected(t) PROVE Lone'
    BY <1>3 DEF CutStep, CheckField, CutSession, TellDisconnected, Answer, Before, Within, After
  <1>4. ASSUME NEW t \in Thread, ConnectStep(t) PROVE Lone'
    BY <1>4 DEF ConnectStep, CheckConnected, ReadUser, Configure, Dial, Login, GetManager,
                KeepManager, AddHandlers, SetCallback,
                NameListener, Catch, TellConnected, BootEnds, Booting, Answer
  <1>5. ASSUME NEW o \in Conn, Break(o) PROVE Lone' BY <1>5 DEF Break, threads
  <1>6. CASE Restart BY <1>6 DEF Restart
  <1>7. CASE UNCHANGED vars BY <1>7 DEF vars, threads
  <1> QED BY <1>1, <1>2, <1>3, <1>4, <1>5, <1>6, <1>7 DEF Next, ThreadStep

\* What a thread that is alone answers is its own step.
LEMMA LoneAnswer ==
  ASSUME TypeOK, Lone, [Next]_vars, NEW t \in Thread, alone[t], pc[t] # "idle", pc'[t] = "idle",
         reply'[t].code # 0
  PROVE  ThreadStep(t)
  <1>1. ~Restart
    <2> DEFINE boots == Reply("autoconnect", 0)
    <2>1. boots.code = 0 /\ NoReply.code = 0 BY DEF Reply, NoReply
    <2> HIDE DEF boots
    <2>2. ASSUME Restart PROVE reply'[t] \in {boots, NoReply}
      <3>1. CASE ~Autoconnect
        <4>1. reply' = [s \in Thread |-> NoReply] BY <2>2, <3>1 DEF Restart
        <4> QED BY <4>1
      <3>2. CASE Autoconnect
        <4>1. PICK boot \in Thread :
                reply' = [s \in Thread |-> IF s = boot THEN boots ELSE NoReply]
          BY <2>2, <3>2 DEF Restart, boots
        <4> QED BY <4>1
      <3> QED BY <3>1, <3>2
    <2> QED BY <2>1, <2>2
  <1>2. ASSUME NEW s \in Thread, s # t PROVE ~ThreadStep(s)
    <2>1. pc[s] = "idle" BY <1>2 DEF Lone
    <2>2. ThreadStep(s) => Call(s)
      BY <2>1 DEF ThreadStep, StoreStep, ReadRows, DeleteRows, SaveRow, CutStep, CheckField,
                  CutSession, TellDisconnected, ConnectStep, CheckConnected, ReadUser, Configure,
                  Dial, Login, GetManager, KeepManager, AddHandlers, SetCallback, NameListener,
                  Catch, TellConnected, BootEnds, Booting, Before, Within
    <2>3. Call(s) => pc'[t] = pc[t] BY <1>2 DEF Call, Goto, TypeOK
    <2> QED BY <2>2, <2>3
  <1>3. UNCHANGED vars \/ (\E o \in Conn : Break(o)) => pc' = pc BY DEF vars, threads, Break
  <1> QED BY <1>1, <1>2, <1>3 DEF Next

\* A store that nothing overlaps ends with its user as the only row, whatever races before it
\* left behind.
THEOREM SetupLoneStoreWins == Spec => LoneStoreWins
  <1> DEFINE Wins == \A t \in Thread : pc[t] = "store.save" /\ pc'[t] = "idle" /\ alone[t]
                            /\ reply'[t].code = 201 => users' = {user[t]}
  <1>1. Init => Lone BY DEF Init, Lone
  <1>2. ASSUME TypeOK, Lone, [Next]_vars PROVE Wins
    <2> SUFFICES ASSUME NEW t \in Thread, pc[t] = "store.save", pc'[t] = "idle", alone[t],
                        reply'[t].code = 201
                 PROVE  users' = {user[t]}
      OBVIOUS
    <2>1. ThreadStep(t) BY <1>2, LoneAnswer
    <2>2. SaveRow(t)
      BY <2>1 DEF ThreadStep, Call, StoreStep, ReadRows, DeleteRows, CutStep, CheckField,
             CutSession, TellDisconnected, ConnectStep, CheckConnected, ReadUser, Configure, Dial,
             Login, GetManager, KeepManager, AddHandlers, SetCallback, NameListener, Catch,
             TellConnected, BootEnds, Before, Within
    <2>3. users = {} /\ users' = users \cup {user[t]} BY <1>2, <2>2 DEF Lone, SaveRow
    <2> QED BY <2>3
  <1>3. LoneStoreWins <=> [][Wins]_vars BY DEF LoneStoreWins
  <1> HIDE DEF Wins
  <1> QED BY <1>1, <1>2, <1>3, LoneStep, SetupInit, SetupStep, PTL DEF Spec

-----------------------------------------------------------------------------
(* A connect that nothing overlaps.                                        *)

\* The CIM is logged in where the listener is, under the name the listener signs with.
Serves == FieldIs("auth") /\ connection \in handled /\ listenerUser = owner[connection]

\* What a connect leaves to its next step as long as nobody interferes: it starts from a CIM
\* that is not connected, and from Configure on the field is its own connection.
Undisturbed(t) ==
    /\ pc[t] # "idle" => reply[t] = NoReply
    /\ pc[t] \in {"connect.check", "connect.user", "connect.configure"} => ~IsConnected
    /\ pc[t] \in Signing => connection # NoConn /\ owner[connection] = user[t]
    /\ pc[t] \in Signing \ {"connect.dial", "connect.login"} => ~FieldIs("open")
    /\ pc[t] = "connect.keep" => obtained[t] = connection
    /\ pc[t] = "connect.handle" => manager = connection
    /\ pc[t] \in {"connect.callback", "connect.name"} => connection \in handled
    /\ pc[t] = "connect.tell" /\ IsConnected => Serves

LoneServes == \A t \in Thread : alone[t] => Undisturbed(t)

LEMMA UndisturbedConnect ==
  ASSUME TypeOK, NEW t \in Thread, Undisturbed(t), ConnectStep(t)
  PROVE  Undisturbed(t)'
  <1> USE DEF TypeOK, Goto, Undisturbed, Signing, Serves, IsConnected, FieldIs, fields, session
  <1>1. CASE CheckConnected(t) BY <1>1 DEF CheckConnected
  <1>2. CASE ReadUser(t) BY <1>2 DEF ReadUser
  <1>3. CASE Configure(t)
    <2>1. CASE Goto(t, "connect.catch")
      BY <1>3, <2>1 DEF Configure
    <2>2. CASE Goto(t, "connect.dial")
      BY <1>3, <2>2, SetupAssumption DEF Configure, Unused
    <2> QED BY <1>3, <2>1, <2>2 DEF Configure
  <1>4. CASE Dial(t) BY <1>4 DEF Dial
  <1>5. CASE Login(t) BY <1>5 DEF Login
  <1>6. CASE GetManager(t) BY <1>6 DEF GetManager
  <1>7. CASE KeepManager(t) BY <1>7 DEF KeepManager
  <1>8. CASE AddHandlers(t) BY <1>8 DEF AddHandlers
  <1>9. CASE SetCallback(t) BY <1>9 DEF SetCallback
  <1>10. CASE NameListener(t) BY <1>10 DEF NameListener
  <1>11. CASE Catch(t) BY <1>11 DEF Catch
  <1>12. CASE TellConnected(t) \/ BootEnds(t) BY <1>12 DEF TellConnected, BootEnds, Answer
  <1> QED BY <1>1, <1>2, <1>3, <1>4, <1>5, <1>6, <1>7, <1>8, <1>9, <1>10, <1>11, <1>12
          DEF ConnectStep

LEMMA LoneServesStep == TypeOK /\ Lone /\ LoneServes /\ [Next]_vars => LoneServes'
  <1> SUFFICES ASSUME TypeOK, Lone, LoneServes, [Next]_vars, NEW t \in Thread, alone'[t]
               PROVE  Undisturbed(t)'
    BY DEF LoneServes
  <1>1. ASSUME pc'[t] = "idle" PROVE Undisturbed(t)'
    BY <1>1 DEF Undisturbed, Signing
  <1>2. ASSUME NEW s \in Thread, Call(s) PROVE Undisturbed(t)'
    <2>1. s = t BY <1>2 DEF Call
    <2>2. PICK op \in {"connect", "disconnect", "store"} : pc' = [pc EXCEPT ![t] = Start[op]]
      BY <1>2, <2>1, SetupAssumption DEF Call, Goto
    <2>3. pc'[t] \in {"connect.cut", "disconnect.cut", "store.read"} BY <2>2 DEF Start, TypeOK
    <2>4. reply'[t] = NoReply BY <1>2, <2>1 DEF Call, TypeOK
    <2> QED BY <2>3, <2>4 DEF Undisturbed, Signing
  <1>3. ASSUME NEW s \in Thread, ThreadStep(s), ~Call(s) PROVE alone[t] /\ Undisturbed(t)'
    <2>1. alone' = alone
      BY <1>3 DEF ThreadStep, StoreStep, ReadRows, DeleteRows, SaveRow, CutStep, CheckField,
                  CutSession, TellDisconnected, ConnectStep, CheckConnected, ReadUser, Configure,
                  Dial, Login, GetManager, KeepManager, AddHandlers, SetCallback, NameListener,
                  Catch, TellConnected, BootEnds, Answer
    <2>2. Undisturbed(t) BY <2>1 DEF LoneServes
    <2>3. pc[s] # "idle"
      BY <1>3 DEF ThreadStep, StoreStep, ReadRows, DeleteRows, SaveRow, CutStep, CheckField,
                  CutSession, TellDisconnected, ConnectStep, CheckConnected, ReadUser, Configure,
                  Dial, Login, GetManager, KeepManager, AddHandlers, SetCallback, NameListener,
                  Catch, TellConnected, BootEnds, Booting, Before, Within
    <2>4. pc'[s] = "idle" \/ reply' = reply
      BY <1>3 DEF ThreadStep, StoreStep, ReadRows, DeleteRows, SaveRow, CutStep, CheckField,
                  CutSession, TellDisconnected, ConnectStep, CheckConnected, ReadUser, Configure,
                  Dial, Login, GetManager, KeepManager, AddHandlers, SetCallback, NameListener,
                  Catch, TellConnected, BootEnds, Answer, Goto, TypeOK
    <2>5. CASE s # t
      <3>1. pc[t] = "idle" BY <2>1, <2>3, <2>5 DEF Lone
      <3>2. pc'[t] = pc[t]
        BY <1>3, <2>5 DEF ThreadStep, StoreStep, ReadRows, DeleteRows, SaveRow, CutStep,
                  CheckField, CutSession, TellDisconnected, ConnectStep, CheckConnected, ReadUser,
                  Configure, Dial, Login, GetManager, KeepManager, AddHandlers, SetCallback,
                  NameListener, Catch, TellConnected, BootEnds, Answer, Goto, TypeOK
      <3> QED BY <1>1, <2>1, <3>1, <3>2
    <2>6. CASE s = t /\ (StoreStep(t) \/ TellDisconnected(t))
      <3>1. pc'[t] \in {"idle", "store.delete", "store.save"}
        BY <2>6 DEF StoreStep, ReadRows, DeleteRows, SaveRow, TellDisconnected, Answer, Goto, TypeOK
      <3> QED BY <2>1, <2>2, <2>3, <2>4, <2>6, <3>1 DEF Undisturbed, Signing
    <2>7. CASE s = t /\ CutStep(t)
      <3>1. pc'[t] \in {"idle", "connect.cutting", "disconnect.cutting", "disconnect.tell", "connect.check"}
        BY <2>7 DEF CutStep, CheckField, CutSession, Before, Within, After, Answer, Goto, TypeOK
      <3>2. pc'[t] = "connect.check" => ~IsConnected'
        BY <2>7 DEF CutStep, CheckField, CutSession, Cut, Before, Within, After, Answer, Goto,
                    IsConnected, FieldIs, TypeOK, fields, session
      <3> QED BY <2>1, <2>2, <2>3, <2>4, <2>7, <3>1, <3>2 DEF Undisturbed, Signing
    <2>8. CASE s = t /\ ConnectStep(t) BY <2>1, <2>2, <2>8, UndisturbedConnect
    <2> QED BY <1>3, <2>5, <2>6, <2>7, <2>8 DEF ThreadStep
  <1>4. ASSUME NEW o \in Conn, Break(o) PROVE Undisturbed(t)'
    <2>1. Undisturbed(t) BY <1>4 DEF Break, threads, LoneServes
    <2> QED BY <1>4, <2>1 DEF Break, threads, fields, TypeOK, Undisturbed, Signing, Serves,
                              IsConnected, FieldIs
  <1>5. ~Restart BY DEF Restart
  <1>6. CASE UNCHANGED vars
    BY <1>6 DEF vars, threads, fields, session, LoneServes, Undisturbed, Signing, Serves,
                IsConnected, FieldIs
  <1> QED BY <1>2, <1>3, <1>4, <1>5, <1>6 DEF Next

\* A connect that nothing overlaps and that answers 200 leaves the CIM logged in, listening and
\* signing with its own user, whatever races before it left in the fields.
THEOREM SetupLoneConnectServes == Spec => LoneConnectServes
  <1> DEFINE Connected == \A t \in Thread : pc[t] = "connect.tell" /\ pc'[t] = "idle" /\ alone[t]
                            /\ reply'[t].code = 200
                   => /\ LoggedIn(connection) /\ connection \in handled
                      /\ listenerUser = owner[connection]
  <1>1. Init => Lone /\ LoneServes BY DEF Init, Lone, LoneServes
  <1>2. ASSUME TypeOK, Lone, LoneServes, [Next]_vars PROVE Connected
    <2> SUFFICES ASSUME NEW t \in Thread, pc[t] = "connect.tell", pc'[t] = "idle", alone[t],
                        reply'[t].code = 200
                 PROVE  Serves
      BY DEF Serves, FieldIs, LoggedIn
    <2>1. ThreadStep(t) BY <1>2, LoneAnswer
    <2>2. TellConnected(t) \/ BootEnds(t)
      BY <2>1 DEF ThreadStep, Call, StoreStep, ReadRows, DeleteRows, SaveRow, CutStep, CheckField,
             CutSession, TellDisconnected, ConnectStep, CheckConnected, ReadUser, Configure, Dial,
             Login, GetManager, KeepManager, AddHandlers, SetCallback, NameListener, Catch,
             Before, Within
    <2>3. CASE TellConnected(t)
      <3>1. IsConnected BY <1>2, <2>3 DEF TellConnected, Answer, Reply, TypeOK
      <3> QED BY <1>2, <3>1 DEF LoneServes, Undisturbed
    <2>4. ~BootEnds(t)
      <3>1. reply[t] = NoReply BY <1>2 DEF LoneServes, Undisturbed
      <3> QED BY <3>1 DEF BootEnds, Booting, NoReply, Reply
    <2> QED BY <2>2, <2>3, <2>4
  <1>3. LoneConnectServes <=> [][Connected]_vars BY DEF LoneConnectServes
  <1> HIDE DEF Connected
  <1> QED BY <1>1, <1>2, <1>3, LoneStep, LoneServesStep, SetupInit, SetupStep, PTL DEF Spec

-----------------------------------------------------------------------------
(* What the network sees.                                                  *)

\* A connection is made for a stored user.
Owned ==
    /\ connection # NoConn => owner[connection] \in User
    /\ \A t \in Thread : pc[t] = "connect.configure" => user[t] \in User

LEMMA OwnedStep == TypeOK /\ Owned /\ [Next]_vars => Owned'
  <1> SUFFICES ASSUME TypeOK, Owned, [Next]_vars PROVE Owned' OBVIOUS
  <1> USE DEF TypeOK, Owned, Goto, fields, session
  <1>1. ASSUME NEW t \in Thread, Call(t) PROVE Owned'
    BY <1>1, SetupAssumption DEF Call, Start
  <1>2. ASSUME NEW t \in Thread, StoreStep(t) PROVE Owned'
    BY <1>2 DEF StoreStep, ReadRows, DeleteRows, SaveRow, Answer
  <1>3. ASSUME NEW t \in Thread, CutStep(t) \/ TellDisconnected(t) PROVE Owned'
    BY <1>3 DEF CutStep, CheckField, CutSession, Cut, TellDisconnected, Answer, Before, Within, After
  <1>4. ASSUME NEW t \in Thread, ConnectStep(t) PROVE Owned'
    <2>1. CASE CheckConnected(t) \/ ReadUser(t) BY <2>1, StoredUser DEF CheckConnected, ReadUser
    <2>2. CASE Configure(t) BY <2>2, SetupAssumption DEF Configure
    <2>3. CASE Dial(t) \/ Login(t) BY <2>3 DEF Dial, Login
    <2>4. CASE GetManager(t) \/ KeepManager(t) \/ AddHandlers(t) \/ SetCallback(t) \/ NameListener(t)
      BY <2>4 DEF GetManager, KeepManager, AddHandlers, SetCallback, NameListener
    <2>5. CASE Catch(t) BY <2>5 DEF Catch
    <2>6. CASE TellConnected(t) \/ BootEnds(t) BY <2>6 DEF TellConnected, BootEnds, Answer
    <2> QED BY <1>4, <2>1, <2>2, <2>3, <2>4, <2>5, <2>6 DEF ConnectStep
  <1>5. ASSUME NEW o \in Conn, Break(o) PROVE Owned' BY <1>5 DEF Break, threads
  <1>6. CASE Restart BY <1>6 DEF Restart
  <1>7. CASE UNCHANGED vars BY <1>7 DEF vars, threads
  <1> QED BY <1>1, <1>2, <1>3, <1>4, <1>5, <1>6, <1>7 DEF Next, ThreadStep

\* Whom the CIM is logged in as, as PeerSession is told and by the field alone.
Seen == IF \E o \in Conn : LoggedIn(o) THEN owner[CHOOSE o \in Conn : LoggedIn(o)] ELSE NoUser
Bearer == IF FieldIs("auth") THEN owner[connection] ELSE NoUser

SeenBears == Seen = Bearer

LEMMA SeenIsBearer == TypeOK /\ SoleSession => SeenBears
  <1> SUFFICES ASSUME TypeOK, SoleSession PROVE Seen = Bearer BY DEF SeenBears
  <1>1. CASE \E o \in Conn : LoggedIn(o)
    <2>1. (CHOOSE o \in Conn : LoggedIn(o)) = connection BY <1>1 DEF SoleSession
    <2>2. FieldIs("auth") BY <1>1, SetupAssumption DEF SoleSession, FieldIs, LoggedIn
    <2> QED BY <1>1, <2>1, <2>2 DEF Seen, Bearer
  <1>2. CASE ~\E o \in Conn : LoggedIn(o)
    <2>1. ~FieldIs("auth") BY <1>2 DEF FieldIs, LoggedIn, TypeOK
    <2> QED BY <1>2, <2>1 DEF Seen, Bearer
  <1> QED BY <1>1, <1>2

\* A CIM that is logged in before and after a step is so as the same user.
LEMMA BearerKept ==
  ASSUME TypeOK, Sole, [Next]_vars, FieldIs("auth"), FieldIs("auth")'
  PROVE  owner'[connection'] = owner[connection]
  <1> USE DEF TypeOK, Sole, FieldIs, fields, session
  <1>1. ASSUME NEW t \in Thread, StoreStep(t) \/ Call(t) \/ CutStep(t) \/ TellDisconnected(t)
        PROVE  UNCHANGED <<connection, owner>>
    BY <1>1 DEF StoreStep, ReadRows, DeleteRows, SaveRow, Call, CutStep, CheckField, CutSession,
                TellDisconnected
  <1>2. ASSUME NEW t \in Thread, Configure(t) PROVE FALSE BY <1>2 DEF Configure
  <1>3. ASSUME NEW t \in Thread, Catch(t) PROVE FALSE BY <1>3 DEF Catch
  <1>4. ASSUME NEW t \in Thread, ConnectStep(t), ~Configure(t), ~Catch(t)
        PROVE  UNCHANGED <<connection, owner>>
    BY <1>4 DEF ConnectStep, CheckConnected, ReadUser, Dial, Login, GetManager, KeepManager,
                AddHandlers, SetCallback, NameListener,
                TellConnected, BootEnds
  <1>5. ASSUME NEW o \in Conn, Break(o) PROVE UNCHANGED <<connection, owner>> BY <1>5 DEF Break
  <1>6. ~Restart BY DEF Restart
  <1>7. UNCHANGED vars => UNCHANGED <<connection, owner>> BY DEF vars
  <1> QED BY <1>1, <1>2, <1>3, <1>4, <1>5, <1>6, <1>7 DEF Next, ThreadStep

\* The network sees a CIM with one administrator at a time log out before it logs in as
\* another user, or again as the same: the administration implements PeerSession.
THEOREM SetupIsOnePeer ==
  ASSUME OneAdministrator PROVE Spec => OnePeer
  <1>1. Init => Sole /\ Owned
    BY DEF Init, Sole, SoleSession, LoggedIn, FieldIs, Owned
  <1>2. Init => Peer!Init BY DEF Init, Peer!Init, LoggedIn
  <1>3. TypeOK /\ Sole /\ [Next]_vars => Sole' BY SoleStep
  <1>4. ASSUME TypeOK, Sole, Owned, [Next]_vars, TypeOK', Sole', Owned',
               SeenBears, SeenBears'
        PROVE  [Peer!Next]_Seen
    <2> USE DEF SeenBears
    <2>1. CASE FieldIs("auth") /\ FieldIs("auth")'
      BY <1>4, <2>1, BearerKept DEF Bearer
    <2>2. CASE FieldIs("auth") /\ ~FieldIs("auth")'
      <3>1. Seen # NoUser BY <1>4, <2>2, SetupAssumption DEF Bearer, Owned, FieldIs
      <3>2. Seen' = NoUser BY <1>4, <2>2 DEF Bearer
      <3>3. Peer!Logout BY <3>1, <3>2 DEF Peer!Logout, Seen
      <3> QED BY <3>3 DEF Peer!Next
    <2>3. CASE ~FieldIs("auth") /\ FieldIs("auth")'
      <3>1. Seen = NoUser BY <1>4, <2>3 DEF Bearer
      <3>2. Seen' \in User BY <1>4, <2>3 DEF Bearer, Owned, FieldIs
      <3>3. \E u \in User : Peer!Login(u) BY <3>1, <3>2 DEF Peer!Login, Seen
      <3> QED BY <3>3 DEF Peer!Next
    <2>4. CASE ~FieldIs("auth") /\ ~FieldIs("auth")'
      BY <1>4, <2>4 DEF Bearer
    <2> QED BY <2>1, <2>2, <2>3, <2>4
  <1>5. Sole => SoleSession BY DEF Sole
  <1> QED BY <1>1, <1>2, <1>3, <1>4, <1>5, SetupInit, SetupStep, OwnedStep, SeenIsBearer, PTL
          DEF Spec, OnePeer, Peer!Spec, Seen
=============================================================================
