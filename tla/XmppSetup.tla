------------------------------ MODULE XmppSetup -----------------------------
(***************************************************************************)
(* The administration of a CIM's connection to the peer-to-peer network:   *)
(* XmppSetupController and the fields and rows XMPPService keeps for it.   *)
(*                                                                         *)
(* Every call of the REST interface runs in a thread of its own.  Nothing  *)
(* is locked: connect and disconnect read the field `connection' anew at   *)
(* every line, a failed connect sets it to null, and the stored XMPP user  *)
(* is replaced by a delete and a save.                                     *)
(***************************************************************************)
EXTENDS Naturals, FiniteSets

CONSTANTS
    Thread,     \* the threads that serve administrators
    User,       \* the XMPP users they may store
    Operations, \* what administrators do
    Conn,       \* the XMPPTCPConnection objects there can be at a time
    NoConn,     \* null
    NoUser,     \* null
    Faults,     \* what may go wrong: config, dial, login, break, restart
    Autoconnect \* the property xmpp.autoconnection

ASSUME SetupAssumption ==
    /\ NoConn \notin Conn
    /\ NoUser \notin User
    /\ Operations \subseteq {"connect", "disconnect", "store"}
    /\ Autoconnect \in BOOLEAN

VARIABLES
    users,        \* the rows of XmppUserRepository
    connection,   \* the field XMPPService.connection
    manager,      \* whose ChatManager the field chatManagerReceiver is
    listenerUser, \* XmppMessageListener.xmppUser
    link,         \* link[o]: what the connection object o is to the server
    owner,        \* owner[o]: the user o was configured with
    handled,      \* the connections whose chat manager has the listener
    pc,           \* pc[t]: where thread t is
    user,         \* user[t]: the user t stores, or connects with
    gone,         \* gone[t]: the rows t is about to delete
    obtained,     \* obtained[t]: whose ChatManager t asked for and has not stored yet
    reply,        \* reply[t]: the operation t last answered, and how
    alone         \* alone[t]: no other thread was at work since t started

fields  == <<connection, manager, listenerUser>>
session == <<link, owner, handled>>
threads == <<pc, user, gone, obtained, reply, alone>>
vars == <<users, fields, session, threads>>

-----------------------------------------------------------------------------
\* The stored user, null unless there is exactly one row.
XmppUser == IF \E u \in User : users = {u} THEN CHOOSE u \in User : users = {u} ELSE NoUser

FieldIs(state) == connection # NoConn /\ link[connection] = state
IsConnected == FieldIs("open") \/ FieldIs("auth")

Reply(op, code) == [op |-> op, code |-> code]
NoReply == Reply("none", 0)

Init ==
    /\ users = {}
    /\ connection = NoConn /\ manager = NoConn /\ listenerUser = NoUser
    /\ link = [o \in Conn |-> "closed"]
    /\ owner = [o \in Conn |-> NoUser]
    /\ handled = {}
    /\ pc = [t \in Thread |-> "idle"]
    /\ user = [t \in Thread |-> NoUser]
    /\ gone = [t \in Thread |-> {}]
    /\ obtained = [t \in Thread |-> NoConn]
    /\ reply = [t \in Thread |-> NoReply]
    /\ alone = [t \in Thread |-> FALSE]

Goto(t, there) == pc' = [pc EXCEPT ![t] = there]

\* Thread t is done: it did op and answers with code.
Answer(t, op, code) ==
    /\ Goto(t, "idle")
    /\ reply' = [reply EXCEPT ![t] = Reply(op, code)]
    /\ UNCHANGED <<user, gone, obtained, alone>>

-----------------------------------------------------------------------------
(* A call comes in, with a valid token.                                    *)

Start == [connect |-> "connect.cut", disconnect |-> "disconnect.cut", store |-> "store.read"]

\* The application connects on its own account before it serves any call.
Booting(t) == pc[t] # "idle" /\ reply[t].op = "autoconnect"

\* alone is history.
Call(t) ==
    /\ pc[t] = "idle" /\ \A s \in Thread : ~Booting(s)
    /\ \E op \in Operations, u \in User :
        /\ Goto(t, Start[op])
        /\ user' = [user EXCEPT ![t] = IF op = "store" THEN u ELSE NoUser]
    /\ reply' = [reply EXCEPT ![t] = NoReply]
    /\ alone' = [s \in Thread |-> s = t /\ \A x \in Thread : pc[x] = "idle"]
    /\ UNCHANGED <<users, fields, session, gone, obtained>>

-----------------------------------------------------------------------------
(* updateXmppUser: deleteAll, a transaction that reads the rows and deletes *)
(* them one by one, then save, another one.                                *)

\* Mutated: only the user that is in use is replaced.
ReadRows_Usable(t) ==
    /\ pc[t] = "store.read"
    /\ gone' = [gone EXCEPT ![t] = users \cap {XmppUser}]
    /\ Goto(t, "store.delete")
    /\ UNCHANGED <<users, fields, session, user, obtained, reply, alone>>

ReadRows(t) ==
    /\ pc[t] = "store.read"
    /\ gone' = [gone EXCEPT ![t] = users]
    /\ Goto(t, "store.delete")
    /\ UNCHANGED <<users, fields, session, user, obtained, reply, alone>>

\* Mutated: the rows are deleted outside any transaction, up to the one that is missing.
DeleteRows_Partial(t) ==
    /\ pc[t] = "store.delete"
    /\ users' = users \ gone[t]
    /\ IF gone[t] \subseteq users
       THEN Goto(t, "store.save") /\ UNCHANGED <<user, gone, obtained, reply, alone>>
       ELSE Answer(t, "store", 500)
    /\ UNCHANGED <<fields, session>>

\* A row that somebody else deleted meanwhile makes the transaction fail.
DeleteRows(t) ==
    /\ pc[t] = "store.delete"
    /\ \/ /\ gone[t] \subseteq users
          /\ users' = users \ gone[t]
          /\ Goto(t, "store.save")
          /\ UNCHANGED <<user, gone, obtained, reply, alone>>
       \/ /\ ~(gone[t] \subseteq users)
          /\ Answer(t, "store", 500)
          /\ UNCHANGED users
    /\ UNCHANGED <<fields, session>>

SaveRow(t) ==
    /\ pc[t] = "store.save"
    /\ users' = users \cup {user[t]}
    /\ Answer(t, "store", 201)
    /\ UNCHANGED <<fields, session>>

-----------------------------------------------------------------------------
(* disconnect: the field is read for the comparison and again for the call. *)

Cut == link' = [link EXCEPT ![connection] = "closed"]

Before == [connect |-> "connect.cut", disconnect |-> "disconnect.cut"]
Within == [connect |-> "connect.cutting", disconnect |-> "disconnect.cutting"]
After  == [connect |-> "connect.check", disconnect |-> "disconnect.tell"]

CheckField(t, op) ==
    /\ pc[t] = Before[op]
    /\ Goto(t, IF connection = NoConn THEN After[op] ELSE Within[op])
    /\ UNCHANGED <<users, fields, session, user, gone, obtained, reply, alone>>

\* Mutated: the field is cleared, the connection is not closed.
CutSession_Forget(t, op) ==
    /\ pc[t] = Within[op]
    /\ connection' = NoConn
    /\ Goto(t, After[op])
    /\ UNCHANGED <<users, manager, listenerUser, session, user, gone, obtained, reply, alone>>

\* Set to null meanwhile, the field throws.
CutSession(t, op) ==
    /\ pc[t] = Within[op]
    /\ \/ /\ connection # NoConn /\ Cut
          /\ Goto(t, After[op])
          /\ UNCHANGED <<user, gone, obtained, reply, alone>>
       \/ /\ connection = NoConn
          /\ Answer(t, op, 500)
          /\ UNCHANGED link
    /\ UNCHANGED <<users, fields, owner, handled>>

TellDisconnected(t) ==
    /\ pc[t] = "disconnect.tell"
    /\ Answer(t, "disconnect", IF IsConnected THEN 409 ELSE 200)
    /\ UNCHANGED <<users, fields, session>>

-----------------------------------------------------------------------------
(* connect, and its private namesake.                                      *)

CheckConnected(t) ==
    /\ pc[t] = "connect.check"
    /\ Goto(t, IF IsConnected THEN "connect.tell" ELSE "connect.user")
    /\ UNCHANGED <<users, fields, session, user, gone, obtained, reply, alone>>

ReadUser(t) ==
    /\ pc[t] = "connect.user"
    /\ user' = [user EXCEPT ![t] = XmppUser]
    /\ Goto(t, IF XmppUser = NoUser THEN "connect.tell" ELSE "connect.configure")
    /\ UNCHANGED <<users, fields, session, gone, obtained, reply, alone>>

\* The certificates are read, and a new connection object takes the field: one that
\* nothing refers to any more.
Unused(o) ==
    link[o] = "closed" /\ o \notin {connection, manager} /\ \A t \in Thread : obtained[t] # o

Configure(t) ==
    /\ pc[t] = "connect.configure"
    /\ \/ /\ \E o \in Conn :
              /\ Unused(o)
              /\ connection' = o
              /\ owner' = [owner EXCEPT ![o] = user[t]]
              /\ handled' = handled \ {o}
          /\ Goto(t, "connect.dial")
       \/ /\ "config" \in Faults
          /\ Goto(t, "connect.catch")
          /\ UNCHANGED <<connection, owner, handled>>
    /\ UNCHANGED <<users, manager, listenerUser, link, user, gone, obtained, reply, alone>>

\* connection.connect(): fails on null, on a connected object, and with the network.
Dial(t) ==
    /\ pc[t] = "connect.dial"
    /\ \/ /\ FieldIs("closed")
          /\ link' = [link EXCEPT ![connection] = "open"]
          /\ Goto(t, "connect.login")
       \/ /\ ~FieldIs("closed") \/ "dial" \in Faults
          /\ Goto(t, "connect.catch")
          /\ UNCHANGED link
    /\ UNCHANGED <<users, fields, owner, handled, user, gone, obtained, reply, alone>>

\* connection.login(): also fails on wrong credentials, and leaves the socket open.
Login(t) ==
    /\ pc[t] = "connect.login"
    /\ \/ /\ FieldIs("open")
          /\ link' = [link EXCEPT ![connection] = "auth"]
          /\ Goto(t, "connect.manager")
       \/ /\ ~FieldIs("open") \/ "login" \in Faults
          /\ Goto(t, "connect.catch")
          /\ UNCHANGED link
    /\ UNCHANGED <<users, fields, owner, handled, user, gone, obtained, reply, alone>>

\* Mutated: does not notice that there is no connection any more.
GetManager_Null(t) ==
    /\ pc[t] = "connect.manager"
    /\ obtained' = [obtained EXCEPT ![t] = connection]
    /\ Goto(t, "connect.keep")
    /\ UNCHANGED <<users, fields, session, user, gone, reply, alone>>

\* ChatManager.getInstanceFor: one manager for each connection object, an exception for null.
GetManager(t) ==
    /\ pc[t] = "connect.manager"
    /\ obtained' = [obtained EXCEPT ![t] = connection]
    /\ Goto(t, IF connection = NoConn THEN "connect.catch" ELSE "connect.keep")
    /\ UNCHANGED <<users, fields, session, user, gone, reply, alone>>

\* Mutated: a chat manager that was found once is kept.
KeepManager_Cached(t) ==
    /\ pc[t] = "connect.keep"
    /\ manager' = IF manager = NoConn THEN obtained[t] ELSE manager
    /\ obtained' = [obtained EXCEPT ![t] = NoConn]
    /\ Goto(t, "connect.handle")
    /\ UNCHANGED <<users, connection, listenerUser, session, user, gone, reply, alone>>

\* The field takes the manager, whoever's connection `connection' is by now.
KeepManager(t) ==
    /\ pc[t] = "connect.keep"
    /\ manager' = obtained[t]
    /\ obtained' = [obtained EXCEPT ![t] = NoConn]
    /\ Goto(t, "connect.handle")
    /\ UNCHANGED <<users, connection, listenerUser, session, user, gone, reply, alone>>

\* The listener goes to the manager the field holds by now.
AddHandlers(t) ==
    /\ pc[t] = "connect.handle"
    /\ handled' = handled \cup {manager}
    /\ Goto(t, "connect.callback")
    /\ UNCHANGED <<users, fields, link, owner, user, gone, obtained, reply, alone>>

\* Then the field `connection' is used once more.
SetCallback(t) ==
    /\ pc[t] = "connect.callback"
    /\ Goto(t, IF connection = NoConn THEN "connect.catch" ELSE "connect.name")
    /\ UNCHANGED <<users, fields, session, user, gone, obtained, reply, alone>>

\* Mutated: the listener is named once and for all.
NameListener_Once(t) ==
    /\ pc[t] = "connect.name"
    /\ listenerUser' = IF listenerUser = NoUser THEN user[t] ELSE listenerUser
    /\ Goto(t, "connect.tell")
    /\ UNCHANGED <<users, connection, manager, session, user, gone, obtained, reply, alone>>

NameListener(t) ==
    /\ pc[t] = "connect.name"
    /\ listenerUser' = user[t]
    /\ Goto(t, "connect.tell")
    /\ UNCHANGED <<users, connection, manager, session, user, gone, obtained, reply, alone>>

\* Mutated: the connection that failed stays in the field.
Catch_Keep(t) ==
    /\ pc[t] = "connect.catch"
    /\ Goto(t, "connect.tell")
    /\ UNCHANGED <<users, fields, session, user, gone, obtained, reply, alone>>

\* Every catch block: connection = null, whoever's connection that is.
Catch(t) ==
    /\ pc[t] = "connect.catch"
    /\ connection' = NoConn
    /\ Goto(t, "connect.tell")
    /\ UNCHANGED <<users, manager, listenerUser, session, user, gone, obtained, reply, alone>>

\* The answer asks for the stored user again, and fails without one.
TellConnected(t) ==
    /\ pc[t] = "connect.tell" /\ ~Booting(t)
    /\ Answer(t, "connect", IF XmppUser = NoUser THEN 500
                            ELSE IF IsConnected THEN 200 ELSE 409)
    /\ UNCHANGED <<users, fields, session>>

BootEnds(t) ==
    /\ Booting(t) /\ pc[t] = "connect.tell"
    /\ Goto(t, "idle")
    /\ UNCHANGED <<users, fields, session, user, gone, obtained, reply, alone>>

-----------------------------------------------------------------------------
\* The server or the network closes a connection; the fields still point at it.
Break(o) ==
    /\ "break" \in Faults
    /\ link[o] # "closed"
    /\ link' = [link EXCEPT ![o] = "closed"]
    /\ UNCHANGED <<users, fields, owner, handled, threads>>

\* The application stops (disconnectPeer closes the connection, the sockets die with the
\* process) and starts again: only the rows are left.  It may connect by itself.
Restart ==
    /\ "restart" \in Faults
    /\ connection' = NoConn /\ manager' = NoConn /\ listenerUser' = NoUser
    /\ link' = [o \in Conn |-> "closed"]
    /\ handled' = {}
    /\ user' = [t \in Thread |-> NoUser]
    /\ gone' = [t \in Thread |-> {}]
    /\ obtained' = [t \in Thread |-> NoConn]
    /\ alone' = [t \in Thread |-> FALSE]
    /\ \/ /\ ~Autoconnect
          /\ pc' = [t \in Thread |-> "idle"]
          /\ reply' = [t \in Thread |-> NoReply]
       \/ /\ Autoconnect
          /\ \E boot \in Thread :
                /\ pc' = [t \in Thread |-> IF t = boot THEN "connect.check" ELSE "idle"]
                /\ reply' = [t \in Thread |-> IF t = boot THEN Reply("autoconnect", 0) ELSE NoReply]
    /\ UNCHANGED <<users, owner>>

-----------------------------------------------------------------------------
StoreStep(t) == ReadRows(t) \/ DeleteRows(t) \/ SaveRow(t)

CutStep(t) == \E op \in {"connect", "disconnect"} : CheckField(t, op) \/ CutSession(t, op)

ConnectStep(t) ==
    \/ CheckConnected(t) \/ ReadUser(t) \/ Configure(t) \/ Dial(t) \/ Login(t)
    \/ GetManager(t) \/ KeepManager(t) \/ AddHandlers(t) \/ SetCallback(t)
    \/ NameListener(t) \/ Catch(t)
    \/ TellConnected(t) \/ BootEnds(t)

ThreadStep(t) == Call(t) \/ StoreStep(t) \/ CutStep(t) \/ TellDisconnected(t) \/ ConnectStep(t)

Next == (\E t \in Thread : ThreadStep(t)) \/ (\E o \in Conn : Break(o)) \/ Restart

Spec == Init /\ [][Next]_vars

-----------------------------------------------------------------------------
(* Correctness.                                                            *)

Places == {"idle", "store.read", "store.delete", "store.save",
           "disconnect.cut", "disconnect.cutting", "disconnect.tell",
           "connect.cut", "connect.cutting", "connect.check", "connect.user",
           "connect.configure", "connect.dial", "connect.login", "connect.manager",
           "connect.keep", "connect.handle", "connect.callback", "connect.name",
           "connect.catch", "connect.tell"}

Replies == [op : {"connect", "disconnect", "store", "none", "autoconnect"},
            code : {0, 200, 201, 409, 500}]

\* Every variable stays within its type: in particular the listener is only ever added to
\* the chat manager of a connection that exists.
TypeOK ==
    /\ users \subseteq User
    /\ connection \in Conn \cup {NoConn}
    /\ manager \in Conn \cup {NoConn}
    /\ listenerUser \in User \cup {NoUser}
    /\ link \in [Conn -> {"closed", "open", "auth"}]
    /\ owner \in [Conn -> User \cup {NoUser}]
    /\ handled \subseteq Conn
    /\ pc \in [Thread -> Places]
    /\ user \in [Thread -> User \cup {NoUser}]
    /\ gone \in [Thread -> SUBSET User]
    /\ obtained \in [Thread -> Conn \cup {NoConn}]
    /\ reply \in [Thread -> Replies]
    /\ alone \in [Thread -> BOOLEAN]

AtRest == \A t \in Thread : pc[t] = "idle"
LoggedIn(o) == link[o] = "auth"

\* One administrator at a time never logs the CIM in twice: whatever fails or breaks, a
\* connection that is logged in is the one of the field, which disconnect can reach.
SoleSession == \A o \in Conn : LoggedIn(o) => o = connection

\* With one administrator at a time a CIM that is logged in and at rest handles its
\* messages, and its listener signs them with the user it is logged in as.
ServedAtRest ==
    AtRest => \A o \in Conn : LoggedIn(o) => o \in handled /\ listenerUser = owner[o]

\* No race leaves the CIM half connected: at rest, a CIM that tells its clients it is
\* connected is logged in, whoever dialled, logged in or gave up last.
NeverHalfOpen == AtRest /\ IsConnected => LoggedIn(connection)

\* A race may leave a CIM that is logged in without a listener, or with one that signs with
\* another name.  Connecting again repairs it: after a connect that no other call overlaps
\* and that answers 200 the CIM is logged in, listens on that connection and signs with the
\* user it is logged in as, whatever managers, names and objects earlier calls left in the
\* fields.
LoneConnectServes ==
    [][\A t \in Thread : pc[t] = "connect.tell" /\ pc'[t] = "idle" /\ alone[t]
                            /\ reply'[t].code = 200
          => /\ LoggedIn(connection) /\ connection \in handled
             /\ listenerUser = owner[connection]]_vars

\* The network sees a CIM with one administrator at a time log out before it logs in again.
Peer == INSTANCE PeerSession
            WITH Nobody <- NoUser,
                 peer <- IF \E o \in Conn : LoggedIn(o)
                         THEN owner[CHOOSE o \in Conn : LoggedIn(o)] ELSE NoUser
OnePeer == Peer!Spec

\* A user is stored, or about to be.
Kept == users # {} \/ \E t \in Thread : pc[t] = "store.save"

\* Once there is a stored user, there always is one when no store is about to save,
\* however many administrators store theirs, as long as the process lives.
KeepsAUser == [][Kept => Kept']_vars

\* A store that no other call overlaps leaves its user as the only row, whatever earlier
\* ones left behind.
LoneStoreWins ==
    [][\A t \in Thread : pc[t] = "store.save" /\ pc'[t] = "idle" /\ alone[t]
                            /\ reply'[t].code = 201 => users' = {user[t]}]_vars

\* What XmppSetupController documents of disconnect ("Disconnects from the peer-to-peer
\* network"): one that no other call overlaps and that answers 200 leaves no connection
\* of the CIM logged in.
DisconnectLeaves ==
    [][\A t \in Thread : pc[t] = "disconnect.tell" /\ pc'[t] = "idle" /\ alone[t]
                            /\ reply'[t].code = 200 => \A o \in Conn : ~LoggedIn(o)']_vars
=============================================================================
