---------------------------- MODULE Federation ----------------------------
(***************************************************************************)
(* Federated queries: CloudService.federateQuery asks every CIM of the     *)
(* access control list, one after the other, through the REST interface of *)
(* its own server.  The query holds a thread of the server while it waits, *)
(* and each of its requests needs another one of the same pool: first to   *)
(* be forwarded to the peer, later to write the response.                  *)
(*                                                                         *)
(* What comes back is matched as in CimExchange: a message of any peer     *)
(* resolves every request whose listener was registered when the message   *)
(* was dispatched and that has no result yet.  Requests the query gave up  *)
(* waiting for keep their listener.                                        *)
(*                                                                         *)
(* Both pairs of timeouts the code sets on its HTTP client (line 45 here,  *)
(* and the lines of RequestProcessor) are finite, and either may be the    *)
(* one a request gets: a query may give up at any time, and does at last.  *)
(***************************************************************************)
EXTENDS Naturals, Sequences, FiniteSets

CONSTANTS
    Query,        \* the federated queries of a behaviour
    Peer,         \* the other CIMs
    Listed,       \* the users of the access control list when each query reads it
    MaxThreads,   \* server.tomcat.max-threads
    MaxOdd,       \* bound: how often a request is refused, expires or meets something else
    None          \* no peer, no request

Request == Query \X Peer         \* <<q, p>>: the request of q for peer p

ASSUME FederationAssumption ==
    /\ IsFiniteSet(Query) /\ IsFiniteSet(Peer)
    /\ Listed \in [Query -> SUBSET Peer]
    /\ MaxThreads \in Nat /\ MaxOdd \in Nat
    /\ None \notin Peer /\ None \notin Request

VARIABLES
    pc, left, at,   \* of a query: its place, the peers left to ask, the peer it asked last
    got,            \* of a query: per peer asked, whose rows were added
    rest,           \* of a request: how far the REST controller is
    result,         \* of a request: what its DeferredResult holds
    listeners,      \* the requests whose response listener is registered
    asked,          \* the requests that were sent to a peer and not answered
    net,            \* messages of each peer, oldest first
    worker,         \* the worker of the chat with each peer
    odd,            \* how often that happened
    calm            \* history: nothing disturbed the query so far

queryVars == <<pc, left, at, got>>
wireVars == <<listeners, asked, net, worker>>
vars == <<queryVars, rest, result, wireVars, odd, calm>>

\* The body of a message or response, as far as the query looks at it: results with rows (of the
\* request they answer), or anything without rows.
Rows(s) == [kind |-> "rows", of |-> s]
Other == [kind |-> "other", of |-> None]
Body == {Rows(s) : s \in Request} \cup {Other}
NoBody == [kind |-> "none", of |-> None]

Idle == [msg |-> NoBody, todo |-> {}]

Init ==
    /\ pc = [q \in Query |-> "new"]
    /\ left = [q \in Query |-> {}]
    /\ at = [q \in Query |-> None]
    /\ got = [q \in Query |-> [p \in Peer |-> None]]
    /\ rest = [s \in Request |-> "none"]
    /\ result = [s \in Request |-> NoBody]
    /\ listeners = {} /\ asked = {}
    /\ net = [p \in Peer |-> <<>>]
    /\ worker = [p \in Peer |-> Idle]
    /\ odd = 0
    /\ calm = [q \in Query |-> FALSE]

-----------------------------------------------------------------------------
(* The threads of the server. *)

Running(q) == pc[q] = "waiting"
ThreadFree == Cardinality({q \in Query : Running(q)}) < MaxThreads

\* Nothing an earlier query left behind is still on its way.
Settled ==
    /\ \A q \in Query : ~Running(q)
    /\ \A s \in Request : rest[s] # "queued"
    /\ asked = {}
    /\ \A p \in Peer : net[p] = <<>> /\ worker[p] = Idle

\* What is neither a request on its way nor rows that come back.
Disturb ==
    /\ odd < MaxOdd /\ odd' = odd + 1
    /\ calm' = [q \in Query |-> calm[q] /\ ~Running(q)]
Usual == UNCHANGED <<odd, calm>>

\* The query still waits for this response.
Awaited(s) == Running(s[1]) /\ at[s[1]] = s[2]

-----------------------------------------------------------------------------
(* The query. *)

\* The loop over the endpoints goes on with any of the peers that are left (a HashSet), or ends:
\* the answer is written with 200 and the bindings that were found, and the thread is given back.
Proceed(q, peers) ==
    \/ /\ peers = {}
       /\ pc' = [pc EXCEPT ![q] = "done"]
       /\ at' = [at EXCEPT ![q] = None]
       /\ UNCHANGED <<left, rest>>
    \/ \E p \in peers :
         /\ pc' = [pc EXCEPT ![q] = "waiting"]
         /\ at' = [at EXCEPT ![q] = p]
         /\ left' = [left EXCEPT ![q] = peers \ {p}]
         /\ rest' = [rest EXCEPT ![<<q, p>>] = "queued"]

\* The controller gets a thread and reads the access control list.
Ask(q) ==
    /\ pc[q] = "new" /\ ThreadFree
    /\ Proceed(q, Listed[q])
    /\ calm' = [r \in Query |-> IF r = q THEN Settled ELSE calm[r] /\ ~Running(r)]
    /\ UNCHANGED <<got, result, wireVars, odd>>

\* Mutated: the bindings of the last answer take the place of the ones before.
Collect_Replace(q) ==
    /\ Running(q) /\ rest[<<q, at[q]>>] = "answered"
    /\ got' = [got EXCEPT ![q] = [p \in Peer |-> IF p = at[q] THEN result[<<q, p>>].of ELSE None]]
    /\ Proceed(q, left[q])
    /\ UNCHANGED <<result, wireVars, odd, calm>>

\* The response: its bindings are added.  A response that cannot be parsed or has no bindings is
\* an exception the loop catches.
Collect(q) ==
    /\ Running(q) /\ rest[<<q, at[q]>>] = "answered"
    /\ got' = [got EXCEPT ![q][at[q]] = result[<<q, at[q]>>].of]
    /\ Proceed(q, left[q])
    /\ UNCHANGED <<result, wireVars, odd, calm>>

\* Mutated: the time only runs once the server has taken the request.
GiveUp_Served(q) ==
    /\ Running(q) /\ rest[<<q, at[q]>>] = "served"
    /\ Proceed(q, left[q])
    /\ calm' = [calm EXCEPT ![q] = FALSE]
    /\ UNCHANGED <<got, result, wireVars, odd>>

\* The timeout of the HTTP client: also an exception the loop catches.  The server still has the
\* request.
GiveUp(q) ==
    /\ Running(q) /\ rest[<<q, at[q]>>] # "answered"
    /\ Proceed(q, left[q])
    /\ calm' = [calm EXCEPT ![q] = FALSE]
    /\ UNCHANGED <<got, result, wireVars, odd>>

-----------------------------------------------------------------------------
(* The REST interface of the same server (getResource, sendMessage). *)

\* A thread takes the request, registers its listener and sends it to the peer, or refuses it by
\* the access control list; without a connection it is answered at once, and without a valid
\* token never.  The thread waits for nothing, so it is back in the pool when the step ends.
Serve(s) ==
    /\ rest[s] = "queued" /\ ThreadFree
    /\ \/ /\ listeners' = listeners \cup {s}
          /\ asked' = asked \cup {s}
          /\ rest' = [rest EXCEPT ![s] = "served"]
          /\ Usual
          /\ UNCHANGED result
       \/ /\ listeners' \in {listeners, listeners \cup {s}}
          /\ result' = [result EXCEPT ![s] = Other]
          /\ rest' = [rest EXCEPT ![s] = "answered"]
          /\ Disturb
          /\ UNCHANGED asked
       \/ /\ rest' = [rest EXCEPT ![s] = "served"]
          /\ Disturb
          /\ UNCHANGED <<result, listeners, asked>>
    /\ UNCHANGED <<queryVars, net, worker>>

\* Mutated: the thread of the request is kept and writes what there is.
Commit_Early(s) ==
    /\ Awaited(s) /\ rest[s] = "served" /\ ThreadFree
    /\ rest' = [rest EXCEPT ![s] = "answered"]
    /\ UNCHANGED <<queryVars, result, wireVars, odd, calm>>

\* A result that was set later is written by another thread of the pool; what happens to a
\* response nobody waits for any more does not matter.
Commit(s) ==
    /\ Awaited(s) /\ rest[s] = "served" /\ result[s] # NoBody /\ ThreadFree
    /\ rest' = [rest EXCEPT ![s] = "answered"]
    /\ UNCHANGED <<queryVars, result, wireVars, odd, calm>>

\* spring.mvc.async.request-timeout.
Expire(s) ==
    /\ Awaited(s) /\ rest[s] = "served" /\ result[s] = NoBody
    /\ result' = [result EXCEPT ![s] = Other]
    /\ Disturb
    /\ UNCHANGED <<queryVars, rest, wireVars>>

-----------------------------------------------------------------------------
(* The peers, and the workers of their chats. *)

Send(p, body) == net' = [net EXCEPT ![p] = Append(@, body)]

\* A peer may answer, in any order, or never.
PeerAnswers(s) ==
    /\ s \in asked
    /\ asked' = asked \ {s}
    /\ \/ Send(s[2], Rows(s)) /\ Usual
       \/ Send(s[2], Other) /\ Disturb
    /\ UNCHANGED <<queryVars, rest, result, listeners, worker>>

\* A peer has requests of its own, which the response listeners take for answers as well.
PeerRequests(p) ==
    /\ Send(p, Other)
    /\ Disturb
    /\ UNCHANGED <<queryVars, rest, result, listeners, asked, worker>>

\* A message is handed to the listeners that are registered now; one whose request has a result
\* already does nothing that is modelled here.
Open == {s \in listeners : result[s] = NoBody}
Dispatch(p) ==
    /\ worker[p] = Idle /\ net[p] # <<>>
    /\ net' = [net EXCEPT ![p] = Tail(@)]
    /\ worker' = [worker EXCEPT ![p] = IF Open = {} THEN Idle
                                       ELSE [msg |-> Head(net[p]), todo |-> Open]]
    /\ UNCHANGED <<queryVars, rest, result, listeners, asked, odd, calm>>

\* The result is set once; a second one is ignored.
Resolve(s, body) == IF result[s] = NoBody THEN [result EXCEPT ![s] = body] ELSE result

\* Mutated: the listeners that are registered by now are run, not those of the snapshot.
RunListener_Live(p) ==
    /\ worker[p] # Idle
    /\ \E s \in listeners :
         /\ result' = Resolve(s, worker[p].msg)
         /\ worker' = [worker EXCEPT ![p] = IF Open \ {s} = {} THEN Idle ELSE @]
    /\ UNCHANGED <<queryVars, rest, listeners, asked, net, odd, calm>>

\* What is left of a worker's job after the listener of s.
After(job, s) == IF job.todo = {s} THEN Idle ELSE [msg |-> job.msg, todo |-> job.todo \ {s}]

\* newIncomingMessage of a response listener (XMPPService); their order does not matter here.
RunListener(p) ==
    /\ \E s \in worker[p].todo :
         /\ result' = Resolve(s, worker[p].msg)
         /\ worker' = [worker EXCEPT ![p] = After(worker[p], s)]
    /\ UNCHANGED <<queryVars, rest, listeners, asked, net, odd, calm>>

-----------------------------------------------------------------------------
QueryStep(q) == Collect(q) \/ GiveUp(q)
RestStep(s) == Serve(s) \/ Commit(s)
WorkerStep(p) == Dispatch(p) \/ RunListener(p)
Next ==
    \/ \E q \in Query : Ask(q) \/ QueryStep(q)
    \/ \E s \in Request : RestStep(s) \/ Expire(s) \/ PeerAnswers(s)
    \/ \E p \in Peer : PeerRequests(p) \/ WorkerStep(p)

\* The threads of the server and the workers of the chats run; the time of a request runs out.
\* Nothing makes a client ask or a peer answer.
Fairness ==
    /\ \A q \in Query : WF_vars(QueryStep(q))
    /\ \A s \in Request : WF_vars(RestStep(s))
    /\ \A p \in Peer : WF_vars(WorkerStep(p))
Spec == Init /\ [][Next]_vars /\ Fairness

-----------------------------------------------------------------------------
(* Properties. *)

QueryType ==
    /\ pc \in [Query -> {"new", "waiting", "done"}]
    /\ left \in [Query -> SUBSET Peer]
    /\ at \in [Query -> Peer \cup {None}]
    /\ \A q \in Query : Running(q) <=> at[q] \in Peer
    /\ got \in [Query -> [Peer -> Request \cup {None}]]
    /\ calm \in [Query -> BOOLEAN]
RequestType ==
    /\ rest \in [Request -> {"none", "queued", "served", "answered"}]
    /\ result \in [Request -> Body \cup {NoBody}]
    /\ \A s \in Request : rest[s] = "answered" => result[s] # NoBody
    /\ listeners \subseteq Request /\ asked \subseteq Request
    /\ \A s \in listeners : rest[s] \in {"served", "answered"}
    /\ odd \in Nat
WireType ==
    /\ net \in [Peer -> Seq(Body)]
    /\ worker \in [Peer -> [msg : Body \cup {NoBody}, todo : SUBSET Request]]
    /\ \A p \in Peer : worker[p].todo \subseteq listeners
PoolLimit == Cardinality({q \in Query : Running(q)}) <= MaxThreads

\* Types, the limit of the pool, and how far a request is that has a result or a listener: what
\* is written as its response is a result that was set, and a listener that runs is registered.
TypeOK == QueryType /\ RequestType /\ WireType /\ PoolLimit

\* A query never counts the rows of one answer twice, although an answer that comes late may be
\* taken for the one of the next peer, and resolves several requests of the query
\* (CloudService 43-55, XMPPService 249-275).
NoRowTwice ==
    \A q \in Query : \A p1, p2 \in Peer :
      got[q][p1] # None /\ got[q][p1] = got[q][p2] => p1 = p2

\* A query that has the server for itself, with peers that answer it in time, has the rows of
\* every peer, each under the peer that sent it, whatever queries before it left registered.
FullAnswer ==
    \A q \in Query : pc[q] = "done" /\ calm[q] => \A p \in Listed[q] : got[q][p] = <<q, p>>

\* Every query ends, also when the queries hold all the threads of the server and none is left
\* for the requests they wait for.
QueryEnds == \A q \in Query : Running(q) ~> pc[q] = "done"
=============================================================================
