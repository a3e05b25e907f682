-------------------------- MODULE FederationProofs --------------------------
(***************************************************************************)
(* Proofs about Federation: its types and the limit of the thread pool,    *)
(* and that a query never counts the rows of one answer twice.             *)
(*                                                                         *)
(* The second rests on where the rows of a request can be.  They are on    *)
(* their way in one place only, the sequence of the peer's messages; once  *)
(* they left it (Gone) they may be in many places, a worker, results and   *)
(* the rows a query has added.  Of those, a query only ever looks at the   *)
(* response it waits for, and the next one it waits for is new.            *)
(***************************************************************************)
EXTENDS Federation, FiniteSetTheorems, SequenceTheorems, TLAPS

\* The requests the server has not seen so far.
Unserved == {s \in Request : rest[s] \in {"none", "queued"}}

\* The requests whose rows are not on their way, and never will be again.
Gone ==
    {s \in Request : /\ s \notin asked /\ s \notin Unserved
                     /\ \A i \in DOMAIN net[s[2]] : net[s[2]][i].of # s}

\* What a query still has to ask was not requested, and a request the server has not seen left
\* no trace.
Fresh ==
    /\ \A q \in Query : \A p \in Peer :
         pc[q] = "new" \/ p \in left[q] => rest[<<q, p>>] = "none"
    /\ \A s \in Request : s \in Unserved => result[s] = NoBody /\ s \notin asked

\* Rows on their way come from the peer that was asked, once.
OneMessage ==
    \A p \in Peer : \A i, j \in DOMAIN net[p] :
      net[p][i].of # None =>
        /\ net[p][i].of[2] = p
        /\ net[p][i].of \notin asked /\ net[p][i].of \notin Unserved
        /\ net[p][i].of = net[p][j].of => i = j

\* Rows that are anywhere else are not on their way any more.
Past ==
    /\ \A p \in Peer : worker[p].msg.of \in Gone \cup {None}
    /\ \A s \in Request : result[s].of \in Gone \cup {None}
    /\ \A q \in Query : \A p \in Peer : got[q][p] \in Gone \cup {None}

\* The response a query waits for, set or about to be set, has no rows the query has already.
New ==
    \A q \in Query : Running(q) =>
      LET s == <<q, at[q]>> IN
      /\ result[s].of # None => \A p \in Peer : got[q][p] # result[s].of
      /\ \A x \in Peer : s \in worker[x].todo /\ worker[x].msg.of # None =>
           \A p \in Peer : got[q][p] # worker[x].msg.of

RowInv == OneMessage /\ Past /\ New /\ NoRowTwice

TypeInv == TypeOK /\ Fresh

-----------------------------------------------------------------------------
(* Types. *)

LEMMA BodyOf == \A b \in Body \cup {NoBody} : b.of \in Request \cup {None}
  BY DEF Body, Rows, Other, NoBody

LEMMA InitType == Init => TypeInv
  <1> SUFFICES ASSUME Init PROVE TypeInv OBVIOUS
  <1> USE DEF Init
  <1>1. QueryType BY FederationAssumption DEF QueryType, Running
  <1>2. RequestType BY DEF RequestType
  <1>3. WireType BY DEF WireType, Idle
  <1>4. PoolLimit
    <2>1. {q \in Query : Running(q)} = {} BY DEF Running
    <2>2. Cardinality({}) = 0 BY FS_EmptySet
    <2>3. Cardinality({q \in Query : Running(q)}) = 0 BY <2>1, <2>2, Zenon
    <2>4. 0 <= MaxThreads BY FederationAssumption
    <2> QED BY <2>3, <2>4, Zenon DEF PoolLimit
  <1>5. Fresh BY DEF Fresh, Request
  <1> QED BY <1>1, <1>2, <1>3, <1>4, <1>5 DEF TypeInv, TypeOK

\* One more thread is taken at most, and only when one is free.
LEMMA PoolStep ==
  ASSUME PoolLimit, NEW q \in Query, ThreadFree \/ Running(q),
         \A r \in Query \ {q} : Running(r)' => Running(r)
  PROVE  PoolLimit'
  <1> DEFINE B == {r \in Query : Running(r)}
  <1> DEFINE C == {r \in Query : Running(r)'}
  <1>1. IsFiniteSet(Query) BY FederationAssumption
  <1>2. IsFiniteSet(B) /\ Cardinality(B) \in Nat BY <1>1, FS_Subset, FS_CardinalityType
  <1>3. IsFiniteSet(B \cup {q}) /\
        Cardinality(B \cup {q}) = IF q \in B THEN Cardinality(B) ELSE Cardinality(B) + 1
    BY <1>2, FS_AddElement
  <1>4. C \subseteq B \cup {q} OBVIOUS
  <1>5. Cardinality(C) <= Cardinality(B \cup {q}) /\ Cardinality(C) \in Nat
    BY <1>3, <1>4, FS_Subset, FS_CardinalityType
  <1>6. Cardinality(B \cup {q}) <= MaxThreads
    BY <1>2, <1>3, FederationAssumption DEF PoolLimit, ThreadFree
  <1>7. Cardinality(B \cup {q}) \in Nat BY <1>2, <1>3
  <1>8. Cardinality(C) <= MaxThreads BY <1>5, <1>6, <1>7, FederationAssumption
  <1> QED BY <1>8 DEF PoolLimit

\* The loop keeps the types, and what it asks next is new.
LEMMA ProceedType ==
  ASSUME TypeInv, NEW q \in Query, NEW peers \in SUBSET Peer, Proceed(q, peers),
         pc[q] = "new" \/ peers = left[q]
  PROVE  /\ pc' \in [Query -> {"new", "waiting", "done"}]
         /\ left' \in [Query -> SUBSET Peer]
         /\ at' \in [Query -> Peer \cup {None}]
         /\ \A r \in Query : Running(r)' <=> at'[r] \in Peer
         /\ \A r \in Query \ {q} : pc'[r] = pc[r] /\ left'[r] = left[r] /\ at'[r] = at[r]
         /\ rest' \in [Request -> {"none", "queued", "served", "answered"}]
         /\ \A s \in Request :
              rest'[s] = rest[s] \/ (rest[s] = "none" /\ rest'[s] = "queued")
         /\ \A r \in Query : \A p \in Peer :
              pc'[r] = "new" \/ p \in left'[r] => rest'[<<r, p>>] = "none"
         /\ Running(q)' => rest[<<q, at'[q]>>] = "none"
  <1> USE DEF TypeInv, TypeOK, QueryType, RequestType, Running
  <1>1. CASE /\ peers = {}
             /\ pc' = [pc EXCEPT ![q] = "done"]
             /\ at' = [at EXCEPT ![q] = None]
             /\ UNCHANGED <<left, rest>>
    BY <1>1, FederationAssumption DEF Fresh
  <1>2. CASE \E p \in peers :
               /\ pc' = [pc EXCEPT ![q] = "waiting"]
               /\ at' = [at EXCEPT ![q] = p]
               /\ left' = [left EXCEPT ![q] = peers \ {p}]
               /\ rest' = [rest EXCEPT ![<<q, p>>] = "queued"]
    <2>1. PICK p \in peers : /\ pc' = [pc EXCEPT ![q] = "waiting"]
                             /\ at' = [at EXCEPT ![q] = p]
                             /\ left' = [left EXCEPT ![q] = peers \ {p}]
                             /\ rest' = [rest EXCEPT ![<<q, p>>] = "queued"]
      BY <1>2
    <2>2. <<q, p>> \in Request /\ rest[<<q, p>>] = "none" BY DEF Fresh, Request
    <2>3. pc' \in [Query -> {"new", "waiting", "done"}] /\ left' \in [Query -> SUBSET Peer]
          /\ at' \in [Query -> Peer \cup {None}]
      BY <2>1
    <2>4. \A r \in Query : Running(r)' <=> at'[r] \in Peer BY <2>1
    <2>5. \A r \in Query \ {q} : pc'[r] = pc[r] /\ left'[r] = left[r] /\ at'[r] = at[r]
      BY <2>1
    <2>6. rest' \in [Request -> {"none", "queued", "served", "answered"}] BY <2>1, <2>2
    <2>7. \A s \in Request : rest'[s] = rest[s] \/ (rest[s] = "none" /\ rest'[s] = "queued")
      BY <2>1, <2>2
    <2>8. ASSUME NEW r \in Query, NEW b \in Peer, pc'[r] = "new" \/ b \in left'[r]
          PROVE  rest'[<<r, b>>] = "none"
      <3>1. <<r, b>> \in Request BY DEF Request
      <3>2. <<r, b>> # <<q, p>> BY <2>1, <2>8
      <3>3. rest[<<r, b>>] = "none" BY <2>1, <2>8 DEF Fresh
      <3> QED BY <2>1, <3>1, <3>2, <3>3
    <2>9. at'[q] = p BY <2>1
    <2> QED BY <2>2, <2>3, <2>4, <2>5, <2>6, <2>7, <2>8, <2>9
  <1> QED BY <1>1, <1>2 DEF Proceed

\* Which queries run is a matter of pc.
LEMMA PoolKept == ASSUME PoolLimit, UNCHANGED pc PROVE PoolLimit'
  BY DEF PoolLimit, Running

\* A query that goes on to its next peer.
LEMMA QueryTypeStep ==
  ASSUME TypeInv, NEW q \in Query, NEW peers \in SUBSET Peer, Proceed(q, peers),
         (ThreadFree /\ pc[q] = "new") \/ (Running(q) /\ peers = left[q]),
         got' \in [Query -> [Peer -> Request \cup {None}]],
         calm' \in [Query -> BOOLEAN],
         UNCHANGED <<result, wireVars, odd>>
  PROVE  TypeInv'
  <1>0. pc[q] = "new" \/ peers = left[q] OBVIOUS
  <1>1. QueryType' BY <1>0, ProceedType DEF QueryType
  <1>2. RequestType'
    <2>1. \A s \in Request : rest'[s] = rest[s] \/ (rest[s] = "none" /\ rest'[s] = "queued")
      BY <1>0, ProceedType
    <2>2. rest' \in [Request -> {"none", "queued", "served", "answered"}] BY <1>0, ProceedType
    <2> QED BY <2>1, <2>2 DEF TypeInv, TypeOK, RequestType, wireVars
  <1>3. WireType' BY DEF TypeInv, TypeOK, WireType, wireVars
  <1>4. PoolLimit'
    <2>1. \A r \in Query \ {q} : pc'[r] = pc[r] BY <1>0, ProceedType
    <2>2. \A r \in Query \ {q} : Running(r)' => Running(r) BY <2>1 DEF Running
    <2> QED BY <2>2, PoolStep DEF TypeInv, TypeOK
  <1>5. Fresh'
    <2>1. \A r \in Query : \A p \in Peer :
            pc'[r] = "new" \/ p \in left'[r] => rest'[<<r, p>>] = "none"
      BY <1>0, ProceedType
    <2>2. \A s \in Request : rest'[s] = rest[s] \/ (rest[s] = "none" /\ rest'[s] = "queued")
      BY <1>0, ProceedType
    <2> QED BY <2>1, <2>2 DEF TypeInv, Fresh, Unserved, wireVars
  <1> QED BY <1>1, <1>2, <1>3, <1>4, <1>5 DEF TypeInv, TypeOK

\* A request that gets on leaves nothing unserved behind.
LEMMA RestTypeStep ==
  ASSUME TypeInv, UNCHANGED <<queryVars, net, worker>>, calm' \in [Query -> BOOLEAN],
         RequestType', listeners \subseteq listeners',
         \A s \in Request : rest[s] = "none" => rest'[s] = "none",
         \A s \in Request : s \in Unserved' => s \in Unserved /\ result'[s] = result[s]
                                           /\ (s \in asked' => s \in asked)
  PROVE  TypeInv'
  <1> USE DEF TypeInv, TypeOK, queryVars
  <1>1. QueryType' BY DEF QueryType, Running
  <1>2. WireType' BY DEF WireType
  <1>3. PoolLimit' BY PoolKept
  <1>4. Fresh' BY DEF Fresh, Request
  <1> QED BY <1>1, <1>2, <1>3, <1>4

\* A step of the peers or the workers leaves the queries and the server alone.
LEMMA WireTypeStep ==
  ASSUME TypeInv, UNCHANGED <<queryVars, rest, listeners>>,
         WireType', calm' \in [Query -> BOOLEAN], odd' \in Nat, asked' \subseteq asked,
         result' \in [Request -> Body \cup {NoBody}],
         \A s \in Request : result'[s] # result[s] => result[s] = NoBody /\ s \in listeners
  PROVE  TypeInv'
  <1> USE DEF TypeInv, TypeOK, queryVars
  <1>1. QueryType' BY DEF QueryType, Running
  <1>2. RequestType' BY DEF RequestType
  <1>3. PoolLimit' BY PoolKept
  <1>4. Fresh' BY DEF Fresh, Unserved, RequestType
  <1> QED BY <1>1, <1>2, <1>3, <1>4

LEMMA OddType ==
  ASSUME TypeInv, Disturb \/ Usual PROVE calm' \in [Query -> BOOLEAN] /\ odd' \in Nat
  <1>1. calm \in [Query -> BOOLEAN] /\ odd \in Nat
    BY DEF TypeInv, TypeOK, QueryType, RequestType
  <1>2. CASE Usual BY <1>1, <1>2 DEF Usual
  <1>3. CASE Disturb
    <2>1. calm' = [q \in Query |-> calm[q] /\ ~Running(q)] BY <1>3 DEF Disturb
    <2>2. \A q \in Query : (calm[q] /\ ~Running(q)) \in BOOLEAN BY <1>1
    <2>3. calm' \in [Query -> BOOLEAN] BY <2>1, <2>2, Zenon
    <2> QED BY <1>1, <1>3, <2>3 DEF Disturb
  <1> QED BY <1>2, <1>3

LEMMA SendType ==
  ASSUME TypeInv, NEW p \in Peer, NEW b \in Body, Send(p, b)
  PROVE  net' \in [Peer -> Seq(Body)]
  <1>1. Append(net[p], b) \in Seq(Body) BY DEF TypeInv, TypeOK, WireType
  <1> QED BY <1>1 DEF Send, TypeInv, TypeOK, WireType

LEMMA TypeStep == TypeInv /\ [Next]_vars => TypeInv'
  <1> SUFFICES ASSUME TypeInv, [Next]_vars PROVE TypeInv' OBVIOUS
  <1> USE DEF TypeInv, TypeOK
  <1>1. ASSUME NEW q \in Query, Ask(q) PROVE TypeInv'
    <2>1. calm' \in [Query -> BOOLEAN] BY <1>1 DEF Ask, Settled, QueryType, Running
    <2>2. Listed[q] \in SUBSET Peer BY FederationAssumption
    <2>3. Proceed(q, Listed[q]) /\ ThreadFree /\ pc[q] = "new" BY <1>1 DEF Ask
    <2>4. UNCHANGED <<result, wireVars, odd>> BY <1>1 DEF Ask, wireVars
    <2>5. got' \in [Query -> [Peer -> Request \cup {None}]] BY <1>1 DEF Ask, QueryType
    <2> QED BY <2>1, <2>2, <2>3, <2>4, <2>5, QueryTypeStep
  <1>2. ASSUME NEW q \in Query, Collect(q) PROVE TypeInv'
    <2>1. at[q] \in Peer /\ left[q] \in SUBSET Peer BY <1>2 DEF Collect, QueryType
    <2>2. result[<<q, at[q]>>].of \in Request \cup {None}
      BY <2>1, BodyOf DEF RequestType, Request
    <2>3. got' \in [Query -> [Peer -> Request \cup {None}]]
      BY <1>2, <2>1, <2>2 DEF Collect, QueryType
    <2> QED BY <1>2, <2>1, <2>3, QueryTypeStep DEF Collect, QueryType
  <1>3. ASSUME NEW q \in Query, GiveUp(q) PROVE TypeInv'
    <2>1. left[q] \in SUBSET Peer BY DEF QueryType
    <2>2. calm' \in [Query -> BOOLEAN] BY <1>3 DEF GiveUp, QueryType
    <2> QED BY <1>3, <2>1, <2>2, QueryTypeStep DEF GiveUp, QueryType
  <1>4. ASSUME NEW s \in Request, Serve(s) PROVE TypeInv'
    <2>1. calm' \in [Query -> BOOLEAN] /\ odd' \in Nat BY <1>4, OddType DEF Serve
    <2>2. RequestType'
      BY <1>4, <2>1 DEF Serve, RequestType, Body, Other, NoBody
    <2>3. \A x \in Request : x # s => rest'[x] = rest[x] /\ result'[x] = result[x]
                                     /\ (x \in asked' => x \in asked)
      BY <1>4 DEF Serve, RequestType
    <2>4. rest'[s] \in {"served", "answered"} /\ rest[s] = "queued"
      BY <1>4 DEF Serve, RequestType
    <2>5. listeners \subseteq listeners' /\ UNCHANGED <<queryVars, net, worker>>
      BY <1>4 DEF Serve
    <2> QED BY <2>1, <2>2, <2>3, <2>4, <2>5, RestTypeStep DEF Unserved
  <1>5. ASSUME NEW s \in Request, Commit(s) PROVE TypeInv'
    <2>1. RequestType' BY <1>5 DEF Commit, RequestType, wireVars
    <2>2. \A x \in Request : x # s => rest'[x] = rest[x] BY <1>5 DEF Commit, RequestType
    <2>3. rest'[s] = "answered" /\ rest[s] = "served" BY <1>5 DEF Commit, RequestType
    <2>4. UNCHANGED <<queryVars, net, worker, listeners, asked, result, calm>>
      BY <1>5 DEF Commit, wireVars
    <2>5. calm' \in [Query -> BOOLEAN] BY <2>4 DEF QueryType
    <2> QED BY <2>1, <2>2, <2>3, <2>4, <2>5, RestTypeStep DEF Unserved
  <1>6. ASSUME NEW s \in Request, Expire(s) PROVE TypeInv'
    <2>1. calm' \in [Query -> BOOLEAN] /\ odd' \in Nat BY <1>6, OddType DEF Expire
    <2>2. UNCHANGED <<queryVars, rest, net, worker, listeners, asked>>
      BY <1>6 DEF Expire, wireVars
    <2>3. RequestType' BY <1>6, <2>1, <2>2 DEF Expire, RequestType, Body, Other, NoBody
    <2>4. \A x \in Request : x # s => result'[x] = result[x] BY <1>6 DEF Expire, RequestType
    <2>5. rest[s] = "served" BY <1>6 DEF Expire
    <2> QED BY <2>1, <2>2, <2>3, <2>4, <2>5, RestTypeStep DEF Unserved
  <1>7. ASSUME NEW s \in Request, PeerAnswers(s) PROVE TypeInv'
    <2>1. calm' \in [Query -> BOOLEAN] /\ odd' \in Nat BY <1>7, OddType DEF PeerAnswers
    <2>2. s[2] \in Peer /\ Rows(s) \in Body /\ Other \in Body BY DEF Request, Body
    <2>3. net' \in [Peer -> Seq(Body)] BY <1>7, <2>2, SendType DEF PeerAnswers
    <2>4. UNCHANGED <<queryVars, rest, result, listeners, worker>> /\ asked' \subseteq asked
      BY <1>7 DEF PeerAnswers
    <2>5. WireType' BY <2>3, <2>4 DEF WireType
    <2> QED BY <2>1, <2>4, <2>5, WireTypeStep DEF RequestType
  <1>8. ASSUME NEW p \in Peer, PeerRequests(p) PROVE TypeInv'
    <2>1. calm' \in [Query -> BOOLEAN] /\ odd' \in Nat BY <1>8, OddType DEF PeerRequests
    <2>2. Other \in Body BY DEF Body
    <2>3. net' \in [Peer -> Seq(Body)] BY <1>8, <2>2, SendType DEF PeerRequests
    <2>4. UNCHANGED <<queryVars, rest, result, listeners, worker, asked>>
      BY <1>8 DEF PeerRequests
    <2>5. WireType' BY <2>3, <2>4 DEF WireType
    <2> QED BY <2>1, <2>4, <2>5, WireTypeStep DEF RequestType
  <1>9. ASSUME NEW p \in Peer, Dispatch(p) PROVE TypeInv'
    <2>1. net[p] \in Seq(Body) /\ net[p] # <<>> BY <1>9 DEF Dispatch, WireType
    <2>2. Head(net[p]) \in Body /\ Tail(net[p]) \in Seq(Body) BY <2>1
    <2>3. Open \subseteq listeners BY DEF Open
    <2>4. UNCHANGED <<queryVars, rest, result, listeners, asked, odd, calm>>
      BY <1>9 DEF Dispatch
    <2>5. WireType'
      BY <1>9, <2>2, <2>3, <2>4 DEF Dispatch, WireType, RequestType, Idle
    <2> QED BY <2>4, <2>5, WireTypeStep DEF RequestType, QueryType
  <1>10. ASSUME NEW p \in Peer, RunListener(p) PROVE TypeInv'
    <2>1. PICK s \in worker[p].todo :
            /\ result' = Resolve(s, worker[p].msg)
            /\ worker' = [worker EXCEPT ![p] = After(worker[p], s)]
      BY <1>10 DEF RunListener
    <2>2. s \in listeners /\ s \in Request BY DEF WireType, RequestType
    <2>3. result' \in [Request -> Body \cup {NoBody}]
          /\ \A x \in Request : result'[x] # result[x] => result[x] = NoBody /\ x \in listeners
      BY <2>1, <2>2 DEF Resolve, RequestType, WireType
    <2>4. UNCHANGED <<queryVars, rest, listeners, asked, net, odd, calm>>
      BY <1>10 DEF RunListener
    <2>5. WireType' BY <2>1, <2>4 DEF WireType, Idle, After
    <2> QED BY <2>3, <2>4, <2>5, WireTypeStep DEF RequestType, QueryType
  <1>11. CASE UNCHANGED vars
    <2>1. UNCHANGED <<queryVars, rest, result, listeners, asked, net, worker, odd, calm>>
      BY <1>11 DEF vars, wireVars
    <2>2. WireType' BY <2>1 DEF WireType
    <2> QED BY <2>1, <2>2, WireTypeStep DEF RequestType, QueryType
  <1> QED BY <1>1, <1>2, <1>3, <1>4, <1>5, <1>6, <1>7, <1>8, <1>9, <1>10, <1>11
          DEF Next, QueryStep, RestStep, WorkerStep

\* What comes back to a federated query, and how many threads wait for it (CloudService.federateQuery,
\* application.properties:1).
THEOREM FederationTypeCorrect == Spec => []TypeOK
  <1>1. TypeInv => TypeOK BY DEF TypeInv
  <1> QED BY <1>1, InitType, TypeStep, PTL DEF Spec

-----------------------------------------------------------------------------
(* No row twice. *)

LEMMA NoRows == Other.of = None /\ NoBody.of = None /\ \A s : Rows(s).of = s
  BY DEF Other, NoBody, Rows

LEMMA NetElement ==
  ASSUME TypeInv, NEW p \in Peer, NEW i \in DOMAIN net[p]
  PROVE  net[p][i] \in Body /\ net[p][i].of \in Request \cup {None}
  <1>1. net[p][i] \in Body BY DEF TypeInv, TypeOK, WireType
  <1> QED BY <1>1, BodyOf

LEMMA RowInit == Init => RowInv
  <1> SUFFICES ASSUME Init PROVE RowInv OBVIOUS
  <1> USE NoRows DEF Init
  <1>1. OneMessage BY DEF OneMessage
  <1>2. Past BY DEF Past, Idle
  <1>3. New BY DEF New, Running
  <1>4. NoRowTwice BY DEF NoRowTwice
  <1> QED BY <1>1, <1>2, <1>3, <1>4 DEF RowInv

\* Where nothing is sent and nothing is taken back, rows that are gone stay gone.
LEMMA GoneKept ==
  ASSUME UNCHANGED net,
         asked' \subseteq asked \cup Unserved, Unserved' \subseteq Unserved
  PROVE  Gone \subseteq Gone'
  BY DEF Gone

LEMMA OneMessageKept ==
  ASSUME TypeInv, OneMessage, UNCHANGED net,
         asked' \subseteq asked \cup Unserved, Unserved' \subseteq Unserved
  PROVE  OneMessage'
  BY NetElement DEF OneMessage

\* A query goes on: its next response is new, whatever it added.
LEMMA RowProceed ==
  ASSUME TypeInv, RowInv, NEW q \in Query, NEW peers \in SUBSET Peer, Proceed(q, peers),
         pc[q] = "new" \/ peers = left[q],
         \A r \in Query \ {q} : got'[r] = got[r],
         \A p \in Peer : got'[q][p] = got[q][p]
                        \/ (p = at[q] /\ Running(q) /\ got'[q][p] = result[<<q, p>>].of),
         UNCHANGED <<result, wireVars, odd>>
  PROVE  RowInv'
  <1> USE DEF RowInv, wireVars
  <1>1. \A r \in Query \ {q} : pc'[r] = pc[r] /\ left'[r] = left[r] /\ at'[r] = at[r]
    BY ProceedType
  <1>2. \A s \in Request : rest'[s] = rest[s] \/ (rest[s] = "none" /\ rest'[s] = "queued")
    BY ProceedType
  <1>3. Running(q)' => at'[q] \in Peer /\ rest[<<q, at'[q]>>] = "none"
    <2>1. \A r \in Query : Running(r)' <=> at'[r] \in Peer BY ProceedType
    <2>2. Running(q)' => rest[<<q, at'[q]>>] = "none" BY ProceedType
    <2> QED BY <2>1, <2>2
  <1>4. Unserved' \subseteq Unserved BY <1>2 DEF Unserved
  <1>5. Gone \subseteq Gone' BY <1>4, GoneKept
  <1>6. OneMessage' BY <1>4, OneMessageKept
  <1>7. \A r \in Query : \A p \in Peer :
          got'[r][p] = got[r][p]
          \/ (r = q /\ p = at[q] /\ Running(q) /\ got'[r][p] = result[<<q, p>>].of)
    OBVIOUS
  <1>8. Past'
    <2>1. \A p \in Peer : <<q, p>> \in Request BY DEF Request
    <2>2. \A p \in Peer : worker'[p].msg.of \in Gone' \cup {None} BY <1>5 DEF Past
    <2>3. \A s \in Request : result'[s].of \in Gone' \cup {None} BY <1>5 DEF Past
    <2>4. ASSUME NEW r \in Query, NEW p \in Peer PROVE got'[r][p] \in Gone' \cup {None}
      <3>1. CASE got'[r][p] = got[r][p] BY <1>5, <3>1 DEF Past
      <3>2. CASE r = q /\ got'[r][p] = result[<<q, p>>].of BY <2>1, <2>3, <3>2
      <3> QED BY <1>7, <3>1, <3>2
    <2> QED BY <2>2, <2>3, <2>4 DEF Past
  <1>9. New'
    <2>1. ASSUME NEW r \in Query, Running(r)', r # q
          PROVE  /\ result'[<<r, at'[r]>>].of # None
                      => \A p \in Peer : got'[r][p] # result'[<<r, at'[r]>>].of
                 /\ \A x \in Peer :
                      <<r, at'[r]>> \in worker'[x].todo /\ worker'[x].msg.of # None
                      => \A p \in Peer : got'[r][p] # worker'[x].msg.of
      BY <1>1, <2>1 DEF New, Running
    <2>2. ASSUME Running(q)'
          PROVE  /\ result'[<<q, at'[q]>>].of = None
                 /\ \A x \in Peer : <<q, at'[q]>> \notin worker'[x].todo
      <3>1. <<q, at'[q]>> \in Request /\ <<q, at'[q]>> \in Unserved
        BY <1>3, <2>2 DEF Request, Unserved
      <3>2. result[<<q, at'[q]>>].of = None BY <3>1, NoRows DEF TypeInv, Fresh
      <3>3. <<q, at'[q]>> \notin listeners
        BY <1>3, <2>2 DEF TypeInv, TypeOK, RequestType
      <3> QED BY <3>2, <3>3 DEF TypeInv, TypeOK, WireType
    <2> QED BY <2>1, <2>2 DEF New
  <1>10. NoRowTwice'
    <2> SUFFICES ASSUME NEW r \in Query, NEW x \in Peer, NEW y \in Peer,
                        got'[r][x] # None, got'[r][x] = got'[r][y]
                 PROVE  x = y
      BY DEF NoRowTwice
    <2>1. CASE got'[r][x] = got[r][x] /\ got'[r][y] = got[r][y] BY <2>1 DEF NoRowTwice
    <2>2. CASE got'[r][x] # got[r][x]
      <3>1. r = q /\ x = at[q] /\ Running(q) /\ got'[r][x] = result[<<q, at[q]>>].of
        BY <1>7, <2>2
      <3>2. \A p \in Peer : got[q][p] # result[<<q, at[q]>>].of BY <3>1 DEF New
      <3> QED BY <1>7, <3>1, <3>2
    <2>3. CASE got'[r][y] # got[r][y]
      <3>1. r = q /\ y = at[q] /\ Running(q) /\ got'[r][y] = result[<<q, at[q]>>].of
        BY <1>7, <2>3
      <3>2. \A p \in Peer : got[q][p] # result[<<q, at[q]>>].of BY <3>1 DEF New
      <3> QED BY <1>7, <3>1, <3>2
    <2> QED BY <2>1, <2>2, <2>3
  <1> QED BY <1>6, <1>8, <1>9, <1>10

\* The server answers or registers a request: its results have rows only that were there.
LEMMA RowServe ==
  ASSUME TypeInv, RowInv, UNCHANGED <<queryVars, net, worker>>,
         asked' \subseteq asked \cup Unserved, Unserved' \subseteq Unserved,
         \A x \in Request : result'[x] = result[x] \/ result'[x].of = None
  PROVE  RowInv'
  <1> USE DEF RowInv, queryVars
  <1>1. Gone \subseteq Gone' BY GoneKept
  <1>2. OneMessage' BY OneMessageKept
  <1>3. Past' BY <1>1 DEF Past
  <1>4. New'
    <2>1. \A q \in Query : Running(q) => <<q, at[q]>> \in Request
      BY DEF TypeInv, TypeOK, QueryType, Request
    <2> QED BY <2>1 DEF New, Running
  <1>5. NoRowTwice' BY DEF NoRowTwice
  <1> QED BY <1>2, <1>3, <1>4, <1>5

\* A peer sends a message: the rows of a request leave the peer once.
LEMMA SentOnce ==
  ASSUME TypeInv, OneMessage, NEW p \in Peer, NEW b \in Body, Send(p, b), UNCHANGED rest,
         asked' \subseteq asked,
         b.of # None => b.of \in asked /\ b.of \notin asked' /\ b.of[2] = p
  PROVE  OneMessage' /\ Gone \subseteq Gone'
  <1>1. net[p] \in Seq(Body) BY DEF TypeInv, TypeOK, WireType
  <1>2. net' = [net EXCEPT ![p] = Append(net[p], b)] BY DEF Send
  <1>3. net'[p] = Append(net[p], b) /\ \A x \in Peer \ {p} : net'[x] = net[x]
    BY <1>2 DEF TypeInv, TypeOK, WireType
  <1>4. \A i \in DOMAIN net'[p] :
          (i \in DOMAIN net[p] /\ net'[p][i] = net[p][i]) \/ (i = Len(net[p]) + 1 /\ net'[p][i] = b)
    BY <1>1, <1>3
  <1>5. b.of # None => b.of \notin Unserved
    BY DEF TypeInv, TypeOK, RequestType, Fresh
  <1>6. Unserved' = Unserved BY DEF Unserved
  <1>7. OneMessage'
    <2>1. \A x \in Peer : \A i \in DOMAIN net[x] : net[x][i].of # None =>
            net[x][i].of \in Request /\ net[x][i].of[2] = x
            /\ net[x][i].of \notin asked /\ net[x][i].of \notin Unserved
      BY NetElement DEF OneMessage
    <2>2. b.of # None => b.of \in Request BY BodyOf
    <2>3. ASSUME NEW i \in DOMAIN net'[p], net'[p][i].of # None
          PROVE  /\ net'[p][i].of[2] = p
                 /\ net'[p][i].of \notin asked' /\ net'[p][i].of \notin Unserved
      BY <1>4, <1>5, <2>1, <2>3
    <2>4. ASSUME NEW i \in DOMAIN net'[p], NEW j \in DOMAIN net'[p],
                 net'[p][i].of # None, net'[p][i].of = net'[p][j].of
          PROVE  i = j
      <3>1. CASE i \in DOMAIN net[p] /\ net'[p][i] = net[p][i]
                 /\ j \in DOMAIN net[p] /\ net'[p][j] = net[p][j]
        BY <2>4, <3>1 DEF OneMessage
      <3>2. CASE i \in DOMAIN net[p] /\ net'[p][i] = net[p][i] /\ net'[p][j] = b
        BY <2>1, <2>4, <3>2
      <3>3. CASE net'[p][i] = b /\ j \in DOMAIN net[p] /\ net'[p][j] = net[p][j]
        BY <2>1, <2>4, <3>3
      <3>4. CASE i = Len(net[p]) + 1 /\ j = Len(net[p]) + 1 BY <3>4
      <3> QED BY <1>4, <3>1, <3>2, <3>3, <3>4
    <2>5. ASSUME NEW x \in Peer \ {p}, NEW i \in DOMAIN net'[x], NEW j \in DOMAIN net'[x],
                 net'[x][i].of # None
          PROVE  /\ net'[x][i].of[2] = x
                 /\ net'[x][i].of \notin asked' /\ net'[x][i].of \notin Unserved
                 /\ net'[x][i].of = net'[x][j].of => i = j
      BY <1>3, <2>1, <2>5 DEF OneMessage
    <2>6. \A x \in Peer : \A i \in DOMAIN net'[x] :
            net'[x][i].of # None => net'[x][i].of \in Request /\ net'[x][i].of \notin Unserved
      BY <1>3, <1>4, <2>1, <2>2, <2>3
    <2>7. \A x \in Peer : \A i \in DOMAIN net'[x] :
            net'[x][i].of # None => net'[x][i].of \notin Unserved'
      BY <1>6, <2>6
    <2> QED BY <2>3, <2>4, <2>5, <2>7 DEF OneMessage
  <1>8. ASSUME NEW s \in Gone PROVE s \in Gone'
    <2>1. s \in Request /\ s[2] \in Peer BY DEF Gone, Request
    <2>2. s # b.of BY <1>8, FederationAssumption DEF Gone
    <2>3. \A i \in DOMAIN net'[s[2]] : net'[s[2]][i].of # s
      BY <1>3, <1>4, <2>1, <2>2 DEF Gone
    <2> QED BY <1>6, <2>1, <2>3 DEF Gone
  <1> QED BY <1>7, <1>8

\* The rows a worker takes are gone, and nobody has them yet.
LEMMA TakenRows ==
  ASSUME TypeInv, OneMessage, NEW p \in Peer, net[p] # <<>>,
         net' = [net EXCEPT ![p] = Tail(@)], UNCHANGED <<asked, rest>>
  PROVE  /\ OneMessage' /\ Gone \subseteq Gone'
         /\ Head(net[p]).of \in Gone' \cup {None}
         /\ Head(net[p]).of \notin Gone
  <1>1. net[p] \in Seq(Body) /\ Len(net[p]) \in Nat /\ Len(net[p]) > 0
    BY DEF TypeInv, TypeOK, WireType
  <1>2. net'[p] = Tail(net[p]) /\ \A x \in Peer \ {p} : net'[x] = net[x]
    BY DEF TypeInv, TypeOK, WireType
  <1>3. \A i \in DOMAIN net'[p] : i + 1 \in DOMAIN net[p] /\ i \in Nat /\ i > 0
                                 /\ net'[p][i] = net[p][i + 1]
    <2>1. /\ Tail(net[p]) \in Seq(Body) /\ Len(Tail(net[p])) = Len(net[p]) - 1
          /\ \A i \in 1 .. Len(Tail(net[p])) : Tail(net[p])[i] = net[p][i + 1]
      BY <1>1, HeadTailProperties
    <2>2. DOMAIN net[p] = 1 .. Len(net[p]) /\ DOMAIN Tail(net[p]) = 1 .. Len(net[p]) - 1
      BY <1>1, <2>1, LenProperties
    <2>3. \A n \in Nat : \A i \in 1 .. n - 1 : i + 1 \in 1 .. n /\ i \in Nat /\ i > 0 OBVIOUS
    <2>4. \A i \in 1 .. Len(net[p]) - 1 : Tail(net[p])[i] = net[p][i + 1] BY <2>1
    <2>5. Len(net[p]) \in Nat BY <1>1
    <2> QED BY <1>2, <2>2, <2>3, <2>4, <2>5, Zenon
  <1>4. 1 \in DOMAIN net[p] /\ Head(net[p]) = net[p][1] BY <1>1
  <1>5. Unserved' = Unserved BY DEF Unserved
  <1>6. \A x \in Peer : \A i \in DOMAIN net[x] : net[x][i].of # None =>
          net[x][i].of \in Request /\ net[x][i].of[2] = x
          /\ net[x][i].of \notin asked /\ net[x][i].of \notin Unserved
    BY NetElement DEF OneMessage
  <1>7. OneMessage'
    <2>1. ASSUME NEW i \in DOMAIN net'[p], NEW j \in DOMAIN net'[p], net'[p][i].of # None
          PROVE  /\ net'[p][i].of[2] = p
                 /\ net'[p][i].of \notin asked' /\ net'[p][i].of \notin Unserved
                 /\ net'[p][i].of = net'[p][j].of => i = j
      <3>1. net'[p][i].of = net'[p][j].of => i + 1 = j + 1 BY <1>3, <2>1 DEF OneMessage
      <3> QED BY <1>3, <1>6, <2>1, <3>1
    <2>2. ASSUME NEW x \in Peer \ {p}, NEW i \in DOMAIN net'[x], NEW j \in DOMAIN net'[x],
                 net'[x][i].of # None
          PROVE  /\ net'[x][i].of[2] = x
                 /\ net'[x][i].of \notin asked' /\ net'[x][i].of \notin Unserved
                 /\ net'[x][i].of = net'[x][j].of => i = j
      BY <1>2, <1>6, <2>2 DEF OneMessage
    <2>3. \A x \in Peer : \A i \in DOMAIN net'[x] :
            net'[x][i].of # None => net'[x][i].of \notin Unserved'
      BY <1>5, <2>1, <2>2
    <2> QED BY <2>1, <2>2, <2>3 DEF OneMessage
  <1>8. ASSUME NEW s \in Gone PROVE s \in Gone'
    <2>1. s \in Request /\ s[2] \in Peer BY DEF Gone, Request
    <2>2. \A i \in DOMAIN net'[s[2]] : net'[s[2]][i].of # s
      BY <1>2, <1>3, <2>1 DEF Gone
    <2> QED BY <1>5, <2>1, <2>2 DEF Gone
  <1>9. ASSUME Head(net[p]).of # None
        PROVE  Head(net[p]).of \in Gone' /\ Head(net[p]).of \notin Gone
    <2> DEFINE s == Head(net[p]).of
    <2>1. s \in Request /\ s[2] = p /\ s \notin asked /\ s \notin Unserved BY <1>4, <1>6, <1>9
    <2>2. \A j \in DOMAIN net[p] : net[p][j].of = s => j = 1 BY <1>4, <1>9 DEF OneMessage
    <2>3. \A i \in DOMAIN net'[p] : net'[p][i].of # s
      <3> SUFFICES ASSUME NEW i \in DOMAIN net'[p], net'[p][i].of = s PROVE FALSE OBVIOUS
      <3>1. i + 1 = 1 BY <1>3, <2>2
      <3> QED BY <1>3, <3>1
    <2>4. s \notin Gone BY <1>4, <2>1 DEF Gone
    <2>5. s \notin Unserved' BY <1>5, <2>1
    <2>6. s \in Gone' BY <2>1, <2>3, <2>5 DEF Gone
    <2> QED BY <2>4, <2>6
  <1>10. None \notin Gone BY FederationAssumption DEF Gone
  <1> QED BY <1>7, <1>8, <1>9, <1>10

\* The peers send: what was received stays as it is.
LEMMA RowSend ==
  ASSUME TypeInv, RowInv, NEW p \in Peer, NEW b \in Body, Send(p, b),
         UNCHANGED <<queryVars, rest, result, worker>>, asked' \subseteq asked,
         b.of # None => b.of \in asked /\ b.of \notin asked' /\ b.of[2] = p
  PROVE  RowInv'
  <1> USE DEF RowInv, queryVars
  <1>1. OneMessage' /\ Gone \subseteq Gone' BY SentOnce
  <1>2. Past' BY <1>1 DEF Past
  <1>3. New' BY DEF New, Running
  <1>4. NoRowTwice' BY DEF NoRowTwice
  <1> QED BY <1>1, <1>2, <1>3, <1>4

\* A worker takes a message: no query has its rows.
LEMMA RowDispatch ==
  ASSUME TypeInv, RowInv, NEW p \in Peer, Dispatch(p) PROVE RowInv'
  <1> USE DEF RowInv, queryVars
  <1>1. UNCHANGED <<pc, at, got, rest, result, asked>> /\ net[p] # <<>>
        /\ net' = [net EXCEPT ![p] = Tail(@)]
    BY DEF Dispatch
  <1>2. /\ OneMessage' /\ Gone \subseteq Gone'
        /\ Head(net[p]).of \in Gone' \cup {None}
        /\ Head(net[p]).of \notin Gone
    BY <1>1, TakenRows
  <1>3. /\ worker'[p] = Idle \/ worker'[p].msg = Head(net[p])
        /\ \A x \in Peer \ {p} : worker'[x] = worker[x]
    BY DEF Dispatch, TypeInv, TypeOK, WireType
  <1>4. Past'
    <2>1. \A x \in Peer : worker'[x].msg.of \in Gone' \cup {None}
      BY <1>2, <1>3, NoRows DEF Past, Idle
    <2> QED BY <1>1, <1>2, <2>1 DEF Past
  <1>5. New'
    <2> SUFFICES ASSUME NEW q \in Query, Running(q), NEW x \in Peer, NEW y \in Peer,
                        <<q, at[q]>> \in worker'[x].todo, worker'[x].msg.of # None
                 PROVE  got[q][y] # worker'[x].msg.of
      BY <1>1 DEF New, Running
    <2>1. CASE x # p BY <1>3, <2>1 DEF New
    <2>2. CASE x = p
      <3>1. worker'[x].msg.of \notin Gone BY <1>2, <1>3, <2>2 DEF Idle
      <3>2. got[q][y] \in Gone \cup {None} BY DEF Past
      <3> QED BY <3>1, <3>2
    <2> QED BY <2>1, <2>2
  <1>6. NoRowTwice' BY <1>1 DEF NoRowTwice
  <1> QED BY <1>2, <1>4, <1>5, <1>6

\* A listener sets its result to the message of its worker.
LEMMA RowListener ==
  ASSUME TypeInv, RowInv, NEW p \in Peer, RunListener(p) PROVE RowInv'
  <1> USE DEF RowInv, queryVars
  <1>1. PICK s \in worker[p].todo :
          /\ result' = Resolve(s, worker[p].msg)
          /\ worker' = [worker EXCEPT ![p] = After(worker[p], s)]
    BY DEF RunListener
  <1>2. UNCHANGED <<pc, at, got, rest, asked, net>> BY DEF RunListener
  <1>3. s \in Request BY DEF TypeInv, TypeOK, WireType
  <1>4. /\ result'[s] = result[s] \/ result'[s] = worker[p].msg
        /\ \A x \in Request \ {s} : result'[x] = result[x]
    BY <1>1, <1>3 DEF Resolve, TypeInv, TypeOK, RequestType
  <1>5. /\ worker'[p] = Idle
           \/ (worker'[p].msg = worker[p].msg /\ worker'[p].todo \subseteq worker[p].todo)
        /\ \A x \in Peer \ {p} : worker'[x] = worker[x]
    BY <1>1 DEF After, TypeInv, TypeOK, WireType
  <1>6. OneMessage' /\ Gone \subseteq Gone' BY <1>2, OneMessageKept, GoneKept DEF Unserved
  <1>7. Past'
    <2>1. \A x \in Peer : worker'[x].msg.of \in Gone \cup {None}
      BY <1>5, NoRows DEF Past, Idle
    <2>2. \A x \in Request : result'[x].of \in Gone \cup {None} BY <1>4 DEF Past
    <2> QED BY <1>2, <1>6, <2>1, <2>2 DEF Past
  <1>8. New'
    <2> SUFFICES ASSUME NEW q \in Query, Running(q), NEW y \in Peer
                 PROVE  /\ result'[<<q, at[q]>>].of # None
                             => got[q][y] # result'[<<q, at[q]>>].of
                        /\ \A x \in Peer :
                             <<q, at[q]>> \in worker'[x].todo /\ worker'[x].msg.of # None
                             => got[q][y] # worker'[x].msg.of
      BY <1>2 DEF New, Running
    <2>1. <<q, at[q]>> \in Request BY DEF TypeInv, TypeOK, QueryType, Request
    <2>2. result'[<<q, at[q]>>].of # None => got[q][y] # result'[<<q, at[q]>>].of
      BY <1>4, <2>1 DEF New
    <2>3. ASSUME NEW x \in Peer, <<q, at[q]>> \in worker'[x].todo, worker'[x].msg.of # None
          PROVE  got[q][y] # worker'[x].msg.of
      <3>1. <<q, at[q]>> \in worker[x].todo /\ worker'[x].msg = worker[x].msg
        BY <1>5, <2>3 DEF Idle
      <3> QED BY <2>3, <3>1 DEF New
    <2> QED BY <2>2, <2>3
  <1>9. NoRowTwice' BY <1>2 DEF NoRowTwice
  <1> QED BY <1>6, <1>7, <1>8, <1>9

LEMMA RowStep == TypeInv /\ RowInv /\ [Next]_vars => RowInv'
  <1> SUFFICES ASSUME TypeInv, RowInv, [Next]_vars PROVE RowInv' OBVIOUS
  <1>1. ASSUME NEW q \in Query, Ask(q) PROVE RowInv'
    <2>1. Listed[q] \in SUBSET Peer BY FederationAssumption
    <2>2. Proceed(q, Listed[q]) /\ pc[q] = "new" BY <1>1 DEF Ask
    <2>3. UNCHANGED <<got, result, wireVars, odd>> BY <1>1 DEF Ask
    <2>4. UNCHANGED <<result, wireVars, odd>> BY <2>3
    <2> QED BY <2>1, <2>2, <2>3, <2>4, RowProceed
  <1>2. ASSUME NEW q \in Query, Collect(q) PROVE RowInv'
    <2>1. at[q] \in Peer /\ left[q] \in SUBSET Peer /\ Running(q)
      BY <1>2 DEF Collect, TypeInv, TypeOK, QueryType
    <2>2. Proceed(q, left[q]) BY <1>2 DEF Collect
    <2>3. got' = [got EXCEPT ![q][at[q]] = result[<<q, at[q]>>].of]
          /\ UNCHANGED <<result, wireVars, odd>>
      BY <1>2 DEF Collect
    <2>4. \A r \in Query \ {q} : got'[r] = got[r] BY <2>3 DEF TypeInv, TypeOK, QueryType
    <2>5. \A p \in Peer : got'[q][p] = got[q][p]
                         \/ (p = at[q] /\ Running(q) /\ got'[q][p] = result[<<q, p>>].of)
      BY <2>1, <2>3 DEF TypeInv, TypeOK, QueryType
    <2> QED BY <2>1, <2>2, <2>3, <2>4, <2>5, RowProceed
  <1>3. ASSUME NEW q \in Query, GiveUp(q) PROVE RowInv'
    <2>1. left[q] \in SUBSET Peer BY DEF TypeInv, TypeOK, QueryType
    <2>2. Proceed(q, left[q]) BY <1>3 DEF GiveUp
    <2>3. UNCHANGED <<got, result, wireVars, odd>> BY <1>3 DEF GiveUp
    <2>4. UNCHANGED <<result, wireVars, odd>> BY <2>3
    <2> QED BY <2>1, <2>2, <2>3, <2>4, RowProceed
  <1>4. ASSUME NEW s \in Request, Serve(s) PROVE RowInv'
    <2>1. UNCHANGED <<queryVars, net, worker>> BY <1>4 DEF Serve
    <2>2. s \in Unserved /\ asked' \subseteq asked \cup {s} BY <1>4 DEF Serve, Unserved
    <2>3. Unserved' \subseteq Unserved
      BY <1>4 DEF Serve, Unserved, TypeInv, TypeOK, RequestType
    <2>4. \A x \in Request : result'[x] = result[x] \/ result'[x].of = None
      BY <1>4, NoRows DEF Serve, TypeInv, TypeOK, RequestType
    <2> QED BY <2>1, <2>2, <2>3, <2>4, RowServe
  <1>5. ASSUME NEW s \in Request, Commit(s) PROVE RowInv'
    <2>1. UNCHANGED <<queryVars, net, worker, asked, result>> BY <1>5 DEF Commit, wireVars
    <2>2. UNCHANGED <<queryVars, net, worker>> BY <2>1
    <2>3. Unserved' \subseteq Unserved
      BY <1>5 DEF Commit, Unserved, TypeInv, TypeOK, RequestType
    <2> QED BY <2>1, <2>2, <2>3, RowServe
  <1>6. ASSUME NEW s \in Request, Expire(s) PROVE RowInv'
    <2>1. UNCHANGED <<queryVars, net, worker>> /\ UNCHANGED <<asked, rest>>
      BY <1>6 DEF Expire, wireVars
    <2>2. Unserved' \subseteq Unserved BY <2>1 DEF Unserved
    <2>3. \A x \in Request : result'[x] = result[x] \/ result'[x].of = None
      BY <1>6, NoRows DEF Expire, TypeInv, TypeOK, RequestType
    <2> QED BY <2>1, <2>2, <2>3, RowServe
  <1>7. ASSUME NEW s \in Request, PeerAnswers(s) PROVE RowInv'
    <2>1. s[2] \in Peer /\ Rows(s) \in Body /\ Other \in Body BY DEF Request, Body
    <2>2. UNCHANGED <<queryVars, rest, result, worker>> /\ asked' \subseteq asked
          /\ s \in asked /\ s \notin asked'
      BY <1>7 DEF PeerAnswers
    <2>3. CASE Send(s[2], Rows(s)) BY <2>1, <2>2, <2>3, NoRows, RowSend
    <2>4. CASE Send(s[2], Other) BY <2>1, <2>2, <2>4, NoRows, RowSend
    <2> QED BY <1>7, <2>3, <2>4 DEF PeerAnswers
  <1>8. ASSUME NEW p \in Peer, PeerRequests(p) PROVE RowInv'
    <2>1. Other \in Body BY DEF Body
    <2>2. UNCHANGED <<queryVars, rest, result, worker>> /\ asked' \subseteq asked /\ Send(p, Other)
      BY <1>8 DEF PeerRequests
    <2> QED BY <2>1, <2>2, NoRows, RowSend
  <1>9. ASSUME NEW p \in Peer, Dispatch(p) PROVE RowInv' BY <1>9, RowDispatch
  <1>10. ASSUME NEW p \in Peer, RunListener(p) PROVE RowInv' BY <1>10, RowListener
  <1>11. CASE UNCHANGED vars
    <2>1. UNCHANGED <<queryVars, rest, result, asked, net, worker>> BY <1>11 DEF vars, wireVars
    <2>2. UNCHANGED <<queryVars, net, worker>> BY <2>1
    <2>3. Unserved' = Unserved BY <2>1 DEF Unserved
    <2> QED BY <2>1, <2>2, <2>3, RowServe
  <1> QED BY <1>1, <1>2, <1>3, <1>4, <1>5, <1>6, <1>7, <1>8, <1>9, <1>10, <1>11
          DEF Next, QueryStep, RestStep, WorkerStep

\* The rows of one answer are in the result of a query once, whatever comes late and whichever
\* requests it is taken for (CloudService 43-55, XMPPService 249-275).
THEOREM FederationNoRowTwice == Spec => []NoRowTwice
  <1>1. RowInv => NoRowTwice BY DEF RowInv
  <1> QED BY <1>1, InitType, TypeStep, RowInit, RowStep, PTL DEF Spec
=============================================================================
