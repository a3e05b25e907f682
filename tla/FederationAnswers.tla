------------------------- MODULE FederationAnswers -------------------------
(***************************************************************************)
(* Proof that a query of Federation which has the server for itself, with  *)
(* peers that answer in time, ends with the rows of every peer under that  *)
(* peer.                                                                   *)
(*                                                                         *)
(* Listeners of requests that earlier queries gave up stay registered, and *)
(* workers run them; they can only set their own results.  What matters is *)
(* that the one request of the query is at one stage of its course at a    *)
(* time: taken by the server, sent to the peer, answered, and heard by its *)
(* listener.  When its result is set nothing is on its way any more, so    *)
(* nothing can be taken for the answer of the next one.                    *)
(***************************************************************************)
EXTENDS FederationProofs

\* Nobody disturbed the query, and it still asks.
Asking(q) == Running(q) /\ calm[q]

\* The request a query waits for.
Current(q) == <<q, at[q]>>

\* The query has the threads of the server for itself.
Lone(q) == \A r \in Query \ {q} : ~Running(r)

\* The rows of a peer that is neither left nor being asked are there.
Gathered(q) ==
    /\ left[q] \subseteq Listed[q] /\ at[q] \in Listed[q]
    /\ \A p \in Listed[q] \ (left[q] \cup {at[q]}) : got[q][p] = <<q, p>>

\* A listener has an answer of s, or is about to.
Heard(s) == result[s] # NoBody \/ \E p \in Peer : s \in worker[p].todo

\* Of all requests only s is on its way, and only to and from its own peer.
OnlyRequest(s) ==
    /\ \A x \in Request \ {s} : rest[x] # "queued" /\ x \notin asked
    /\ \A p \in Peer \ {s[2]} : net[p] = <<>>
    /\ net[s[2]] \in {<<>>, <<Rows(s)>>}

\* What its listener has, or is about to get, are its rows.
OwnAnswer(s) ==
    /\ result[s] \in {NoBody, Rows(s)}
    /\ \A p \in Peer : s \in worker[p].todo => worker[p].msg = Rows(s)

\* It is queued, at the peer, on its way back or heard, one after the other.
OneStage(s) ==
    /\ rest[s] = "queued" \/ s \in asked => net[s[2]] = <<>>
    /\ s \in asked \/ net[s[2]] # <<>> => ~Heard(s)

OnCourse == {s \in Request : OnlyRequest(s) /\ OwnAnswer(s) /\ OneStage(s)}

CalmInv ==
    /\ \A q \in Query : Asking(q) => Lone(q) /\ Gathered(q) /\ Current(q) \in OnCourse
    /\ FullAnswer

-----------------------------------------------------------------------------
(* The course of a request. *)

\* A request that was not made so far has nothing in the system.
LEMMA NotMade ==
  ASSUME TypeInv, NEW s \in Request, rest[s] \in {"none", "queued"}
  PROVE  s \notin asked /\ ~Heard(s)
  <1>1. s \in Unserved BY DEF Unserved
  <1>2. result[s] = NoBody /\ s \notin asked BY <1>1 DEF TypeInv, Fresh
  <1>3. s \notin listeners BY DEF TypeInv, TypeOK, RequestType
  <1>4. \A p \in Peer : s \notin worker[p].todo BY <1>3 DEF TypeInv, TypeOK, WireType
  <1> QED BY <1>2, <1>4 DEF Heard

\* When its listener has heard, or it is not even sent, nothing of it is on its way.
LEMMA NothingUnderWay ==
  ASSUME NEW s \in OnCourse, s \notin asked, net[s[2]] = <<>>
  PROVE  (\A x \in Request : x \notin asked) /\ (\A p \in Peer : net[p] = <<>>)
  BY DEF OnCourse, OnlyRequest

\* A new request starts its course when nothing else is on its way.
LEMMA NewCourse ==
  ASSUME TypeInv, NEW s \in Request, rest[s] = "none", rest' = [rest EXCEPT ![s] = "queued"],
         \A x \in Request \ {s} : rest[x] # "queued",
         \A x \in Request : x \notin asked, \A p \in Peer : net[p] = <<>>,
         UNCHANGED <<result, asked, net, worker>>
  PROVE  s \in OnCourse'
  <1>1. s \notin asked /\ ~Heard(s) BY NotMade
  <1>2. s[2] \in Peer BY DEF Request
  <1>3. \A x \in Request \ {s} : rest'[x] # "queued" BY DEF TypeInv, TypeOK, RequestType
  <1>4. OnlyRequest(s)' BY <1>2, <1>3 DEF OnlyRequest
  <1>5. OwnAnswer(s)' BY <1>1 DEF OwnAnswer, Heard
  <1>6. OneStage(s)' BY <1>1, <1>2 DEF OneStage, Heard
  <1> QED BY <1>4, <1>5, <1>6 DEF OnCourse

\* The server takes it: it can only be the one that is queued.
LEMMA ServeCourse ==
  ASSUME TypeInv, NEW s \in OnCourse, NEW x \in Request, rest[x] = "queued",
         asked' = asked \cup {x}, rest' = [rest EXCEPT ![x] = "served"],
         UNCHANGED <<result, net, worker>>
  PROVE  s \in OnCourse'
  <1>1. x = s /\ s \in Request BY DEF OnCourse, OnlyRequest
  <1>2. net[s[2]] = <<>> BY <1>1 DEF OnCourse, OneStage
  <1>3. ~Heard(s) BY <1>1, NotMade
  <1>4. \A y \in Request \ {s} : rest'[y] = rest[y] BY <1>1 DEF TypeInv, TypeOK, RequestType
  <1>5. OnlyRequest(s)' BY <1>1, <1>4 DEF OnCourse, OnlyRequest
  <1>6. OwnAnswer(s)' BY DEF OnCourse, OwnAnswer
  <1>7. OneStage(s)' BY <1>2, <1>3 DEF OneStage, Heard
  <1> QED BY <1>1, <1>5, <1>6, <1>7 DEF OnCourse

\* Its response is written.
LEMMA CommitCourse ==
  ASSUME TypeInv, NEW s \in OnCourse, NEW x \in Request, rest' = [rest EXCEPT ![x] = "answered"],
         UNCHANGED <<result, asked, net, worker>>
  PROVE  s \in OnCourse'
  <1>1. \A y \in Request : rest'[y] = "queued" => rest[y] = "queued"
    BY DEF TypeInv, TypeOK, RequestType
  <1>2. OnlyRequest(s)' BY <1>1 DEF OnCourse, OnlyRequest
  <1>3. OwnAnswer(s)' BY DEF OnCourse, OwnAnswer
  <1>4. OneStage(s)' BY <1>1 DEF OnCourse, OneStage, Heard
  <1> QED BY <1>2, <1>3, <1>4 DEF OnCourse

\* Its peer sends the rows.
LEMMA AnswerCourse ==
  ASSUME TypeInv, NEW s \in OnCourse, NEW x \in asked, asked' = asked \ {x},
         Send(x[2], Rows(x)), UNCHANGED <<rest, result, worker>>
  PROVE  s \in OnCourse'
  <1>1. s \in Request /\ asked \subseteq Request BY DEF OnCourse, TypeInv, TypeOK, RequestType
  <1>2. x = s BY <1>1 DEF OnCourse, OnlyRequest
  <1>3. s[2] \in Peer BY <1>1 DEF Request
  <1>4. net[s[2]] = <<>> /\ ~Heard(s) BY <1>2 DEF OnCourse, OneStage
  <1>5. net'[s[2]] = <<Rows(s)>> /\ \A p \in Peer \ {s[2]} : net'[p] = net[p]
    BY <1>2, <1>3, <1>4 DEF Send, TypeInv, TypeOK, WireType
  <1>6. s \notin asked' BY <1>2
  <1>7. rest[s] # "queued" BY <1>1, <1>2, NotMade
  <1>8. OnlyRequest(s)' BY <1>2, <1>5 DEF OnCourse, OnlyRequest
  <1>9. OwnAnswer(s)' BY DEF OnCourse, OwnAnswer
  <1>10. OneStage(s)' BY <1>4, <1>6, <1>7 DEF OneStage, Heard
  <1> QED BY <1>1, <1>8, <1>9, <1>10 DEF OnCourse

\* The worker of the peer takes them, for whichever listeners are registered.
LEMMA DispatchCourse ==
  ASSUME TypeInv, NEW s \in OnCourse, NEW p \in Peer, Dispatch(p)
  PROVE  s \in OnCourse'
  <1>1. s \in Request /\ s[2] \in Peer BY DEF OnCourse, Request
  <1>2. net[p] # <<>> /\ net' = [net EXCEPT ![p] = Tail(@)] /\ UNCHANGED <<rest, result, asked>>
    BY DEF Dispatch
  <1>3. p = s[2] /\ net[p] = <<Rows(s)>> BY <1>2 DEF OnCourse, OnlyRequest
  <1>4. s \notin asked /\ rest[s] # "queued" /\ ~Heard(s)
    BY <1>1, <1>3 DEF OnCourse, OneStage
  <1>5. net'[p] = <<>> /\ \A y \in Peer \ {p} : net'[y] = net[y]
    BY <1>2, <1>3 DEF TypeInv, TypeOK, WireType
  <1>6. \A y \in Peer \ {p} : worker'[y] = worker[y]
    BY DEF Dispatch, TypeInv, TypeOK, WireType
  <1>7. worker'[p] = Idle \/ worker'[p].msg = Rows(s)
    BY <1>3 DEF Dispatch, TypeInv, TypeOK, WireType
  <1>8. OnlyRequest(s)' BY <1>2, <1>3, <1>5 DEF OnCourse, OnlyRequest
  <1>9. OwnAnswer(s)' BY <1>2, <1>6, <1>7 DEF OnCourse, OwnAnswer, Idle
  <1>10. OneStage(s)' BY <1>2, <1>3, <1>4, <1>5 DEF OneStage
  <1> QED BY <1>1, <1>8, <1>9, <1>10 DEF OnCourse

\* A listener runs: that of s sets its rows, another one the result of another request.
LEMMA ListenerCourse ==
  ASSUME TypeInv, NEW s \in OnCourse, NEW p \in Peer, RunListener(p)
  PROVE  s \in OnCourse'
  <1>1. PICK x \in worker[p].todo :
          /\ result' = Resolve(x, worker[p].msg)
          /\ worker' = [worker EXCEPT ![p] = After(worker[p], x)]
    BY DEF RunListener
  <1>2. UNCHANGED <<rest, asked, net>> BY DEF RunListener
  <1>3. s \in Request BY DEF OnCourse
  <1>4. result'[s] = result[s] \/ (x = s /\ result'[s] = worker[p].msg)
    BY <1>1, <1>3 DEF Resolve, TypeInv, TypeOK, RequestType
  <1>5. /\ worker'[p] = Idle
           \/ (worker'[p].msg = worker[p].msg /\ worker'[p].todo \subseteq worker[p].todo)
        /\ \A y \in Peer \ {p} : worker'[y] = worker[y]
    BY <1>1 DEF After, TypeInv, TypeOK, WireType
  <1>6. \A y \in Peer : s \in worker'[y].todo
                        => s \in worker[y].todo /\ worker'[y].msg = worker[y].msg
    BY <1>5 DEF Idle
  <1>7. Heard(s)' => Heard(s) BY <1>1, <1>4, <1>6 DEF Heard
  <1>8. OnlyRequest(s)' BY <1>2 DEF OnCourse, OnlyRequest
  <1>9. OwnAnswer(s)' BY <1>1, <1>4, <1>6 DEF OnCourse, OwnAnswer
  <1>10. OneStage(s)' BY <1>2, <1>7 DEF OnCourse, OneStage
  <1> QED BY <1>3, <1>8, <1>9, <1>10 DEF OnCourse

-----------------------------------------------------------------------------
(* The query. *)

\* A query that runs leaves no other one undisturbed.
LEMMA Only ==
  ASSUME CalmInv, NEW q \in Query, Running(q), NEW r \in Query \ {q} PROVE ~Asking(r)
  BY DEF CalmInv, Lone

\* The first request.
LEMMA CalmAsk == ASSUME TypeInv, CalmInv, NEW q \in Query, Ask(q) PROVE CalmInv'
  <1> USE DEF TypeInv, TypeOK
  <1>1. /\ calm' = [r \in Query |-> IF r = q THEN Settled ELSE calm[r] /\ ~Running(r)]
        /\ UNCHANGED <<got, result, asked, net, worker>> /\ pc[q] = "new"
        /\ Proceed(q, Listed[q]) /\ Listed[q] \in SUBSET Peer
    BY FederationAssumption DEF Ask, wireVars
  <1>2. \A r \in Query \ {q} : pc'[r] = pc[r] BY <1>1 DEF Proceed, QueryType
  <1>3. \A r \in Query \ {q} : calm'[r] => calm[r] /\ ~Running(r) BY <1>1
  <1>4. \A r \in Query \ {q} : ~Asking(r)' BY <1>2, <1>3 DEF Asking, Running
  <1>5. ASSUME Asking(q)' PROVE Lone(q)' /\ Gathered(q)' /\ Current(q)' \in OnCourse'
    <2>1. Settled BY <1>1, <1>5 DEF Asking
    <2>2. PICK p \in Listed[q] : /\ at' = [at EXCEPT ![q] = p]
                                 /\ left' = [left EXCEPT ![q] = Listed[q] \ {p}]
                                 /\ rest' = [rest EXCEPT ![<<q, p>>] = "queued"]
      BY <1>1, <1>5 DEF Proceed, Asking, Running, QueryType
    <2>3. Lone(q)' BY <1>2, <2>1 DEF Lone, Settled, Running
    <2>4. at'[q] = p /\ left'[q] = Listed[q] \ {p} BY <2>2 DEF QueryType
    <2>5. Gathered(q)' BY <2>4 DEF Gathered
    <2>6. <<q, p>> \in Request /\ rest[<<q, p>>] = "none" BY <1>1 DEF Fresh, Request
    <2>7. <<q, p>> \in OnCourse' BY <1>1, <2>1, <2>2, <2>6, NewCourse DEF Settled
    <2>8. Current(q)' = <<q, p>> BY <2>4 DEF Current
    <2> QED BY <2>3, <2>5, <2>7, <2>8
  <1>6. FullAnswer'
    <2>1. ASSUME pc'[q] = "done" PROVE Listed[q] = {} BY <1>1, <2>1 DEF Proceed, QueryType
    <2>2. \A r \in Query \ {q} : pc'[r] = "done" /\ calm'[r] => pc[r] = "done" /\ calm[r]
      BY <1>2, <1>3
    <2>3. \A r \in Query \ {q} : \A p \in Listed[r] :
            pc'[r] = "done" /\ calm'[r] => got'[r][p] = <<r, p>>
      BY <1>1, <2>2 DEF CalmInv, FullAnswer
    <2> QED BY <2>1, <2>3 DEF FullAnswer
  <1> QED BY <1>4, <1>5, <1>6 DEF CalmInv

\* An answer: it is the peer's, and leaves nothing behind for the next request.
LEMMA CalmCollect == ASSUME TypeInv, CalmInv, NEW q \in Query, Collect(q) PROVE CalmInv'
  <1> USE DEF TypeInv, TypeOK
  <1> DEFINE s == Current(q)
  <1>1. /\ got' = [got EXCEPT ![q][at[q]] = result[<<q, at[q]>>].of]
        /\ UNCHANGED <<result, asked, net, worker, calm>>
        /\ Proceed(q, left[q]) /\ left[q] \in SUBSET Peer
        /\ Running(q) /\ rest[s] = "answered" /\ at[q] \in Peer
    BY DEF Collect, wireVars, Current, QueryType
  <1>2. \A r \in Query \ {q} : pc'[r] = pc[r] BY <1>1 DEF Proceed, QueryType
  <1>3. \A r \in Query \ {q} : ~Asking(r) BY <1>1, Only
  <1>4. \A r \in Query \ {q} : ~Asking(r)' BY <1>1, <1>2, <1>3 DEF Asking, Running
  <1>5. got'[q] = [got[q] EXCEPT ![at[q]] = result[s].of]
        /\ \A r \in Query \ {q} : got'[r] = got[r]
    BY <1>1 DEF QueryType, Current
  <1>6. got'[q][at[q]] = result[s].of /\ \A p \in Peer \ {at[q]} : got'[q][p] = got[q][p]
    BY <1>1, <1>5 DEF QueryType
  <1>7. ASSUME calm[q]
        PROVE  /\ Lone(q) /\ left[q] \subseteq Listed[q]
               /\ \A p \in Listed[q] \ left[q] : got'[q][p] = <<q, p>>
               /\ \A x \in Request : x \notin asked /\ rest[x] # "queued"
               /\ \A p \in Peer : net[p] = <<>>
    <2>1. Lone(q) /\ Gathered(q) /\ s \in OnCourse BY <1>1, <1>7 DEF CalmInv, Asking
    <2>2. s \in Request /\ s[2] = at[q] BY <2>1 DEF OnCourse, Current
    <2>3. result[s] # NoBody BY <1>1, <2>2 DEF RequestType
    <2>4. result[s] = Rows(s) BY <2>1, <2>3 DEF OnCourse, OwnAnswer
    <2>5. got'[q][at[q]] = <<q, at[q]>> BY <1>6, <2>4, NoRows DEF Current
    <2>6. Listed[q] \in SUBSET Peer BY FederationAssumption
    <2>7. \A p \in Listed[q] \ left[q] : got'[q][p] = <<q, p>>
      BY <1>6, <2>1, <2>5, <2>6 DEF Gathered
    <2>8. s \notin asked /\ net[s[2]] = <<>> BY <2>1, <2>3 DEF OnCourse, OneStage, Heard
    <2>9. (\A x \in Request : x \notin asked) /\ \A p \in Peer : net[p] = <<>>
      BY <2>1, <2>8, NothingUnderWay
    <2>10. \A x \in Request : rest[x] # "queued" BY <1>1, <2>1 DEF OnCourse, OnlyRequest
    <2> QED BY <2>1, <2>7, <2>9, <2>10 DEF Gathered
  <1>8. ASSUME Asking(q)' PROVE Lone(q)' /\ Gathered(q)' /\ Current(q)' \in OnCourse'
    <2>1. calm[q] BY <1>1, <1>8 DEF Asking
    <2>2. PICK p \in left[q] : /\ at' = [at EXCEPT ![q] = p]
                               /\ left' = [left EXCEPT ![q] = left[q] \ {p}]
                               /\ rest' = [rest EXCEPT ![<<q, p>>] = "queued"]
      BY <1>1, <1>8 DEF Proceed, Asking, Running, QueryType
    <2>3. Lone(q)' BY <1>2, <1>7, <2>1 DEF Lone, Running
    <2>4. at'[q] = p /\ left'[q] = left[q] \ {p} BY <2>2 DEF QueryType
    <2>5. Gathered(q)' BY <1>7, <2>1, <2>4 DEF Gathered
    <2>6. <<q, p>> \in Request /\ rest[<<q, p>>] = "none" BY <1>1 DEF Fresh, Request
    <2>7. <<q, p>> \in OnCourse' BY <1>1, <1>7, <2>1, <2>2, <2>6, NewCourse
    <2>8. Current(q)' = <<q, p>> BY <2>4 DEF Current
    <2> QED BY <2>3, <2>5, <2>7, <2>8
  <1>9. FullAnswer'
    <2>1. ASSUME pc'[q] = "done", calm'[q] PROVE \A p \in Listed[q] : got'[q][p] = <<q, p>>
      <3>1. left[q] = {} BY <1>1, <2>1 DEF Proceed, QueryType
      <3>2. calm[q] BY <1>1, <2>1
      <3> QED BY <1>7, <3>1, <3>2
    <2>2. \A r \in Query \ {q} : \A p \in Listed[r] :
            pc'[r] = "done" /\ calm'[r] => got'[r][p] = <<r, p>>
      BY <1>1, <1>2, <1>5 DEF CalmInv, FullAnswer
    <2> QED BY <2>1, <2>2 DEF FullAnswer
  <1> QED BY <1>4, <1>8, <1>9 DEF CalmInv

\* A query that gives up a request is not undisturbed.
LEMMA CalmGiveUp == ASSUME TypeInv, CalmInv, NEW q \in Query, GiveUp(q) PROVE CalmInv'
  <1> USE DEF TypeInv, TypeOK
  <1>1. /\ calm' = [calm EXCEPT ![q] = FALSE] /\ UNCHANGED got
        /\ Proceed(q, left[q]) /\ left[q] \in SUBSET Peer /\ Running(q)
    BY DEF GiveUp, QueryType
  <1>2. \A r \in Query \ {q} : pc'[r] = pc[r] BY <1>1 DEF Proceed, QueryType
  <1>3. ~calm'[q] /\ \A r \in Query \ {q} : calm'[r] = calm[r] BY <1>1 DEF QueryType
  <1>4. \A r \in Query \ {q} : ~Asking(r) BY <1>1, Only
  <1>5. \A r \in Query : ~Asking(r)' BY <1>2, <1>3, <1>4 DEF Asking, Running
  <1>6. FullAnswer' BY <1>1, <1>2, <1>3 DEF CalmInv, FullAnswer
  <1> QED BY <1>5, <1>6 DEF CalmInv

-----------------------------------------------------------------------------
(* The server and the peers. *)

\* A step that is none of a query's keeps the course of each query's request, or disturbs them all.
LEMMA CalmOthers ==
  ASSUME TypeInv, CalmInv, UNCHANGED queryVars,
         \/ Disturb
         \/ UNCHANGED calm /\ OnCourse \subseteq OnCourse'
  PROVE  CalmInv'
  <1> USE DEF queryVars
  <1>1. \A q \in Query : calm'[q] => calm[q] BY DEF Disturb
  <1>2. ASSUME NEW q \in Query, Asking(q)'
        PROVE  Lone(q)' /\ Gathered(q)' /\ Current(q)' \in OnCourse'
    <2>1. Running(q) /\ ~Disturb BY <1>2 DEF Asking, Running, Disturb
    <2>2. Asking(q) BY <1>1, <1>2 DEF Asking, Running
    <2>3. Lone(q) /\ Gathered(q) /\ Current(q) \in OnCourse BY <2>2 DEF CalmInv
    <2>4. Lone(q)' BY <2>3 DEF Lone, Running
    <2>5. Gathered(q)' BY <2>3 DEF Gathered
    <2>6. Current(q)' = Current(q) BY DEF Current
    <2> QED BY <2>1, <2>3, <2>4, <2>5, <2>6
  <1>3. FullAnswer' BY <1>1 DEF CalmInv, FullAnswer
  <1> QED BY <1>2, <1>3 DEF CalmInv

LEMMA CalmStep == TypeInv /\ CalmInv /\ [Next]_vars => CalmInv'
  <1> SUFFICES ASSUME TypeInv, CalmInv, [Next]_vars PROVE CalmInv' OBVIOUS
  <1>1. ASSUME NEW q \in Query, Ask(q) PROVE CalmInv' BY <1>1, CalmAsk
  <1>2. ASSUME NEW q \in Query, Collect(q) PROVE CalmInv' BY <1>2, CalmCollect
  <1>3. ASSUME NEW q \in Query, GiveUp(q) PROVE CalmInv' BY <1>3, CalmGiveUp
  <1>4. ASSUME NEW x \in Request, Serve(x) PROVE CalmInv'
    <2>1. UNCHANGED queryVars BY <1>4 DEF Serve
    <2>2. CASE Disturb BY <2>1, <2>2, CalmOthers
    <2>3. CASE ~Disturb
      <3>1. /\ asked' = asked \cup {x} /\ rest' = [rest EXCEPT ![x] = "served"]
            /\ UNCHANGED <<result, net, worker>> /\ rest[x] = "queued" /\ UNCHANGED calm
        BY <1>4, <2>3 DEF Serve, Usual
      <3>2. OnCourse \subseteq OnCourse' BY <3>1, ServeCourse
      <3> QED BY <2>1, <3>1, <3>2, CalmOthers
    <2> QED BY <2>2, <2>3
  <1>5. ASSUME NEW x \in Request, Commit(x) PROVE CalmInv'
    <2>1. /\ rest' = [rest EXCEPT ![x] = "answered"] /\ UNCHANGED queryVars /\ UNCHANGED calm
          /\ UNCHANGED <<result, asked, net, worker>>
      BY <1>5 DEF Commit, wireVars
    <2>2. OnCourse \subseteq OnCourse' BY <2>1, CommitCourse
    <2> QED BY <2>1, <2>2, CalmOthers
  <1>6. ASSUME NEW x \in Request, Expire(x) PROVE CalmInv'
    BY <1>6, CalmOthers DEF Expire
  <1>7. ASSUME NEW x \in Request, PeerAnswers(x) PROVE CalmInv'
    <2>1. UNCHANGED queryVars BY <1>7 DEF PeerAnswers
    <2>2. CASE Disturb BY <2>1, <2>2, CalmOthers
    <2>3. CASE ~Disturb
      <3>1. /\ x \in asked /\ asked' = asked \ {x} /\ Send(x[2], Rows(x)) /\ UNCHANGED calm
            /\ UNCHANGED <<rest, result, worker>>
        BY <1>7, <2>3 DEF PeerAnswers, Usual
      <3>2. OnCourse \subseteq OnCourse' BY <3>1, AnswerCourse
      <3> QED BY <2>1, <3>1, <3>2, CalmOthers
    <2> QED BY <2>2, <2>3
  <1>8. ASSUME NEW p \in Peer, PeerRequests(p) PROVE CalmInv'
    BY <1>8, CalmOthers DEF PeerRequests
  <1>9. ASSUME NEW p \in Peer, Dispatch(p) PROVE CalmInv'
    <2>1. UNCHANGED queryVars /\ UNCHANGED calm BY <1>9 DEF Dispatch
    <2>2. OnCourse \subseteq OnCourse' BY <1>9, DispatchCourse
    <2> QED BY <2>1, <2>2, CalmOthers
  <1>10. ASSUME NEW p \in Peer, RunListener(p) PROVE CalmInv'
    <2>1. UNCHANGED queryVars /\ UNCHANGED calm BY <1>10 DEF RunListener
    <2>2. OnCourse \subseteq OnCourse' BY <1>10, ListenerCourse
    <2> QED BY <2>1, <2>2, CalmOthers
  <1>11. CASE UNCHANGED vars
    <2>1. UNCHANGED queryVars /\ UNCHANGED calm /\ UNCHANGED <<rest, result, asked, net, worker>>
      BY <1>11 DEF vars, wireVars
    <2>2. OnCourse' = OnCourse
      BY <2>1 DEF OnCourse, OnlyRequest, OwnAnswer, OneStage, Heard
    <2> QED BY <2>1, <2>2, CalmOthers
  <1> QED BY <1>1, <1>2, <1>3, <1>4, <1>5, <1>6, <1>7, <1>8, <1>9, <1>10, <1>11
          DEF Next, QueryStep, RestStep, WorkerStep

LEMMA CalmInit == Init => CalmInv
  BY DEF Init, CalmInv, Asking, Running, FullAnswer

\* A query that has the server for itself, with peers that answer it in time, has the rows of
\* every peer, each under the peer that sent it, whatever earlier queries left registered
\* (CloudService 43-55, XMPPService 249-275).
THEOREM FederationFullAnswer == Spec => []FullAnswer
  <1>1. CalmInv => FullAnswer BY DEF CalmInv
  <1> QED BY <1>1, InitType, TypeStep, CalmInit, CalmStep, PTL DEF Spec
=============================================================================
