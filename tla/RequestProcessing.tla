-------------------------- MODULE RequestProcessing --------------------------
(***************************************************************************)
(* What a CIM does with the requests it is asked to answer: the bridging   *)
(* rules route a request to a local endpoint (RequestProcessor), its body  *)
(* and the answer are translated by interoperability modules               *)
(* (VirtualisationService), and a SPARQL query is answered from the data   *)
(* of every endpoint with a GET rule.                                      *)
(*                                                                         *)
(* The rules are read anew at every lookup while administrators edit them. *)
(* Requests of several peers, the parallel streams of one query and the    *)
(* bodies local clients send all use one translation engine, a static      *)
(* field that takes a mapping, is initialised and publishes its data in    *)
(* three unlocked calls.                                                   *)
(***************************************************************************)
EXTENDS Integers, FiniteSets

CONSTANTS
    Worker,    \* the threads: chat workers of peers, and of local clients
    Id,        \* the keys of bridging rules, in the order of findAll()
    Rule,      \* the rules administrators may save
    Edits,     \* the keys they edit
    InitRules, \* the tables of rules a behaviour may start with
    Message,   \* what may be asked: [kind, method, path]
    Heard,     \* what endpoints answer: [code, form]
    Faults     \* what else may happen: down, badquery, untranslatable, invalid

Methods == {"GET", "POST", "PUT", "PATCH", "DELETE"}
NoRule  == [method |-> "none"]
Kinds   == {"remote", "outgoing", "query"}
Forms   == {"jsonld", "raw"}

\* A row of the table: whether its pattern compiles, and which mappings its module has.
IsRule(r) ==
    r.method \in Methods /\ {r.valid, r.append, r.reading, r.writing} \subseteq BOOLEAN

ASSUME ProcessingAssumption ==
    /\ Id \subseteq Nat /\ IsFiniteSet(Id) /\ Id # {}
    /\ NoRule \notin Rule
    /\ \A r \in Rule : IsRule(r)
    /\ InitRules \subseteq [Id -> Rule \cup {NoRule}]
    /\ \A m \in Message : /\ m.kind \in Kinds /\ m.method \in Methods
                          /\ m.kind = "outgoing" => m.method # "GET"
    /\ \A h \in Heard : h.code \in 200 .. 599 /\ h.form \in Forms

VARIABLES
    rules,   \* rules[i]: the row of BridgingRuleRepository with key i
    engine,  \* the static virtualiser: whose mapping it has, whose data it loaded
    step,    \* step[w]: where thread w is
    msg,     \* msg[w]: what it was asked, last
    route,   \* route[w]: the key of the rule that routed it
    sent,    \* sent[w]: what it sends to the endpoint
    fetch,   \* fetch[<<w, i>>]: its use of the endpoint of rule i
    reply,   \* reply[w]: how it answered
    alone,   \* alone[w]: history, nothing else was under way since it was asked
    quiet    \* quiet[w]: history, no rule was edited since it was asked

threads == <<step, msg, route, sent, fetch, reply>>
vars == <<rules, engine, threads, alone, quiet>>

-----------------------------------------------------------------------------
(* Rules.  A pattern stands for the targets it is found in: paths of       *)
(* requests, and endpoints with or without a path.                         *)

AtPath(path) == [base |-> "", path |-> path]
Url(rule, path) == [base |-> rule.base, path |-> IF rule.append THEN path ELSE ""]

Exists(i) == rules[i] # NoRule

Fits(i, target) == Exists(i) /\ rules[i].valid /\ target \in rules[i].pattern
Matches(target, method) == {i \in Id : Fits(i, target) /\ rules[i].method = method}
FirstOf(keys) == {i \in keys : \A j \in keys : i <= j}

\* Both searches return the first match, as a set that is empty when there is none: the one
\* of the request processor, by the request ...
MatchedRoute(path, method) == FirstOf(Matches(AtPath(path), method))

\* Mutated: the method is not compared.
Found_AnyMethod(target, method) == FirstOf({i \in Id : Fits(i, target)})

\* ... and the one of the bridging service, by the request or the endpoint.
Found(target, method) == FirstOf(Matches(target, method))

\* A pattern that does not compile throws when the search gets to its rule.
Throws(target, method) ==
    \E b \in Id : Exists(b) /\ ~rules[b].valid /\ \A i \in Matches(target, method) : b < i

-----------------------------------------------------------------------------
Nobody == <<>>
NoMessage == [kind |-> "none"]
Nothing == [by |-> "nobody", rule |-> 0]

Fetch(at, url, method, code, form, of) ==
    [at |-> at, url |-> url, method |-> method, code |-> code, form |-> form, of |-> of]
NoFetch == Fetch("none", AtPath(""), "GET", 0, "none", {})
Reply(code, form, of) == [code |-> code, form |-> form, of |-> of]
NoReply == Reply(0, "none", {})

Init ==
    /\ rules \in InitRules
    /\ engine = [mapping |-> Nobody, loaded |-> Nobody]
    /\ step = [w \in Worker |-> "idle"]
    /\ msg = [w \in Worker |-> NoMessage]
    /\ route = [w \in Worker |-> 0]
    /\ sent = [w \in Worker |-> Nothing]
    /\ fetch = [x \in Worker \X Id |-> NoFetch]
    /\ reply = [w \in Worker |-> NoReply]
    /\ alone = [w \in Worker |-> FALSE]
    /\ quiet = [w \in Worker |-> FALSE]

Goto(w, there) == step' = [step EXCEPT ![w] = there]
PutFetch(w, i, f) == fetch' = [fetch EXCEPT ![<<w, i>>] = f]

\* Thread w is done, and answers.
Finish(w, code, form, of) ==
    /\ Goto(w, "idle")
    /\ reply' = [reply EXCEPT ![w] = Reply(code, form, of)]

History == UNCHANGED <<alone, quiet>>

-----------------------------------------------------------------------------
(* A message of a peer is routed; the body of a local client, which is to  *)
(* be sent to a peer, is only normalised; a local query needs no route.    *)

First == [remote |-> "route", outgoing |-> "fetching", query |-> "query"]

Cleared(w) == [x \in Worker \X Id |-> IF x[1] = w THEN NoFetch ELSE fetch[x]]
Slot == CHOOSE i \in Id : TRUE

\* A body of a local client comes in any form.
Ask(w) ==
    /\ step[w] = "idle"
    /\ \E m \in Message :
        /\ msg' = [msg EXCEPT ![w] = m]
        /\ Goto(w, First[m.kind])
        /\ IF m.kind = "outgoing"
           THEN \E form \in Forms : fetch' = [Cleared(w) EXCEPT ![<<w, Slot>>] =
                    Fetch("normalise", AtPath(m.path), m.method, 200, form, {<<w, Slot>>})]
           ELSE fetch' = Cleared(w)
    /\ route' = [route EXCEPT ![w] = 0]
    /\ sent' = [sent EXCEPT ![w] = Nothing]
    /\ reply' = [reply EXCEPT ![w] = NoReply]
    /\ alone' = [v \in Worker |-> v = w /\ \A u \in Worker : step[u] = "idle"]
    /\ quiet' = [quiet EXCEPT ![w] = TRUE]
    /\ UNCHANGED <<rules, engine>>

\* fetchData: the first rule that matches, else a query, else 404.  A pattern that does
\* not compile throws here outside any try block: nobody is answered.
Route(w) ==
    /\ step[w] = "route"
    /\ LET path == msg[w].path
           method == msg[w].method IN
       \/ /\ Throws(AtPath(path), method)
          /\ Finish(w, 0, "thrown", {})
          /\ UNCHANGED <<route, fetch>>
       \/ /\ ~Throws(AtPath(path), method)
          /\ \E i \in MatchedRoute(path, method) :
               /\ route' = [route EXCEPT ![w] = i]
               /\ PutFetch(w, i, Fetch("call", Url(rules[i], path), method, 0, "none", {}))
               /\ Goto(w, IF method = "GET" THEN "fetching" ELSE "translate")
          /\ UNCHANGED reply
       \/ /\ ~Throws(AtPath(path), method)
          /\ MatchedRoute(path, method) = {}
          /\ IF path = "/sparql" THEN Goto(w, "query") /\ UNCHANGED reply
                                 ELSE Finish(w, 404, "error", {})
          /\ UNCHANGED <<route, fetch>>
    /\ History /\ UNCHANGED <<rules, engine, msg, sent>>

-----------------------------------------------------------------------------
\* translatePayload looks for a POST rule, whatever the method of the request.
BodyMethod(method) == "POST"

\* Made by the mapping of rule i, the body as it came, or no body at all.
Sent(by, i) == [by |-> by, rule |-> i]

\* What is sent of a body by the rule that was found: without a mapping only JSON-LD passes.
Translated(form, i) ==
    Sent(IF rules[i].writing THEN "mapping" ELSE IF form = "jsonld" THEN "verbatim" ELSE "empty", i)

\* The body of a peer comes in any form; one that the mapping cannot translate is answered as
\* if the endpoint were down.
Translate(w) ==
    /\ step[w] = "translate"
    /\ LET path == AtPath(msg[w].path)
           method == BodyMethod(msg[w].method)
           found == Found(path, method) IN
       \/ /\ ~Throws(path, method)
          /\ \/ found = {} /\ sent' = [sent EXCEPT ![w] = Sent("empty", 0)]
             \/ \E i \in found, form \in Forms : sent' = [sent EXCEPT ![w] = Translated(form, i)]
          /\ Goto(w, "fetching")
          /\ UNCHANGED reply
       \/ /\ \/ Throws(path, method)
             \/ "untranslatable" \in Faults /\ \E i \in found : rules[i].writing
          /\ Finish(w, 404, "error", {})
          /\ UNCHANGED sent
    /\ History /\ UNCHANGED <<rules, engine, msg, route, fetch>>

-----------------------------------------------------------------------------
(* One use of an endpoint: the call, and the normalisation of its answer.  *)

\* Mutated: a GET has the bound of the other methods.
Normalises_Above200(method, code) == code > 200 /\ code < 300

Normalises(method, code) ==
    (IF method = "GET" THEN code >= 200 ELSE code > 200) /\ code < 300

\* The endpoint of x answers, or does not within the timeouts.
Call(w, i) ==
    LET f == fetch[<<w, i>>] IN
    /\ step[w] \in {"fetching", "gathering"} /\ f.at = "call"
    /\ \/ \E h \in Heard :
            PutFetch(w, i, Fetch(IF Normalises(f.method, h.code) THEN "normalise" ELSE "done",
                                 f.url, f.method, h.code, h.form, {<<w, i>>}))
       \/ "down" \in Faults /\ PutFetch(w, i, Fetch("done", f.url, f.method, 404, "error", {}))
    /\ History /\ UNCHANGED <<rules, engine, step, msg, route, sent, reply>>

\* Fetch x ends with data of `of' in JSON-LD; a GET is validated, which may change its code.
Normalised(w, i, of) ==
    LET f == fetch[<<w, i>>] IN
    \E code \in {f.code} \cup (IF "invalid" \in Faults /\ f.method = "GET" THEN {202} ELSE {}) :
        PutFetch(w, i, Fetch("done", f.url, f.method, code, "jsonld", of))

Refused(w, i, code) ==
    PutFetch(w, i, Fetch("done", fetch[<<w, i>>].url, fetch[<<w, i>>].method, code, "error", {}))

\* normalisePayload: JSON-LD is kept, anything else needs the reading mapping of a rule
\* found in the URL of the endpoint, by now, and one that takes its data from the payload.
Normalise(w, i) ==
    LET f == fetch[<<w, i>>]
        usable == {j \in Found(f.url, f.method) : rules[j].reading} IN
    /\ f.at = "normalise"
    /\ \/ f.form = "jsonld" /\ Normalised(w, i, f.of)
       \/ f.form = "raw" /\ Throws(f.url, f.method)
          /\ Refused(w, i, IF msg[w].kind = "outgoing" THEN 500 ELSE 404)
       \/ /\ f.form = "raw" /\ ~Throws(f.url, f.method)
          /\ usable = {} \/ "untranslatable" \in Faults
          /\ Refused(w, i, 418)
       \/ f.form = "raw" /\ ~Throws(f.url, f.method) /\ usable # {}
          /\ PutFetch(w, i, Fetch("set", f.url, f.method, f.code, f.form, f.of))
    /\ History /\ UNCHANGED <<rules, engine, step, msg, route, sent, reply>>

Advance(w, i, there) ==
    LET f == fetch[<<w, i>>] IN
    PutFetch(w, i, Fetch(there, f.url, f.method, f.code, f.form, f.of))

\* Mutated: the mapping is made, and not given to the engine.
SetMapping_Kept(w, i) ==
    /\ fetch[<<w, i>>].at = "set"
    /\ Advance(w, i, "initialize")
    /\ History /\ UNCHANGED <<rules, engine, step, msg, route, sent, reply>>

\* The mapping carries the data to translate, as the connector of its data sources.
SetMapping(w, i) ==
    /\ fetch[<<w, i>>].at = "set"
    /\ engine' = [mapping |-> <<w, i>>, loaded |-> engine.loaded]
    /\ Advance(w, i, "initialize")
    /\ History /\ UNCHANGED <<rules, step, msg, route, sent, reply>>

\* Mutated: an engine that has data is not initialised again.
Initialize_Once(w, i) ==
    /\ fetch[<<w, i>>].at = "initialize"
    /\ engine' = [mapping |-> engine.mapping,
                  loaded |-> IF engine.loaded = Nobody THEN engine.mapping ELSE engine.loaded]
    /\ Advance(w, i, "publish")
    /\ History /\ UNCHANGED <<rules, step, msg, route, sent, reply>>

Initialize(w, i) ==
    /\ fetch[<<w, i>>].at = "initialize"
    /\ engine' = [mapping |-> engine.mapping, loaded |-> engine.mapping]
    /\ Advance(w, i, "publish")
    /\ History /\ UNCHANGED <<rules, step, msg, route, sent, reply>>

\* The data that was loaded last, or an error when the mapping does not fit it.
Publish(w, i) ==
    /\ fetch[<<w, i>>].at = "publish"
    /\ \/ Normalised(w, i, {engine.loaded})
       \/ "untranslatable" \in Faults /\ Refused(w, i, 418)
    /\ History /\ UNCHANGED <<rules, engine, step, msg, route, sent, reply>>

\* The answer of the endpoint, or the normalised body, is the answer of the thread.
Deliver(w) ==
    /\ step[w] = "fetching"
    /\ \E i \in Id : /\ fetch[<<w, i>>].at = "done"
                     /\ Finish(w, fetch[<<w, i>>].code, fetch[<<w, i>>].form, fetch[<<w, i>>].of)
    /\ History /\ UNCHANGED <<rules, engine, msg, route, sent, fetch>>

-----------------------------------------------------------------------------
(* A SPARQL query over the data of every endpoint with a GET rule.         *)

StartQuery(w) ==
    /\ step[w] = "query"
    /\ \/ /\ \E code \in {400, 405} : "badquery" \in Faults /\ Finish(w, code, "error", {})
          /\ UNCHANGED fetch
       \/ /\ Goto(w, "gathering")
          /\ fetch' = [x \in Worker \X Id |->
                IF x[1] = w /\ Exists(x[2]) /\ rules[x[2]].method = "GET"
                THEN Fetch("call", Url([base |-> rules[x[2]].base, append |-> FALSE], ""),
                           "GET", 0, "none", {})
                ELSE fetch[x]]
          /\ UNCHANGED reply
    /\ History /\ UNCHANGED <<rules, engine, msg, route, sent>>

Used(w) == {i \in Id : fetch[<<w, i>>].at # "none"}
DataOf(w) == UNION {fetch[<<w, i>>].of : i \in Used(w)}

\* Mutated: an answer that is no error of the endpoint counts as complete.
Partial_ServerErrors(w) == \E i \in Used(w) : fetch[<<w, i>>].code > 499
Partial(w) == \E i \in Used(w) : fetch[<<w, i>>].code > 299

\* Parallel threads add to one model, which is not synchronised: some of the data may get
\* lost, or the addition fails; a body that is no JSON-LD may fail to parse.  A query of a
\* peer that fails ends as a route that does not exist.
Gather(w) ==
    /\ step[w] = "gathering"
    /\ \A i \in Used(w) : fetch[<<w, i>>].at = "done"
    /\ \/ \E kept \in SUBSET DataOf(w) :
            /\ Cardinality(Used(w)) < 2 => kept = DataOf(w)
            /\ Finish(w, IF Partial(w) THEN 206 ELSE 200, "results", kept)
       \/ /\ Cardinality(Used(w)) >= 2 \/ \E i \in Used(w) : fetch[<<w, i>>].form # "jsonld"
          /\ Finish(w, IF msg[w].kind = "query" THEN 500 ELSE 404, "error", {})
    /\ History /\ UNCHANGED <<rules, engine, msg, route, sent, fetch>>

-----------------------------------------------------------------------------
(* Administrators save a rule, under a new or an existing key, and delete. *)

Edited == quiet' = [w \in Worker |-> FALSE]

Save(i) ==
    /\ i \in Edits
    /\ \E r \in Rule : rules' = [rules EXCEPT ![i] = r]
    /\ Edited /\ UNCHANGED <<engine, threads, alone>>

Delete(i) ==
    /\ i \in Edits /\ Exists(i)
    /\ rules' = [rules EXCEPT ![i] = NoRule]
    /\ Edited /\ UNCHANGED <<engine, threads, alone>>

-----------------------------------------------------------------------------
FetchStep(w, i) ==
    \/ Call(w, i) \/ Normalise(w, i)
    \/ SetMapping(w, i) \/ Initialize(w, i) \/ Publish(w, i)

ThreadStep(w) ==
    \/ Ask(w) \/ Route(w) \/ Translate(w) \/ StartQuery(w) \/ Deliver(w) \/ Gather(w)
    \/ \E i \in Id : FetchStep(w, i)

Next == (\E w \in Worker : ThreadStep(w)) \/ (\E i \in Id : Save(i) \/ Delete(i))

Spec == Init /\ [][Next]_vars

-----------------------------------------------------------------------------
(* Correctness.                                                            *)

Places == {"idle", "route", "translate", "fetching", "query", "gathering"}
Uses == {"none", "call", "normalise", "set", "initialize", "publish", "done"}
\* The codes of the answers the CIM makes itself; 0 is no answer.
OwnCodes == {0, 200, 202, 206, 400, 404, 405, 418, 500}
Codes == OwnCodes \cup {h.code : h \in Heard}
Slots == Worker \X Id
Texts == {""} \cup {r.base : r \in Rule} \cup {m.path : m \in Message}
Fetches == [at : Uses, url : [base : Texts, path : Texts], method : Methods, code : Codes,
            form : Forms \cup {"none", "error"}, of : SUBSET (Slots \cup {Nobody})]

\* Every variable stays within its type: in particular a translation never publishes the
\* data of an engine nobody gave a mapping.
TypeOK ==
    /\ rules \in [Id -> Rule \cup {NoRule}]
    /\ engine \in [mapping : Slots \cup {Nobody}, loaded : Slots \cup {Nobody}]
    /\ step \in [Worker -> Places]
    /\ msg \in [Worker -> Message \cup {NoMessage}]
    /\ route \in [Worker -> Id \cup {0}]
    /\ sent \in [Worker -> [by : {"nobody", "mapping", "verbatim", "empty"}, rule : Id \cup {0}]]
    /\ fetch \in [Slots -> Fetches]
    /\ reply \in [Worker -> [code : Codes, form : Forms \cup {"none", "thrown", "error", "results"},
                             of : SUBSET Slots]]
    /\ alone \in [Worker -> BOOLEAN]
    /\ quiet \in [Worker -> BOOLEAN]

Good(code) == code \in 200 .. 299

\* What a GET brings back from a local endpoint, and the body of a local client, leave the
\* CIM in JSON-LD, whatever rules are edited meanwhile.
GetIsNormalised ==
    \A w \in Worker : reply[w].form = "raw" /\ Good(reply[w].code) =>
        msg[w].kind = "remote" /\ msg[w].method # "GET"

\* A query answered as complete has an answer in JSON-LD of every endpoint it asked: one
\* that is down, fails or cannot be translated makes the answer partial (206).
MissingIsTold ==
    \A w \in Worker : reply[w].form = "results" /\ reply[w].code = 200 =>
        \A i \in Used(w) : fetch[<<w, i>>].form = "jsonld"

\* The rule that routed a POST also decides what is sent of its body, although the rules are
\* searched twice, unless a rule is edited in between: a rule with a writing mapping translates
\* every body, and an empty one is sent only by a rule that has none.
PostUsesItsRule ==
    \A w \in Worker : sent[w] # Nothing /\ msg[w].method = "POST" /\ quiet[w] =>
        /\ sent[w].rule = route[w]
        /\ sent[w].by = "mapping" <=> rules[route[w]].writing

\* A request that has the CIM for itself is answered with its own data, whatever earlier
\* translations left in the engine.
OwnDataAlone ==
    \A w \in Worker : alone[w] /\ Cardinality(Used(w)) = 1 =>
        reply[w].of \subseteq {<<w, i>> : i \in Used(w)}

\* What fetchData says of the payload of an endpoint ("Normalise payload if requited to
\* Json-LD + Ontology"): what a peer gets is made of what its own endpoint answered.
OwnData ==
    \A w \in Worker : msg[w].kind = "remote" /\ reply[w].form = "jsonld" =>
        reply[w].of = {<<w, route[w]>>}

\* What it says of the answer to a POST ("if response was correct try no normalised again
\* the payload"): an answer that is correct reaches the peer in JSON-LD.
CorrectIsNormalised ==
    \A w \in Worker : Good(reply[w].code) => reply[w].form # "raw"
=============================================================================
