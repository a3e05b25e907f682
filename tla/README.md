# DELTA CIM: a verification project

The CIM (Common Information Model component) connects a local infrastructure to a
peer-to-peer network of such components. A client asks its own CIM for a resource of
another CIM; the request travels as an XMPP message, the other CIM fetches the data from a
local endpoint, translates it to JSON-LD and sends it back. This directory holds TLA+
models of the server (`src/src/main/java/cim`), the TLC runs that check them and the proofs
TLAPS checks. File names below are relative to `src/src/main/java/cim`.

## 1. Inventory of the system

| Part | State it keeps | Operations | Talks to |
|---|---|---|---|
| Request exchange: `controller/xmpp/XmppCommunicationController`, `service/XMPPService.sendMessage` | a `DeferredResult` and a status code per request; response listeners appended to the chat manager | `getResource`, `postResource`, `sendMessage`, the anonymous response listener | access control list, normalisation, validation, XMPP |
| Message listener: `service/components/XmppMessageListener`, `factory/P2PMessageFactory` | the user name it signs with | `newIncomingMessage` | access control list, request processor, XMPP |
| XMPP session: `service/XMPPService`, `controller/xmpp/XmppSetupController` | fields `connection`, `chatManagerReceiver`; the row of the XMPP user | `connect`, `disconnect`, `updateXmppUser`, `isConnected`, autoconnection | XMPP server |
| Access control lists: `service/ACLService` | rows (peer, read, write) | `isAuthorized`, `update` (delete, save), `remove` | |
| Bridging rules: `service/BridgingService`, `controller/management/BridgingController` | rows (pattern, endpoint, method, module file, mappings) | save, delete, two searches | request processor, virtualisation |
| Request processor: `service/components/RequestProcessor` | none | `fetchData`, one method per HTTP method | local endpoints, virtualisation, validation |
| Virtualisation: `service/VirtualisationService` | one static translation engine | `normalisePayload`, `translatePayload`, `solveQuery` | bridging rules, Helio library |
| Validation: `service/ValidationService` | the shapes, the reports | `generateValidationReport`, maintenance | SHACL library |
| Federation: `service/CloudService`, `controller/management/CloudController` | the answer of each query; the static timeouts of the HTTP client | `federateQuery` | its own REST interface, once per trusted peer, in the same pool of threads |
| Users and tokens: `service/UserService`, `controller/management/UsersController` | rows (name, password, tokens) | create, remove, token create and remove, the default user | persistence layer, authentication |
| Authentication: `controller/AbstractSecureController`, `security` | none | `authenticated` | users |
| Startup: `DeltaCimApplication`, `ConfigTokens` | static timeouts | two `@PostConstruct` methods, one `@PreDestroy` | session, users, validation |
| Message archive, web pages | rows nobody writes; static pages | | |

**What is hard here.** Nothing in the code is locked and nothing matches a response to its
request. REST calls run in threads of their own; Smack runs the incoming listeners of each
chat in a worker of that chat, so messages of different peers are handled at the same time;
rows are replaced by a delete and a save; a query uses parallel streams; a federated query
calls the server it holds a thread of. Connections break, processes stop, messages wait at
the server or are lost, requests time out.

**What makes each part correct.** *Exchange*: each client gets one final answer; messages
that answer each other die out; data flows only between peers whose lists allow it; 202
stands for a report. *Session*: connected means logged in; a connect nobody disturbs ends
with one session that listens; a stored user is not lost. *Processing*: what leaves the CIM is
normalised; the rule that routes is the rule that treats the body; a query that misses data says so; a request is
answered with its own data. *Users*: a change of one token leaves the user and everything else
as it was; nobody is locked out. *Federation*: every query ends, counts no answer twice, and has
the rows of every trusted peer when nothing disturbs it. *Startup*: the configuration is read
before it is used.

## 2. Modules

| Module | What it is |
|---|---|
| `CimExchange` | any number of CIMs and requests: controller, response listeners, message listener, access control list, stages of the session, network |
| `RequestLifecycle` | abstract: what a CIM promises a client. `CimExchange` implements it (`KeepsLifecycle`) |
| `XmppSetup` | one CIM, any number of administrators' threads: `connect`, `disconnect` and the storing of the XMPP user, line by line |
| `PeerSession` | abstract: what the network sees of a CIM. `XmppSetup` implements it for one administrator (`OnePeer`) |
| `RequestProcessing` | one CIM, any number of threads: routing, translation, endpoints, queries, edits of rules |
| `UserStore` | one CIM, any number of threads and users: the table of users and tokens, each call of the repository a step |
| `Federation` | one CIM, any number of federated queries and peers: the loop of `federateQuery`, the pool of threads, the responses that come back |
| `MCCimExchange`, `MCXmppSetup`, `MCXmppRace`, `MCRequestProcessing`, `MCUserStore`, `MCFederation` | small instances for TLC |
| `CimExchangeProofs`, `CimExchangeSafety`, `CimExchangeAnswers`, `XmppSetupProofs`, `RequestProcessingProofs`, `UserStoreProofs`, `FederationProofs`, `FederationAnswers` | theorems and proofs |

The definitions named `X_Y` and marked "Mutated" are the definition `X` with a plausible
bug. They are not used by any specification; they document what each property catches.

### CimExchange and the code

* `Issue`, `Register`, `Send` are the controller and `sendMessage`, split where other
  threads can get in between: after the checks of token and connection, after
  `addIncomingListener`, and at `chat.send`. `Commit` is the container that writes the
  response with the status code it finds then; `Timeout` is its request timeout.
* `net[c][d]` and `chat[c][d]` are the messages from d to c and the worker of c's chat with
  d. `Dispatch` takes a message and a snapshot of ALL listeners of c, as Smack does.
  `Ignore`, `Refuse`, `StartFetch`, `FinishFetch`, `FetchThrows` are `newIncomingMessage` of
  `XmppMessageListener`; `SetResult`, `SetStatus`, `Validate` are the three effects of a
  response listener, in the order of the code.
* Two CIMs validate. The one that fetched data with GET files a report itself and sends the code
  202 (`Reports`, in `FinishFetch`); the one that asked copies the code of the message and then
  validates by its own shapes. The report of the first is not part of the message, and an
  endpoint that answers 202 is passed on as 202: `verdicts` is history and keeps which of the
  two it was.
* A message signed by a listener that does not know its user name yet has a null owner, and
  the receiver's parser stops at that field. Such a message is `"blank"`.
* `stage[c]` is where the connection of c is; one thread connects (several are the
  subject of `XmppSetup`). Messages stay in `net` while a CIM is away; `Drop` loses them.
* `hop` and `blanks` of a message are history. They say how long the chain of answers is and
  how many of its messages were blank.

Bodies are abstracted to whose they are; `InvalidPayload` names those that fail the shapes of a
CIM, which need not fail those of another.
A send that fails because the table of XMPP users does not hold exactly one row is not in
this module (see the plan). An edit of a list is a delete and a save, two steps.

### XmppSetup and the code

`connection`, `manager` and `listenerUser` are fields of `XMPPService` and its listener;
`link`, `owner` and `handled` belong to the connection objects; `users` are the rows. Every
read of a field between which another thread can act is a step of its own, since the code
reads `connection` anew at every use. `deleteAll` reads the rows and deletes them, and the
transaction fails when one is gone. The database is a file and its schema is updated, not
recreated, so `Restart` keeps the rows. A connection object is recycled when it is closed and
no field and no thread points at it (`Unused`), which bounds the objects a behaviour needs. The
manager that `getInstanceFor` returns for the connection of the field (`GetManager`) is written to
the field `chatManagerReceiver` in a step of its own (`KeepManager`, with `obtained` in between),
and the listener goes to the manager the field holds by then (`AddHandlers`): another connect may
come in before each of them. `alone` is history.

### RequestProcessing and the code

A thread is asked by a peer (`"remote"`), by a local client whose body is to be sent to a
peer (`"outgoing"`, `postResource`) or by the local SPARQL endpoint (`"query"`). `Route` is
`fetchData` with its search of the rules, `Translate` is `translatePayload` with the other
search, `Call` and `Normalise` are the request to the endpoint and `normalisePayload`, and
`SetMapping`, `Initialize`, `Publish` are the three calls on the shared engine. `fetch[w, i]`
is the use thread w makes of the endpoint of rule i: one for a routed request, one for every
GET rule for a query, all in parallel. `Translated` is what is sent of a body: the result of the
writing mapping, without one the body as it is when it is JSON-LD, and otherwise an empty body,
which is also sent when no rule is found. `Gather` puts a query together. A pattern is the set
of the targets it is found in; a pattern that does not compile is `valid = FALSE`. The engine
is external: from how the code uses it, `publishRDF` returns the data of the mapping that was
initialised last. Parallel additions to one RDF model are a race, whose outcomes are choices
of `Gather`. Headers always parse, because the sender builds them; the module file of a rule
does not change after the rule is saved.

### UserStore and the code

`rows` is the table of users with the table of their tokens. A request of `UsersController`
is a thread that goes through the calls of `UserService` one by one (`pc`), because each call
of the repository is a transaction of its own and nothing locks a user in between. The
persistence layer is external and is modelled by what the code sees of it. Spring keeps one
persistence session for a request: an object that was found is remembered together with the
row that was read (`base`), the code changes the object (`copy`), and a save writes the
difference (`Written`), or fails when the keys of the tables forbid it (`Conflict`). Tokens
are read when they are first touched (`LoadTokens`), later than the row (`Find`). Once
`updateUser` has deleted the object, the session does not know it any more, so the `save` that
follows first reads what is stored (`Merge`). A user that `updateUser` finds gone is saved
without a delete, and then the session still believes in its row. `Restart` stops the process
between any two steps and keeps what was committed; `Boot` is `createDefaultUser`. Callers that
are not let in, logins and listings change nothing. The body of a request that creates a user
may carry tokens (`Brought`). `Minutes` are what `createAPIToken` makes of its parameter: no
number, which throws whoever the token is for; negative, which adds nothing and answers 200; over,
for the zero minutes the check lets pass, where reading the expiry of the new token throws before
it is stored; and valid. `intact`, `removed` and `alone` are history.

### Federation and the code

`Ask` is the controller of a query up to its first request, `Collect` and `GiveUp` are the end
of one iteration of the loop, by a response or by an exception, with the start of the next
(`Proceed`). The loop runs over a set, so the next peer is any that is left. A request of a
query is a call of the REST interface of the same CIM: it waits for a thread (`"queued"`), is
forwarded or refused (`Serve`), and, when its result is set later, needs a thread again for
the response (`Commit`). `ThreadFree` is the limit of the pool; a thread that serves waits for
nothing, so only the waiting queries count. `net`, `worker`, `listeners` and `result` are what
`CimExchange` has in detail, with everything left out that does not bear on which rows a
query adds: a message has the rows of one request, or none. Listeners are never removed and
are run in any order; a second result of a request is ignored, and responses nobody waits for
are not written. The head of the answer is left out. `calm` is history: nothing was refused,
lost, late or of another kind since the query began, and nothing was left over from before.

## 3. Runs

| Run | Question | Instance |
|---|---|---|
| `exchange_mutual` | trust, reports, answers and rest when nothing fails | 2 CIMs asking each other, 2 requests (GET, POST), three pairs of lists |
| `exchange_shared` | do concurrent chats mix up answers? | 2 CIMs asking a third, nine pairs of lists, one of them edited |
| `exchange_crashes` | are chains bounded, is 202 given a reason, and does every client get one final answer, with every fault? | 2 CIMs that start unconnected, 1 request, crashes, losses, timeouts, bad rules, endpoints that answer 202; the lists stay as they are |
| `exchange_crosstalk` | violation: is a client answered with the response to its own request? | as `exchange_mutual` |
| `setup_alone` | one administrator, all faults: one session, served, one identity, and does a disconnect disconnect? | 1 thread, 2 users, 3 connection objects, autoconnection |
| `setup_race` | administrators that race: is a CIM left half connected, is a stored user lost, does a later call repair what a race left? | 2 threads; either sessions of 1 user with breaks and failures, or stores of 2 users |
| `setup_leak` | violation: does a disconnect disconnect, after a race? | 2 threads |
| `processing_requests` | normalisation, partial and complete answers, rules, bodies, data of lone requests | 2 threads, 2 rules, one of them edited; endpoints that answer raw or in JSON-LD, or are down |
| `processing_mixed` | violation: whose data is in an answer? | 2 threads |
| `processing_raw200` | violation: is a correct answer normalised? | 1 thread |
| `user_calls` | does a race of administrators lose users, does a restart lock them out, is a lone request exact? | 2 threads, 2 users, 2 tokens, 2 passwords, the four kinds of minutes, restarts |
| `federation_queries` | do queries end when they hold all threads, and whose rows do they have? | 2 queries, 2 threads, 2 peers (one query asks both, one asks one), one disturbance |

**What they show.** `TrustBothWays`: without edits of the lists, data is on its way or with a
client only if both lists allow the request. `ReportBehind202`: a client is told 202 when its own
CIM filed a report under its request, or when the message it was given came from a CIM that filed
one, or whose endpoint answered 202, for some request its CIM takes part in (a listener takes any
message). The converse does not hold: the result is handed over before the validation, so a
client may get invalid data with 200. `EveryCallAnswered` and `NetworkCalms` (without faults): no request
needs the timeout, and all workers come to rest. `LoneAnswerIsOwn`: the answers of a CIM with
one request are its own, whatever others do and while a list is edited. `ChainBound`: three messages at most, plus one
for every blank one. `KeepsLifecycle`: with every fault, an accepted request gets one final
answer or dies with its CIM; no list is edited in that run, and for edits it rests on the theorem
`ImplementsLifecycle`. `SoleSession`, `ServedAtRest`, `OnePeer`: one administrator at a
time has one session, served under its own name, and a disconnect ends it (`DisconnectLeaves`, which
a race before breaks; `setup_alone` has one thread and says nothing about races). `NeverHalfOpen`: no
race leaves a CIM at rest that says it is connected and is not logged in. A race can leave it logged
in and deaf, when a thread writes the manager of a connection that was replaced meanwhile; what the
code gives is `LoneConnectServes`: a connect that nothing overlaps and that answers 200 ends logged
in, listening and signing with its own name, whatever was left before. `KeepsAUser`, `LoneStoreWins`: racing stores never
empty the table and the next lone store repairs it. `GetIsNormalised`, `MissingIsTold`,
`PostUsesItsRule`, `OwnDataAlone`: a GET and the body of a client leave the CIM in JSON-LD; a
query answered with 200 has JSON-LD of every endpoint, and one that lacks an endpoint says so with
206; the body of a POST is treated by the rule that routed it, and is empty only when that rule has
no mapping and the body is no JSON-LD; one request alone gets its own data from the shared engine. `KeepsUser`: replacing a user
never loses one, because a thread that deleted a row always saves it, and a save that finds
another one's row leaves that. `NeverLockedOut`: a restart between the delete and the save can
lose the only user, and the next start then stores the default one. `LoneCallIsExact`: a
request nothing overlaps changes exactly what it is to change, whatever tables races left, and
fails only on the minutes that `createAPIToken` cannot use, before anything is deleted.
`NoRowTwice`: an answer that comes late is taken for the one of the next peer, but its rows
are never counted twice, since a query only reads one response per message. `FullAnswer`: a
query nothing disturbs has the rows of every peer, each under its own, although listeners of
earlier queries are still registered; of a query that a failure did disturb it says nothing, and
such a query tells nobody that rows are missing. `QueryEnds`: a query ends also when all threads wait.

**Bounds.** `MaxHop` saturates the history counters and is at least 3, the longest chain of
named messages; larger values only make room for more blank ones. Two CIMs are enough for
chains, since a message is only ever answered to its sender; three are needed for two chats
of one CIM. Two requests are needed for a listener that catches the message of another. With
one thread two connection objects are in use at most (the one of the field, and the one the
chat manager came from), with two threads that race three are enough to lose one, and for a
manager that is obtained, replaced and written back. Three
stores are needed for a lone store after a race of two (a thread may store again). Two rules are needed for a rule that
is found instead of another, and for two endpoints of one query; the code 201 is
normalised for all methods, 200 only for a GET; the theorems cover all other codes. The pattern of
the GET rules fits the URL of their endpoint also for a query, and endpoints answer raw or in JSON-LD,
may be down or give what the mapping cannot translate, so that queries end with 200 and with 206. `FewQueries` keeps the run
small: a query of a local client meets no other request, one of a peer meets no other such query
(requests and translations of two threads are not bounded). Reports of the fetching CIM are left to
`CimExchange`, but for `processing_mixed`, where answers may fail the validation. Two
threads that change one user are a race, and each step of one meets every state the other can
leave; the second user and the second token show that the rest stays. Two queries and two
threads are enough to fill the pool. Two peers are needed for a late answer that meets the
next request, and the second query for listeners left by the first. `MaxOdd = 1` allows one
refusal, expiry, foreign message or answer without rows; giving up, and answers that come late
or never, are not bounded. The theorems about types, users and rows have none of these bounds.

**Deadlock** is checked in all runs but those of `CimExchange` and `Federation`: there the
system really stops, when no client asks any more.

**Fairness** is used in `exchange_mutual`, `exchange_crashes` and `federation_queries` only. The steps of a request
thread, of a chat worker and of a connecting thread are weakly fair: they are threads the JVM
schedules, and no lock or queue of the code can hold one back for ever (endpoints and the
server answer within timeouts). The timeout is a step of the request, since the container
does fire it. In `Federation` the threads of the server, the workers of the chats and the loop of
a query are weakly fair; since `GiveUp` is enabled as long as there is no response, that includes
the timeout of the HTTP client, which the code sets before each of its calls. Nothing makes
clients ask, peers answer, administrators act or faults happen.

**Findings.** The four violations are recorded in `PROJECT.json` with the line each
contradicts. Reading the code also showed behaviour no run is spent on: a 202 of the CIM that fetched
the data is passed on although the client's own CIM has no report, and so is the 202 of an endpoint,
of which there is no report at all (`XmppCommunicationController` 53 says "but a validation report was
created"; `RequestProcessor` 136, `XMPPService` 266); a connect that races can leave the listener on
the chat manager of an old connection (`XMPPService` 230); an ordinary response
is answered with a refusal (`XmppMessageListener` 44); a connect on a connected CIM never
answers 405 (`XmppSetupController` 107) and one without a stored user fails with 500; two
stores that race leave two rows, with which the CIM has no user; PUT, PATCH and DELETE are
translated by POST rules or sent with an empty body (`VirtualisationService` 168, 187), and so is a
POST without a mapping whose body is no JSON-LD (180); a token of zero minutes fails with 500 and one
of negative minutes is answered with 200 (`UsersController` 119). Two
requests that change the tokens of one user may undo each other, bring a removed user back or
fail with 500 (`UserService` 61 to 67), and a caller whose user is being replaced may get 401.
The tokens of the table are only listed; `authenticated` decides by the signature, the expiry
and the user. `README.md` 38 and 39 of the repository describe two flags as the timeouts of
requests to the local infrastructure; they are static settings of one HTTP client, which a
federated query sets to 60 seconds for everyone (`CloudService` 45) and each request of a peer
sets back.

## 4. Proofs

TLC checks the instances above; TLAPS proves these for every value of the constants.

* `CimExchangeProofs!TypeCorrect`: `TypeOK` is inductive by itself, once the type of a worker
  says that one that runs has a message and a listener left.
* `CimExchangeSafety!ChainsBounded`: `ChainBound`. The invariant `ChainInv` relates the
  kind of a message to its place in the chain: a request is the first, data at most the
  second plus its blanks, a refusal at most the third plus its blanks, and a refusal is never
  answered. `ChainBound` alone is not inductive, because a refusal with `hop = 3` that was
  answered would exceed it. Saturation at `MaxHop >= 3` is the only assumption used.
* `CimExchangeAnswers`: what clients are told. `RouteInv` adds to the types where messages and
  listeners are: a message only travels between the two CIMs its request names, a request only
  towards the callee (`Routed`); a response listener is registered and run at the CIM of its
  request only (`Homed`); a call never changes once it is made (`Course`); so whatever a client
  hears is about a request its CIM takes part in (`Heard`). `LoneAnswers` (`LoneAnswerIsOwn`)
  follows, although a listener takes any message. `TrustIsMutual` (`TrustBothWays`) needs that
  the lists stay as they are (`AclKept`) and that a worker that fetches found the caller on its
  list: data is made there only, while requests pass the caller's list before they are
  sent, and what a listener stores is a message it was given. `ReportsBehind202` needs
  `ReportInv`: a message, a status and a code a worker is about to copy are 202 only with a verdict
  for the request the message is about (`Told`), and a status also with a report (`Behind`). A response
  listener runs at the CIM of its request and is given messages of requests its CIM takes part in
  (`RouteInv`), which is where the verdict is looked for; verdicts and reports are never taken back.
  `ImplementsLifecycle` is the refinement of
  `RequestLifecycle` without its fairness: `Issue` accepts, `Commit` replies, `Crash` breaks, and
  every other step is a stutter.
* `XmppSetupProofs`: `SetupTypeCorrect` (with `Prepared`, which says what a thread holds at
  each place); `SetupNeverHalfOpen` for any number of threads, from `Attended`: as long as
  the connection of the field is open and not logged in, a thread is about to log it in or to drop it;
  `SetupSoleSession` and `SetupServedAtRest` under the assumption `OneAdministrator` (one
  thread), from the invariants `Sole` and `Signed`; under the same assumption
  `SetupDisconnectLeaves`, so that what `setup_leak` shows needs a race, and `SetupIsOnePeer`, the
  refinement of `PeerSession` (with `Sole`, what the network sees is the user of the field's
  connection, which is only replaced when it is not logged in); `SetupKeepsAUser` when no restart
  happens, from `Kept`; `SetupLoneStoreWins`, from `Lone`; `SetupLoneConnectServes`, for any number of threads and
  restarts, from what a lone connect has reached at each of its places.
* `RequestProcessingProofs`: all five invariants of `RequestProcessing`, for every number of
  threads and rules, every set of codes the endpoints answer (200 to 599) and every edit.
  `TypeInv` adds to the types that an engine that is read was given a mapping (`Filled`) and
  what a finished use of an endpoint may hold (`Heeded`: an error has a code of at least 400,
  an untranslated answer a code that is not to be normalised). `CourseInv` says, for each
  place of a thread, which endpoints it uses and how far; `GetIsNormalised` and
  `MissingIsTold` follow from it, where they speak of a reply that was given in an earlier
  state. `RoutedInv` keeps the rule found by the first search until the second one
  (`OneRoute`: both find at most one rule); `OwnInv` keeps the engine with the one use of a
  lone request, because every other thread is idle.
* `UserStoreProofs`: all four properties of `UserStore`, for every number of threads, users,
  tokens and passwords. `TypeInv` says what a session holds at each place of its thread.
  `KeepsUser` and `TypeInv` are inductive together: a thread that deleted a row is a saver
  until it stores a row, or finds that another one did. `NeverLockedOut` follows the same way
  from `SomeIntact`. `LoneCallIsExact` rests on `LoneInv`: as long as a request is alone, the
  table, `base` and `copy` at each place are functions of the table it found (`Course`); a request
  that gets past `Find` is one `createAPIToken` does not refuse.
* `FederationProofs`: `TypeOK`, for any number of queries, peers and threads, with `Fresh` (what
  a query has still to ask was not requested), without which a request could be queued that
  has a listener already; the limit of the pool by the cardinality of the running queries.
  `NoRowTwice` is not inductive: `RowInv` adds where rows can be. They are in the messages of
  one peer, once (`OneMessage`); rows anywhere else have left it for good (`Past`, by the set
  `Gone`); and the response a query waits for, set or about to be set by a worker, has no rows
  the query has already (`New`). A query that goes on waits for a request that was never served,
  so that its response is new again.

* `FederationAnswers`: `FullAnswer`, for any number of peers and of listeners that earlier queries
  left registered. `CalmInv` says of a query nothing disturbed that it is alone (`Lone`), that it has
  the rows of the peers it is through with (`Gathered`), and that its request is the only one on its
  way (`OnlyRequest`), can only be answered with its own rows (`OwnAnswer`), and is queued, at the
  peer, on its way back or heard, one after the other (`OneStage`). The last is what makes it
  inductive: when the result is set nothing is on its way that the next request could be given.

Every invariant and action property of the passing runs is proved, for one administrator or without
restarts where this is said above. The theorems about `CimExchange`
are about `Safe`, its specification without fairness, which `Spec` implies. Only model-checked is
liveness, which TLAPS does not prove: `EveryCallAnswered`, `NetworkCalms`, `QueryEnds` and the
fairness part of `KeepsLifecycle`. The violations are TLC's.

## 5. What is not modelled

SHACL validation, translation and SPARQL themselves (libraries; their outcomes are inputs);
the maintenance of shapes and reports; the signature and the expiry of tokens, which
`JwtTokenUtil` computes without state; the head of a federated answer; the message archive,
which no code writes.

The web front end (`src/src/main/resources/public`) is not modelled either. Its pages call the
REST interface and keep nothing. Its scripts are copies of third-party libraries (jQuery,
CodeMirror, the pivot view of YASR, the charts of a page template) and the build script of that
template; the program's own lines in them set up a table or a query form. So the project covers
the Java server, which is where the state and the concurrency of this system are, and no line
of JavaScript.

## 6. Plan

1. *Composition*: `CimExchange` with the rows of `XmppSetup`, for requests signed with a
   stored user that is not the one the session is logged in as, and for sends that fail
   because there is no single row.
2. *Startup*: the order of the initialisers, and timeouts read before they are set.
3. *Validation*: the shapes and reports, with their maintenance while requests run.
4. *Proofs*: `Federation`'s responses as a refinement by `CimExchange`, once the composition is
   there.

Runs are few and each answers one question: a new module takes the place of a violation run
once its finding is settled.
