----------------------- MODULE RequestProcessingProofs -----------------------
(* What holds of RequestProcessing for every number of threads, every      *)
(* table of rules and every answer of the endpoints.                       *)
EXTENDS RequestProcessing, FiniteSetTheorems, TLAPS

-----------------------------------------------------------------------------
(* Types.                                                                  *)

\* A thread at work was asked something; a translation that was initialised gave the
\* engine a mapping, and one that may publish has loaded data.
Asked == \A w \in Worker : step[w] # "idle" => msg[w] \in Message
Filled ==
    \A x \in Slots :
        /\ fetch[x].of \subseteq Slots
        /\ fetch[x].at \in {"initialize", "publish"} => engine.mapping \in Slots
        /\ fetch[x].at = "publish" => engine.loaded \in Slots

\* What a use of an endpoint that was answered holds; only an error ends it without data.
Heeds(f) ==
    f.at \notin {"none", "call"} =>
        /\ f.form # "none" /\ f.code >= 200
        /\ f.form = "error" => f.at = "done" /\ f.code >= 400
        /\ f.at = "done" /\ f.form = "raw" => ~Normalises(f.method, f.code)
Heeded == \A x \in Slots : Heeds(fetch[x])

TypeInv == TypeOK /\ Asked /\ Filled /\ Heeded

LEMMA FetchType ==
  ASSUME NEW at \in Uses, NEW base \in Texts, NEW path \in Texts, NEW method \in Methods,
         NEW code \in Codes, NEW form \in Forms \cup {"none", "error"},
         NEW of \in SUBSET (Slots \cup {Nobody})
  PROVE  Fetch(at, [base |-> base, path |-> path], method, code, form, of) \in Fetches
  BY DEF Fetch, Fetches

LEMMA NoFetchType == NoFetch \in Fetches
  <1>1. "" \in Texts BY DEF Texts
  <1>2. "none" \in Uses /\ "GET" \in Methods /\ 0 \in Codes BY DEF Uses, Methods, Codes, OwnCodes
  <1> QED BY <1>1, <1>2, FetchType DEF NoFetch, AtPath

LEMMA ProcessingInit == Init => TypeInv
  <1> SUFFICES ASSUME Init PROVE TypeInv OBVIOUS
  <1>1. fetch \in [Slots -> Fetches] /\ \A x \in Slots : fetch[x] = NoFetch
    BY NoFetchType DEF Init, Slots
  <1>2. rules \in [Id -> Rule \cup {NoRule}] BY ProcessingAssumption DEF Init
  <1>3. reply \in [Worker -> [code : Codes, form : Forms \cup {"none", "thrown", "error", "results"},
                              of : SUBSET Slots]]
    BY DEF Init, NoReply, Reply, Codes, OwnCodes
  <1>4. TypeOK BY <1>1, <1>2, <1>3 DEF Init, TypeOK, Places, Nothing
  <1>5. Asked /\ Filled /\ Heeded
    BY <1>1 DEF Init, Asked, Filled, Heeded, Heeds, NoFetch, Fetch
  <1> QED BY <1>4, <1>5 DEF TypeInv

\* The frame of every step that puts one fetch.
LEMMA PutType ==
  ASSUME TypeOK, NEW w \in Worker, NEW i \in Id, NEW f \in Fetches, PutFetch(w, i, f)
  PROVE  /\ fetch' \in [Slots -> Fetches]
         /\ fetch'[<<w, i>>] = f
         /\ \A x \in Slots : x # <<w, i>> => fetch'[x] = fetch[x]
  BY DEF PutFetch, TypeOK, Slots

LEMMA FinishType ==
  ASSUME TypeOK, NEW w \in Worker, NEW code \in Codes,
         NEW form \in Forms \cup {"none", "thrown", "error", "results"}, NEW of \in SUBSET Slots,
         Finish(w, code, form, of)
  PROVE  /\ step' \in [Worker -> Places]
         /\ step'[w] = "idle"
         /\ \A v \in Worker : v # w => step'[v] = step[v] /\ reply'[v] = reply[v]
         /\ reply'[w] = Reply(code, form, of)
         /\ reply' \in [Worker -> [code : Codes,
                form : Forms \cup {"none", "thrown", "error", "results"}, of : SUBSET Slots]]
  BY DEF Finish, Goto, TypeOK, Places, Reply

LEMMA UrlType ==
  ASSUME TypeOK, NEW w \in Worker, msg[w] \in Message, NEW i \in Id, Exists(i)
  PROVE  /\ rules[i] \in Rule /\ rules[i].base \in Texts /\ rules[i].method \in Methods
         /\ msg[w].path \in Texts /\ msg[w].method \in Methods
  BY ProcessingAssumption DEF TypeOK, Exists, Texts, IsRule


LEMMA FormsAreNoErrors == "error" \notin Forms
  BY DEF Forms

\* What one step of the use x of an endpoint does to it, f before and g after.
Advances(x, f, g) ==
    /\ g \in Fetches /\ g.method = f.method /\ Heeds(g) /\ g.of \subseteq Slots
    /\ g.of \subseteq f.of \cup {x} \cup (IF f.at = "publish" THEN {engine.loaded} ELSE {})
    /\ g.at = "done" /\ g.form = "raw" => f.at = "call"
    /\ f.at \notin {"none", "done"} /\ g.at \notin {"none", "call"}
    /\ g.at = "initialize" => f.at = "set"
    /\ g.at = "publish" => f.at = "initialize"
    /\ f.at = "set" => g.at = "initialize"
    /\ f.at = "initialize" => g.at = "publish"

LEMMA FetchStepEffect ==
  ASSUME TypeInv, NEW w \in Worker, NEW i \in Id, FetchStep(w, i)
  PROVE  /\ UNCHANGED <<rules, step, msg, route, sent, reply, alone, quiet>>
         /\ \E g : PutFetch(w, i, g) /\ Advances(<<w, i>>, fetch[<<w, i>>], g)
         /\ fetch[<<w, i>>].at = "call" => step[w] \in {"fetching", "gathering"}
         /\ engine' =
              IF fetch[<<w, i>>].at = "set" THEN [mapping |-> <<w, i>>, loaded |-> engine.loaded]
              ELSE IF fetch[<<w, i>>].at = "initialize"
                   THEN [mapping |-> engine.mapping, loaded |-> engine.mapping]
                   ELSE engine
  <1> DEFINE f == fetch[<<w, i>>]
  <1>1. <<w, i>> \in Slots /\ f \in Fetches /\ f.of \subseteq Slots /\ Heeds(f)
    BY DEF TypeInv, TypeOK, Filled, Heeded, Slots
  <1>2. f.at = "publish" => engine.loaded \in Slots
    BY <1>1 DEF TypeInv, Filled
  <1>3. /\ {200, 202, 206, 400, 404, 405, 418, 500} \subseteq Codes
        /\ \A h \in Heard : h.code \in Codes /\ h.form \in Forms
        /\ \A h \in Heard : h.code >= 200
    BY ProcessingAssumption DEF Codes, OwnCodes
  <1>4. ASSUME NEW at \in {"normalise", "set", "initialize", "publish", "done"},
               NEW code \in Codes, NEW form \in Forms \cup {"error"}, NEW of \in SUBSET Slots,
               of \subseteq f.of \cup {<<w, i>>} \cup (IF f.at = "publish" THEN {engine.loaded} ELSE {}),
               code >= 200, form = "error" => at = "done" /\ code >= 400,
               at = "done" /\ form = "raw" => f.at = "call" /\ ~Normalises(f.method, code),
               f.at \notin {"none", "done"},
               at = "initialize" <=> f.at = "set", at = "publish" <=> f.at = "initialize"
        PROVE  Advances(<<w, i>>, f, Fetch(at, f.url, f.method, code, form, of))
    <2> DEFINE g == Fetch(at, f.url, f.method, code, form, of)
    <2>1. /\ g.at = at /\ g.method = f.method /\ g.code = code /\ g.form = form /\ g.of = of
      BY DEF Fetch
    <2>2. g \in Fetches BY <1>1, <1>4 DEF Fetch, Fetches, Uses
    <2>3. "none" \notin Forms BY DEF Forms
    <2>4. Heeds(g) BY <1>4, <2>1, <2>3 DEF Heeds
    <2> HIDE DEF g
    <2>5. Advances(<<w, i>>, f, g) BY <1>1, <1>4, <2>1, <2>2, <2>4 DEF Advances
    <2> QED BY <2>5 DEF g
  <1>5. f.code \in Codes /\ f.form \in Forms \cup {"none", "error"} BY <1>1 DEF Fetches
  <1>5a. f.at \notin {"none", "call", "done"} => f.form \in Forms /\ f.code >= 200
    BY <1>1, <1>5 DEF Heeds
  <1>6. CASE Call(w, i)
    <2>1. /\ f.at = "call" /\ step[w] \in {"fetching", "gathering"}
          /\ UNCHANGED engine /\ UNCHANGED <<rules, step, msg, route, sent, reply, alone, quiet>>
      BY <1>6 DEF Call, History
    <2>2. ASSUME NEW h \in Heard,
                 PutFetch(w, i, Fetch(IF Normalises(f.method, h.code) THEN "normalise" ELSE "done",
                                      f.url, f.method, h.code, h.form, {<<w, i>>}))
          PROVE  \E g : PutFetch(w, i, g) /\ Advances(<<w, i>>, f, g)
      <3>1. h.code \in Codes /\ h.code >= 200 /\ h.form \in Forms /\ {<<w, i>>} \in SUBSET Slots
        BY <1>1, <1>3
      <3>2. h.form # "error" BY <3>1 DEF Forms
      <3> QED BY <1>4, <2>1, <2>2, <3>1, <3>2
    <2>3. ASSUME PutFetch(w, i, Fetch("done", f.url, f.method, 404, "error", {}))
          PROVE  \E g : PutFetch(w, i, g) /\ Advances(<<w, i>>, f, g)
      BY <1>3, <1>4, <2>1, <2>3
    <2>4. \E g : PutFetch(w, i, g) /\ Advances(<<w, i>>, f, g) BY <1>6, <2>2, <2>3 DEF Call
    <2> QED BY <2>1, <2>4
  <1>7. ASSUME NEW of \in SUBSET Slots,
               of \subseteq f.of \cup (IF f.at = "publish" THEN {engine.loaded} ELSE {}), Normalised(w, i, of), f.at \in {"normalise", "publish"}
        PROVE  \E g : PutFetch(w, i, g) /\ Advances(<<w, i>>, f, g)
    <2>1. PICK code \in {f.code, 202} : PutFetch(w, i, Fetch("done", f.url, f.method, code, "jsonld", of))
      BY <1>7 DEF Normalised
    <2>2. code \in Codes /\ code >= 200 /\ "jsonld" \in Forms BY <1>3, <1>5, <1>5a, <1>7 DEF Forms
    <2> QED BY <1>4, <1>7, <2>1, <2>2
  <1>8. ASSUME NEW code \in {404, 418, 500}, Refused(w, i, code), f.at \in {"normalise", "publish"}
        PROVE  \E g : PutFetch(w, i, g) /\ Advances(<<w, i>>, f, g)
    <2>1. code \in Codes /\ code >= 200 /\ code >= 400 BY <1>3, <1>8
    <2>2. PutFetch(w, i, Fetch("done", f.url, f.method, code, "error", {}))
      BY <1>8 DEF Refused
    <2>3. Advances(<<w, i>>, f, Fetch("done", f.url, f.method, code, "error", {}))
      BY <1>4, <1>8, <2>1
    <2> QED BY <2>2, <2>3
  <1>9. CASE Normalise(w, i)
    <2>1. f.at = "normalise" /\ UNCHANGED engine /\ UNCHANGED <<rules, step, msg, route, sent, reply, alone, quiet>>
      BY <1>9 DEF Normalise, History
    <2>2. \/ Normalised(w, i, f.of)
          \/ Refused(w, i, IF msg[w].kind = "outgoing" THEN 500 ELSE 404)
          \/ Refused(w, i, 418)
          \/ PutFetch(w, i, Fetch("set", f.url, f.method, f.code, f.form, f.of))
      BY <1>9, Zenon DEF Normalise
    <2>3. ASSUME PutFetch(w, i, Fetch("set", f.url, f.method, f.code, f.form, f.of))
          PROVE  \E g : PutFetch(w, i, g) /\ Advances(<<w, i>>, f, g)
      BY <1>1, <1>4, <1>5a, <1>5, <2>1, <2>3, FormsAreNoErrors
    <2>4. ASSUME NEW code \in {404, 418, 500}, Refused(w, i, code)
          PROVE  \E g : PutFetch(w, i, g) /\ Advances(<<w, i>>, f, g)
      BY <1>8, <2>1, <2>4
    <2>5. (IF msg[w].kind = "outgoing" THEN 500 ELSE 404) \in {404, 418, 500} OBVIOUS
    <2>6. \E g : PutFetch(w, i, g) /\ Advances(<<w, i>>, f, g) BY <1>1, <1>7, <2>1, <2>2, <2>3, <2>4, <2>5
    <2> QED BY <2>1, <2>6
  <1>10. CASE SetMapping(w, i)
    BY <1>1, <1>4, <1>5, <1>5a, FormsAreNoErrors, <1>10 DEF SetMapping, Advance, History
  <1>11. CASE Initialize(w, i)
    BY <1>1, <1>4, <1>5, <1>5a, FormsAreNoErrors, <1>11 DEF Initialize, Advance, History
  <1>12. CASE Publish(w, i)
    <2>1. /\ f.at = "publish" /\ UNCHANGED engine
          /\ UNCHANGED <<rules, step, msg, route, sent, reply, alone, quiet>>
          /\ Normalised(w, i, {engine.loaded}) \/ Refused(w, i, 418)
      BY <1>12 DEF Publish, History
    <2> QED BY <1>2, <1>3, <1>7, <1>8, <2>1
  <1> QED BY <1>6, <1>9, <1>10, <1>11, <1>12 DEF FetchStep

LEMMA FetchStepType ==
  ASSUME TypeInv, NEW w \in Worker, NEW i \in Id, FetchStep(w, i)
  PROVE  TypeInv'
  <1> DEFINE x == <<w, i>>
  <1>1. PICK g : PutFetch(w, i, g) /\ Advances(x, fetch[x], g) BY FetchStepEffect
  <1>2. g \in Fetches /\ g.of \subseteq Slots /\ Heeds(g) BY <1>1 DEF Advances
  <1>3. x \in Slots /\ fetch' = [fetch EXCEPT ![x] = g] /\ fetch \in [Slots -> Fetches]
    BY <1>1 DEF PutFetch, TypeInv, TypeOK, Slots
  <1>4. /\ fetch' \in [Slots -> Fetches] /\ fetch'[x] = g
        /\ \A y \in Slots : y # x => fetch'[y] = fetch[y]
    BY <1>2, <1>3
  <1>5. UNCHANGED <<rules, step, msg, route, sent, reply, alone, quiet>> BY FetchStepEffect
  <1> HIDE DEF x
  <1>6. engine' = IF fetch[x].at = "set" THEN [mapping |-> x, loaded |-> engine.loaded]
                  ELSE IF fetch[x].at = "initialize"
                       THEN [mapping |-> engine.mapping, loaded |-> engine.mapping]
                       ELSE engine
    BY FetchStepEffect DEF x
  <1>7. engine \in [mapping : Slots \cup {Nobody}, loaded : Slots \cup {Nobody}]
    BY DEF TypeInv, TypeOK
  <1>8. engine' \in [mapping : Slots \cup {Nobody}, loaded : Slots \cup {Nobody}]
    BY <1>3, <1>6, <1>7
  <1>9. TypeOK' BY <1>4, <1>5, <1>8 DEF TypeInv, TypeOK
  <1>10. Asked' BY <1>5 DEF TypeInv, Asked
  <1>11. Heeded' BY <1>2, <1>4 DEF TypeInv, Heeded, Heeds
  <1>12. Filled'
    <2>1. /\ engine.mapping \in Slots => engine'.mapping \in Slots
          /\ engine.mapping \in Slots /\ engine.loaded \in Slots => engine'.loaded \in Slots
          /\ fetch[x].at = "set" => engine'.mapping \in Slots
          /\ fetch[x].at = "initialize" /\ engine.mapping \in Slots => engine'.loaded \in Slots
      BY <1>3, <1>6, <1>7
    <2>2. ASSUME NEW y \in Slots
          PROVE  /\ fetch'[y].of \subseteq Slots
                 /\ fetch'[y].at \in {"initialize", "publish"} => engine'.mapping \in Slots
                 /\ fetch'[y].at = "publish" => engine'.loaded \in Slots
      <3>1. CASE y # x BY <1>4, <2>1, <3>1 DEF TypeInv, Filled
      <3>2. CASE y = x
        <4>1. /\ g.at = "initialize" => fetch[x].at = "set"
              /\ g.at = "publish" => fetch[x].at = "initialize"
          BY <1>1 DEF Advances, x
        <4> QED BY <1>2, <1>3, <1>4, <2>1, <3>2, <4>1 DEF TypeInv, Filled
      <3> QED BY <3>1, <3>2
    <2> QED BY <2>2 DEF Filled
  <1> QED BY <1>9, <1>10, <1>11, <1>12 DEF TypeInv

\* A step that leaves the engine alone, and puts fetches that did not get an answer yet,
\* or one that is already normalised as well as it can be.
LEMMA OthersType ==
  ASSUME TypeInv, TypeOK', Asked', UNCHANGED engine,
         \A x \in Slots : \/ fetch'[x] = fetch[x]
                          \/ /\ fetch'[x].at \in {"none", "call", "normalise"}
                             /\ fetch'[x].of \subseteq Slots /\ Heeds(fetch'[x])
  PROVE  TypeInv'
  BY DEF TypeInv, Filled, Heeded, Heeds

LEMMA AskType ==
  ASSUME TypeInv, NEW w \in Worker, Ask(w)
  PROVE  TypeInv'
  <1>1. PICK m \in Message :
          /\ msg' = [msg EXCEPT ![w] = m]
          /\ Goto(w, First[m.kind])
          /\ IF m.kind = "outgoing"
             THEN \E form \in Forms : fetch' = [Cleared(w) EXCEPT ![<<w, Slot>>] =
                    Fetch("normalise", AtPath(m.path), m.method, 200, form, {<<w, Slot>>})]
             ELSE fetch' = Cleared(w)
    BY DEF Ask
  <1>2. m.kind \in Kinds /\ m.method \in Methods /\ m.path \in Texts /\ "" \in Texts
    BY ProcessingAssumption DEF Texts
  <1>3. First[m.kind] \in Places
    <2>1. First["remote"] = "route" /\ First["outgoing"] = "fetching" /\ First["query"] = "query"
      BY DEF First
    <2> QED BY <1>2, <2>1 DEF Kinds, Places
  <1>4. <<w, Slot>> \in Slots BY ProcessingAssumption DEF Slots, Slot
  <1>5. /\ Cleared(w) \in [Slots -> Fetches]
        /\ \A x \in Slots : Cleared(w)[x] \in {fetch[x], NoFetch}
    BY NoFetchType DEF Cleared, Slots, TypeInv, TypeOK
  <1>6. NoFetch.at = "none" /\ NoFetch.of = {} /\ Heeds(NoFetch) BY DEF NoFetch, Fetch, Heeds
  <1>7. ASSUME NEW form \in Forms,
               NEW f, f = Fetch("normalise", AtPath(m.path), m.method, 200, form, {<<w, Slot>>})
        PROVE  f \in Fetches /\ f.at = "normalise" /\ f.of \subseteq Slots /\ Heeds(f)
    <2>1. "normalise" \in Uses /\ 200 \in Codes BY DEF Uses, Codes, OwnCodes
    <2>2. f \in Fetches BY <1>2, <1>4, <1>7, <2>1, FetchType DEF AtPath
    <2>3. "none" \notin Forms BY DEF Forms
    <2>4. f.at = "normalise" /\ f.of = {<<w, Slot>>} /\ f.form = form /\ f.code = 200
      BY <1>7 DEF Fetch
    <2> QED BY <1>4, <1>7, <2>2, <2>3, <2>4, FormsAreNoErrors DEF Heeds
  <1>8. /\ fetch' \in [Slots -> Fetches]
        /\ \A x \in Slots : \/ fetch'[x] = fetch[x]
                            \/ /\ fetch'[x].at \in {"none", "call", "normalise"}
                               /\ fetch'[x].of \subseteq Slots /\ Heeds(fetch'[x])
    <2>1. CASE m.kind # "outgoing" BY <1>1, <1>5, <1>6, <2>1
    <2>2. CASE m.kind = "outgoing"
      <3>1. PICK form \in Forms : fetch' = [Cleared(w) EXCEPT ![<<w, Slot>>] =
                    Fetch("normalise", AtPath(m.path), m.method, 200, form, {<<w, Slot>>})]
        BY <1>1, <2>2
      <3> DEFINE f == Fetch("normalise", AtPath(m.path), m.method, 200, form, {<<w, Slot>>})
      <3>2. f \in Fetches /\ f.at = "normalise" /\ f.of \subseteq Slots /\ Heeds(f) BY <1>7
      <3> HIDE DEF f
      <3>3. fetch' = [Cleared(w) EXCEPT ![<<w, Slot>>] = f] BY <3>1 DEF f
      <3> QED BY <1>4, <1>5, <1>6, <3>2, <3>3
    <2> QED BY <2>1, <2>2
  <1>9. /\ UNCHANGED <<rules, engine>> /\ route' = [route EXCEPT ![w] = 0]
        /\ sent' = [sent EXCEPT ![w] = Nothing] /\ reply' = [reply EXCEPT ![w] = NoReply]
        /\ alone' = [v \in Worker |-> v = w /\ \A u \in Worker : step[u] = "idle"]
        /\ quiet' = [quiet EXCEPT ![w] = TRUE]
    BY DEF Ask
  <1>10. step' \in [Worker -> Places] /\ msg' \in [Worker -> Message \cup {NoMessage}]
         /\ msg'[w] = m /\ \A v \in Worker : v # w => step'[v] = step[v] /\ msg'[v] = msg[v]
    BY <1>1, <1>3 DEF Goto, TypeInv, TypeOK
  <1>11. /\ route' \in [Worker -> Id \cup {0}]
         /\ sent' \in [Worker -> [by : {"nobody", "mapping", "verbatim", "empty"}, rule : Id \cup {0}]]
    BY <1>9 DEF TypeInv, TypeOK, Nothing
  <1>12. reply' \in [Worker -> [code : Codes, form : Forms \cup {"none", "thrown", "error", "results"},
                                of : SUBSET Slots]]
    BY <1>9 DEF TypeInv, TypeOK, NoReply, Reply, Codes, OwnCodes
  <1>13. alone' \in [Worker -> BOOLEAN] /\ quiet' \in [Worker -> BOOLEAN]
    BY <1>9 DEF TypeInv, TypeOK
  <1>14. TypeOK' BY <1>8, <1>9, <1>10, <1>11, <1>12, <1>13 DEF TypeInv, TypeOK
  <1>15. Asked' BY <1>10 DEF TypeInv, Asked
  <1> QED BY <1>8, <1>9, <1>14, <1>15, OthersType

\* A step that answers, and leaves the rest as it is.
LEMMA FinishedType ==
  ASSUME TypeInv, NEW w \in Worker, NEW code \in Codes,
         NEW form \in Forms \cup {"none", "thrown", "error", "results"}, NEW of \in SUBSET Slots,
         Finish(w, code, form, of),
         UNCHANGED <<rules, engine, msg, route, sent, fetch, alone, quiet>>
  PROVE  TypeInv'
  <1>1. TypeOK BY DEF TypeInv
  <1>2. /\ step' \in [Worker -> Places] /\ step'[w] = "idle"
        /\ \A v \in Worker : v # w => step'[v] = step[v]
        /\ reply' \in [Worker -> [code : Codes,
              form : Forms \cup {"none", "thrown", "error", "results"}, of : SUBSET Slots]]
    BY <1>1, FinishType
  <1>3. TypeOK' BY <1>1, <1>2 DEF TypeOK
  <1>4. Asked' BY <1>2 DEF TypeInv, Asked
  <1> QED BY <1>3, <1>4, OthersType

LEMMA RouteType ==
  ASSUME TypeInv, NEW w \in Worker, Route(w)
  PROVE  TypeInv'
  <1>1. /\ step[w] = "route" /\ UNCHANGED <<rules, engine, msg, sent, alone, quiet>>
    BY DEF Route, History
  <1>2. msg[w] \in Message /\ 0 \in Codes /\ 404 \in Codes BY <1>1 DEF TypeInv, Asked, Codes, OwnCodes
  <1>3. ASSUME NEW code \in {0, 404}, NEW form \in {"thrown", "error"},
               Finish(w, code, form, {}), UNCHANGED <<route, fetch>>
        PROVE  TypeInv'
    <2>1. /\ code \in Codes /\ {} \in SUBSET Slots
          /\ form \in Forms \cup {"none", "thrown", "error", "results"}
      BY <1>2, <1>3
    <2> QED BY <1>1, <1>3, <2>1, FinishedType
  <1>4. ASSUME NEW i \in MatchedRoute(msg[w].path, msg[w].method),
               route' = [route EXCEPT ![w] = i],
               PutFetch(w, i, Fetch("call", Url(rules[i], msg[w].path), msg[w].method, 0, "none", {})),
               \E there \in {"fetching", "translate"} : Goto(w, there), UNCHANGED reply
        PROVE  TypeInv'
    <2> DEFINE f == Fetch("call", Url(rules[i], msg[w].path), msg[w].method, 0, "none", {})
    <2>1. i \in Id /\ Exists(i) BY DEF MatchedRoute, FirstOf, Matches, Fits
    <2>2. /\ rules[i].base \in Texts /\ msg[w].path \in Texts /\ "" \in Texts
          /\ msg[w].method \in Methods
      BY <1>2, <2>1, UrlType DEF TypeInv, Texts
    <2>3. "call" \in Uses /\ "none" \in Forms \cup {"none", "error"} BY DEF Uses
    <2>4. f \in Fetches BY <1>2, <2>2, <2>3, FetchType DEF Url
    <2>5. f.at = "call" /\ f.of = {} /\ Heeds(f) BY DEF Fetch, Heeds
    <2> HIDE DEF f
    <2>6. PutFetch(w, i, f) BY <1>4 DEF f
    <2>7. fetch' \in [Slots -> Fetches]
          /\ \A x \in Slots : fetch'[x] = fetch[x] \/ fetch'[x] = f
      BY <2>1, <2>4, <2>6, PutType DEF TypeInv
    <2>8. /\ step' \in [Worker -> Places] /\ route' \in [Worker -> Id \cup {0}]
          /\ \A v \in Worker : v # w => step'[v] = step[v]
      BY <1>4, <2>1 DEF Goto, TypeInv, TypeOK, Places
    <2>9. TypeOK' /\ Asked' BY <1>1, <1>2, <1>4, <2>7, <2>8 DEF TypeInv, TypeOK, Asked
    <2> QED BY <1>1, <2>5, <2>7, <2>9, OthersType
  <1>5. ASSUME Goto(w, "query"), UNCHANGED <<reply, route, fetch>>
        PROVE  TypeInv'
    <2>1. TypeOK' /\ Asked' BY <1>1, <1>2, <1>5 DEF Goto, Places, TypeInv, TypeOK, Asked
    <2> QED BY <1>1, <1>5, <2>1, OthersType
  <1> QED BY <1>3, <1>4, <1>5 DEF Route

LEMMA TranslateType ==
  ASSUME TypeInv, NEW w \in Worker, Translate(w)
  PROVE  TypeInv'
  <1>1. step[w] = "translate" /\ UNCHANGED <<rules, engine, msg, route, fetch, alone, quiet>>
    BY DEF Translate, History
  <1>2. msg[w] \in Message /\ 404 \in Codes BY <1>1 DEF TypeInv, Asked, Codes, OwnCodes
  <1> DEFINE found == Found(AtPath(msg[w].path), BodyMethod(msg[w].method))
  <1>3. ASSUME NEW s, s = Sent("empty", 0) \/ \E i \in found, form \in Forms : s = Translated(form, i),
               sent' = [sent EXCEPT ![w] = s], Goto(w, "fetching"), UNCHANGED reply
        PROVE  TypeInv'
    <2>1. found \subseteq Id BY DEF Found, FirstOf, Matches
    <2> HIDE DEF found
    <2>2. s \in [by : {"nobody", "mapping", "verbatim", "empty"}, rule : Id \cup {0}]
      <3>1. CASE s = Sent("empty", 0)
        BY <3>1 DEF Sent
      <3>2. ASSUME NEW i \in found, NEW form \in Forms, s = Translated(form, i)
            PROVE  s \in [by : {"nobody", "mapping", "verbatim", "empty"}, rule : Id \cup {0}]
        <4>1. i \in Id BY <2>1
        <4>2. CASE rules[i].writing
          BY <3>2, <4>1, <4>2 DEF Translated, Sent
        <4>3. CASE ~rules[i].writing /\ form = "jsonld"
          BY <3>2, <4>1, <4>3 DEF Translated, Sent
        <4>4. CASE ~rules[i].writing /\ form # "jsonld"
          BY <3>2, <4>1, <4>4 DEF Translated, Sent
        <4> QED BY <4>2, <4>3, <4>4
      <3> QED BY <1>3, <3>1, <3>2
    <2>4. TypeOK'
      <3>1. step' \in [Worker -> Places] BY <1>3 DEF TypeInv, TypeOK, Goto, Places
      <3>2. sent' \in [Worker -> [by : {"nobody", "mapping", "verbatim", "empty"}, rule : Id \cup {0}]]
        BY <1>3, <2>2 DEF TypeInv, TypeOK
      <3> QED BY <1>1, <1>3, <3>1, <3>2 DEF TypeInv, TypeOK
    <2>5. Asked' BY <1>1, <1>2, <1>3 DEF TypeInv, TypeOK, Asked, Goto
    <2> QED BY <1>1, <2>4, <2>5, OthersType
  <1>4. ASSUME Finish(w, 404, "error", {}), UNCHANGED sent
        PROVE  TypeInv'
    BY <1>1, <1>2, <1>4, FinishedType
  <1> QED BY <1>3, <1>4 DEF Translate

LEMMA DeliverType ==
  ASSUME TypeInv, NEW w \in Worker, Deliver(w)
  PROVE  TypeInv'
  <1>1. PICK i \in Id :
          /\ fetch[<<w, i>>].at = "done"
          /\ Finish(w, fetch[<<w, i>>].code, fetch[<<w, i>>].form, fetch[<<w, i>>].of)
    BY DEF Deliver
  <1>2. UNCHANGED <<rules, engine, msg, route, sent, fetch, alone, quiet>> BY DEF Deliver, History
  <1>3. <<w, i>> \in Slots /\ fetch[<<w, i>>] \in Fetches /\ fetch[<<w, i>>].of \in SUBSET Slots
    BY DEF TypeInv, TypeOK, Filled, Slots
  <1>4. /\ fetch[<<w, i>>].code \in Codes
        /\ fetch[<<w, i>>].form \in Forms \cup {"none", "thrown", "error", "results"}
    BY <1>3 DEF Fetches
  <1> QED BY <1>1, <1>2, <1>3, <1>4, FinishedType

LEMMA GatherType ==
  ASSUME TypeInv, NEW w \in Worker, Gather(w)
  PROVE  TypeInv'
  <1>1. UNCHANGED <<rules, engine, msg, route, sent, fetch, alone, quiet>> BY DEF Gather, History
  <1>2. {200, 206, 404, 500} \subseteq Codes BY DEF Codes, OwnCodes
  <1>3. DataOf(w) \subseteq Slots BY DEF DataOf, Used, TypeInv, Filled, Slots
  <1>4. ASSUME NEW kept \in SUBSET DataOf(w),
               Finish(w, IF Partial(w) THEN 206 ELSE 200, "results", kept)
        PROVE  TypeInv'
    BY <1>1, <1>2, <1>3, <1>4, FinishedType
  <1>5. ASSUME Finish(w, IF msg[w].kind = "query" THEN 500 ELSE 404, "error", {})
        PROVE  TypeInv'
    BY <1>1, <1>2, <1>5, FinishedType
  <1> QED BY <1>4, <1>5 DEF Gather

LEMMA StartQueryType ==
  ASSUME TypeInv, NEW w \in Worker, StartQuery(w)
  PROVE  TypeInv'
  <1>1. step[w] = "query" /\ UNCHANGED <<rules, engine, msg, route, sent, alone, quiet>>
    BY DEF StartQuery, History
  <1>2. msg[w] \in Message /\ {400, 405} \subseteq Codes BY <1>1 DEF TypeInv, Asked, Codes, OwnCodes
  <1>3. ASSUME NEW code \in {400, 405}, Finish(w, code, "error", {}), UNCHANGED fetch
        PROVE  TypeInv'
    BY <1>1, <1>2, <1>3, FinishedType
  <1> DEFINE Of(i) == Fetch("call", Url([base |-> rules[i].base, append |-> FALSE], ""),
                            "GET", 0, "none", {})
             Asks(i) == Exists(i) /\ rules[i].method = "GET"
  <1>4. ASSUME Goto(w, "gathering"), UNCHANGED reply,
               fetch' = [x \in Worker \X Id |->
                           IF x[1] = w /\ Exists(x[2]) /\ rules[x[2]].method = "GET"
                           THEN Of(x[2]) ELSE fetch[x]]
        PROVE  TypeInv'
    <2>1. ASSUME NEW i \in Id, Asks(i)
          PROVE  /\ Of(i) \in Fetches /\ Of(i).at = "call" /\ Of(i).of = {} /\ Heeds(Of(i))
      <3>1. "" \in Texts /\ rules[i].base \in Texts
        BY <1>2, <2>1, UrlType DEF TypeInv, Texts
      <3>2. "call" \in Uses /\ "GET" \in Methods /\ 0 \in Codes BY DEF Uses, Methods, Codes, OwnCodes
      <3>3. Of(i) \in Fetches BY <3>1, <3>2, FetchType DEF Url
      <3>4. Of(i).at = "call" /\ Of(i).of = {} BY DEF Fetch
      <3> QED BY <3>3, <3>4 DEF Heeds
    <2> HIDE DEF Of
    <2>2. /\ fetch' \in [Slots -> Fetches]
          /\ \A x \in Slots : \/ fetch'[x] = fetch[x]
                              \/ /\ fetch'[x].at \in {"none", "call", "normalise"}
                                 /\ fetch'[x].of \subseteq Slots /\ Heeds(fetch'[x])
      BY <1>4, <2>1 DEF Slots, TypeInv, TypeOK
    <2>3. step' \in [Worker -> Places] /\ \A v \in Worker : v # w => step'[v] = step[v]
      BY <1>4 DEF Goto, TypeInv, TypeOK, Places
    <2>4. TypeOK' BY <1>1, <1>4, <2>2, <2>3 DEF TypeInv, TypeOK
    <2>5. Asked' BY <1>1, <1>2, <2>3 DEF TypeInv, Asked
    <2> QED BY <1>1, <2>2, <2>4, <2>5, OthersType
  <1> QED BY <1>3, <1>4 DEF StartQuery

LEMMA EditType ==
  ASSUME TypeInv, NEW i \in Id, Save(i) \/ Delete(i)
  PROVE  TypeInv'
  <1>1. UNCHANGED <<engine, step, msg, route, sent, fetch, reply, alone>>
    BY DEF Save, Delete, threads
  <1>2. rules' \in [Id -> Rule \cup {NoRule}] /\ quiet' \in [Worker -> BOOLEAN]
    BY DEF Save, Delete, Edited, TypeInv, TypeOK
  <1>3. TypeOK' /\ Asked' BY <1>1, <1>2 DEF TypeInv, TypeOK, Asked
  <1> QED BY <1>1, <1>3, OthersType

LEMMA NextType == TypeInv /\ [Next]_vars => TypeInv'
  <1> SUFFICES ASSUME TypeInv, [Next]_vars PROVE TypeInv' OBVIOUS
  <1>1. ASSUME NEW w \in Worker, ThreadStep(w) PROVE TypeInv'
    BY <1>1, AskType, RouteType, TranslateType, StartQueryType, DeliverType, GatherType,
       FetchStepType DEF ThreadStep
  <1>2. CASE UNCHANGED vars
    BY <1>2 DEF vars, threads, TypeInv, TypeOK, Asked, Filled, Heeded, Heeds
  <1> QED BY <1>1, <1>2, EditType DEF Next

LEMMA TypeInvariant == Spec => []TypeInv
  <1> QED BY ProcessingInit, NextType, PTL DEF Spec

\* Every variable stays within its type, whatever the endpoints answer and whichever rules
\* are edited: no translation publishes data of an engine nobody gave a mapping.
THEOREM ProcessingTypeCorrect == Spec => []TypeOK
  <1>1. TypeInv => TypeOK BY DEF TypeInv
  <1> QED BY <1>1, TypeInvariant, PTL

-----------------------------------------------------------------------------
(* The course of a request.                                                *)

\* Where thread w is determines which endpoints it uses, and how far these uses are.
Course(w) ==
    /\ step[w] # "idle" => reply[w].form = "none"
    /\ step[w] \in {"route", "translate"} => msg[w].kind = "remote" /\ sent[w] = Nothing
    /\ \A i \in Id :
        LET f == fetch[<<w, i>>] IN
        /\ step[w] \in {"route", "query"} => f.at = "none"
        /\ step[w] = "translate" => f.at \in {"none", "call"}
        /\ step[w] = "idle" => f.at \in {"none", "call", "done"}
        /\ step[w] \in {"translate", "fetching"} /\ f.at # "none" =>
            /\ f.method = msg[w].method
            /\ \A j \in Id : j # i => fetch[<<w, j>>].at = "none"
        /\ step[w] = "gathering" /\ f.at # "none" => f.method = "GET"
        /\ step[w] = "fetching" => \/ msg[w].kind = "remote"
                                   \/ /\ msg[w].kind = "outgoing" /\ f.at # "call"
                                      /\ ~(f.at = "done" /\ f.form = "raw")

\* What the properties say of thread w alone.
NormalisedBy(w) ==
    reply[w].form = "raw" /\ Good(reply[w].code) => msg[w].kind = "remote" /\ msg[w].method # "GET"
ToldBy(w) ==
    reply[w].form = "results" /\ reply[w].code = 200 =>
        \A i \in Id : fetch[<<w, i>>].at # "none" => fetch[<<w, i>>].form = "jsonld"

CourseOf(w) == Course(w) /\ NormalisedBy(w) /\ ToldBy(w)
CourseInv == \A w \in Worker : CourseOf(w)

\* What a step of another thread leaves of thread v.
Same(v) ==
    /\ step'[v] = step[v] /\ msg'[v] = msg[v] /\ sent'[v] = sent[v] /\ reply'[v] = reply[v]
    /\ route'[v] = route[v]
    /\ \A i \in Id : fetch'[<<v, i>>] = fetch[<<v, i>>]

LEMMA SameCourse ==
  ASSUME NEW v \in Worker, CourseOf(v), Same(v)
  PROVE  CourseOf(v)'
  BY DEF CourseOf, Course, NormalisedBy, ToldBy, Same

LEMMA OtherThreads ==
  ASSUME TypeInv, NEW w \in Worker, ThreadStep(w), NEW v \in Worker, v # w
  PROVE  Same(v)
  <1>1. \A i, j \in Id : <<v, i>> \in Slots /\ <<v, i>> # <<w, j>> BY DEF Slots
  <1>2. /\ step \in [Worker -> Places] /\ fetch \in [Slots -> Fetches]
        /\ reply \in [Worker -> [code : Codes,
              form : Forms \cup {"none", "thrown", "error", "results"}, of : SUBSET Slots]]
    BY DEF TypeInv, TypeOK
  <1>3. ASSUME NEW there, Goto(w, there) PROVE step'[v] = step[v] BY <1>2, <1>3 DEF Goto
  <1>4. ASSUME NEW i \in Id, NEW f, PutFetch(w, i, f)
        PROVE  \A j \in Id : fetch'[<<v, j>>] = fetch[<<v, j>>]
    BY <1>1, <1>2, <1>4 DEF PutFetch
  <1>5. ASSUME NEW code, NEW form, NEW of, Finish(w, code, form, of)
        PROVE  step'[v] = step[v] /\ reply'[v] = reply[v]
    BY <1>2, <1>5 DEF Finish, Goto
  <1>6. CASE Ask(w)
    <2>1. \A j \in Id : Cleared(w)[<<v, j>>] = fetch[<<v, j>>] BY DEF Cleared
    <2>2. Cleared(w) \in [Slots -> Fetches]
      BY <1>2, NoFetchType DEF Cleared, Slots
    <2>3. Slot \in Id BY ProcessingAssumption DEF Slot
    <2>4. \A j \in Id : fetch'[<<v, j>>] = fetch[<<v, j>>]
      BY <1>1, <1>6, <2>1, <2>2, <2>3 DEF Ask
    <2>5. step'[v] = step[v] BY <1>3, <1>6 DEF Ask
    <2> QED BY <1>6, <2>4, <2>5 DEF Ask, Same, TypeInv, TypeOK
  <1>7. CASE Route(w)
    <2>1. step'[v] = step[v] /\ reply'[v] = reply[v] BY <1>3, <1>5, <1>7 DEF Route
    <2>2. \A i \in MatchedRoute(msg[w].path, msg[w].method) : i \in Id
      BY DEF MatchedRoute, FirstOf, Matches
    <2>3. \A j \in Id : fetch'[<<v, j>>] = fetch[<<v, j>>] BY <1>4, <1>7, <2>2 DEF Route
    <2>4. route'[v] = route[v] /\ UNCHANGED <<msg, sent>>
      BY <1>7 DEF Route, TypeInv, TypeOK
    <2> QED BY <2>1, <2>3, <2>4 DEF Same
  <1>8. CASE Translate(w)
    <2>1. step'[v] = step[v] /\ reply'[v] = reply[v] BY <1>3, <1>5, <1>8 DEF Translate
    <2>2. sent'[v] = sent[v] BY <1>8 DEF Translate, TypeInv, TypeOK
    <2> QED BY <1>8, <2>1, <2>2 DEF Translate, Same
  <1>9. CASE StartQuery(w)
    <2>1. step'[v] = step[v] /\ reply'[v] = reply[v]
      <3>1. \/ \E code \in {400, 405} : Finish(w, code, "error", {})
            \/ Goto(w, "gathering") /\ UNCHANGED reply
        BY <1>9 DEF StartQuery
      <3> QED BY <1>3, <1>5, <3>1
    <2>2. \A j \in Id : fetch'[<<v, j>>] = fetch[<<v, j>>] BY <1>9 DEF StartQuery
    <2> QED BY <1>9, <2>1, <2>2 DEF StartQuery, Same
  <1>10. CASE Deliver(w)
    BY <1>5, <1>10 DEF Deliver, Same
  <1>11. CASE Gather(w)
    <2>1. step'[v] = step[v] /\ reply'[v] = reply[v] BY <1>5, <1>11 DEF Gather
    <2> QED BY <1>11, <2>1 DEF Gather, Same
  <1>12. ASSUME NEW i \in Id, FetchStep(w, i) PROVE Same(v)
    BY <1>4, <1>12, FetchStepEffect DEF Same
  <1> QED BY <1>6, <1>7, <1>8, <1>9, <1>10, <1>11, <1>12 DEF ThreadStep

LEMMA CourseInit == Init => CourseInv
  <1> SUFFICES ASSUME Init, NEW w \in Worker PROVE CourseOf(w) BY DEF CourseInv
  <1>1. \A i \in Id : fetch[<<w, i>>].at = "none" BY DEF Init, NoFetch, Fetch
  <1>2. step[w] = "idle" /\ reply[w].form = "none" BY DEF Init, NoReply, Reply
  <1> QED BY <1>1, <1>2 DEF CourseOf, Course, NormalisedBy, ToldBy

LEMMA FetchStepCourse ==
  ASSUME TypeInv, NEW w \in Worker, CourseOf(w), NEW i \in Id, FetchStep(w, i)
  PROVE  CourseOf(w)'
  <1> DEFINE x == <<w, i>>
  <1>1. PICK g : PutFetch(w, i, g) /\ Advances(x, fetch[x], g) BY FetchStepEffect
  <1>2. /\ UNCHANGED <<step, msg, sent, reply>>
        /\ fetch[x].at = "call" => step[w] \in {"fetching", "gathering"}
    BY FetchStepEffect
  <1>3. /\ fetch'[x] = g
        /\ \A j \in Id : j # i => fetch'[<<w, j>>] = fetch[<<w, j>>]
    <2>1. x \in Slots /\ fetch' = [fetch EXCEPT ![x] = g] /\ fetch \in [Slots -> Fetches]
      BY <1>1 DEF PutFetch, TypeInv, TypeOK, Slots
    <2>2. \A j \in Id : j # i => <<w, j>> \in Slots /\ <<w, j>> # x BY DEF Slots
    <2> QED BY <2>1, <2>2
  <1>4. /\ fetch[x].at \notin {"none", "done"} /\ g.at \notin {"none", "call"}
        /\ g.method = fetch[x].method
        /\ g.at = "done" /\ g.form = "raw" => fetch[x].at = "call"
    BY <1>1 DEF Advances
  <1>5. step[w] \in {"fetching", "gathering"}
    <2>1. step[w] \notin {"idle", "route", "query"} BY <1>2, <1>4 DEF CourseOf, Course
    <2>2. step[w] # "translate" BY <1>2, <1>4 DEF CourseOf, Course
    <2>3. step[w] \in Places BY DEF TypeInv, TypeOK
    <2> QED BY <2>1, <2>2, <2>3 DEF Places
  <1> HIDE DEF x
  <1>6. reply[w].form = "none" BY <1>5 DEF CourseOf, Course
  <1>7. Course(w)'
    <2>1. ASSUME NEW j \in Id
          PROVE  /\ step[w] = "fetching" /\ fetch'[<<w, j>>].at # "none" =>
                        /\ fetch'[<<w, j>>].method = msg[w].method
                        /\ \A k \in Id : k # j => fetch'[<<w, k>>].at = "none"
                 /\ step[w] = "gathering" /\ fetch'[<<w, j>>].at # "none" =>
                        fetch'[<<w, j>>].method = "GET"
                 /\ step[w] = "fetching" =>
                        \/ msg[w].kind = "remote"
                        \/ /\ msg[w].kind = "outgoing" /\ fetch'[<<w, j>>].at # "call"
                           /\ ~(fetch'[<<w, j>>].at = "done" /\ fetch'[<<w, j>>].form = "raw")
      <3>1. CASE j = i BY <1>3, <1>4, <3>1 DEF CourseOf, Course, x
      <3>2. CASE j # i BY <1>3, <1>4, <3>2 DEF CourseOf, Course, x
      <3> QED BY <3>1, <3>2
    <2> QED BY <1>2, <1>5, <1>6, <2>1 DEF Course
  <1> QED BY <1>2, <1>6, <1>7 DEF CourseOf, NormalisedBy, ToldBy

LEMMA AskCourse ==
  ASSUME TypeInv, NEW w \in Worker, CourseOf(w), Ask(w)
  PROVE  CourseOf(w)'
  <1>1. PICK m \in Message :
          /\ msg' = [msg EXCEPT ![w] = m]
          /\ Goto(w, First[m.kind])
          /\ IF m.kind = "outgoing"
             THEN \E form \in Forms : fetch' = [Cleared(w) EXCEPT ![<<w, Slot>>] =
                    Fetch("normalise", AtPath(m.path), m.method, 200, form, {<<w, Slot>>})]
             ELSE fetch' = Cleared(w)
    BY DEF Ask
  <1>2. m.kind \in Kinds BY ProcessingAssumption
  <1>3. First["remote"] = "route" /\ First["outgoing"] = "fetching" /\ First["query"] = "query"
    BY DEF First
  <1>4. Slot \in Id BY ProcessingAssumption DEF Slot
  <1>5. /\ Cleared(w) \in [Slots -> Fetches]
        /\ \A i \in Id : <<w, i>> \in Slots /\ Cleared(w)[<<w, i>>].at = "none"
    BY NoFetchType DEF Cleared, NoFetch, Fetch, Slots, TypeInv, TypeOK
  <1>6. step'[w] = First[m.kind] /\ msg'[w] = m /\ reply'[w].form = "none" /\ sent'[w] = Nothing
    BY <1>1 DEF Ask, Goto, NoReply, Reply, TypeInv, TypeOK
  <1>7. CASE m.kind # "outgoing"
    <2>1. \A i \in Id : fetch'[<<w, i>>].at = "none" BY <1>1, <1>5, <1>7
    <2>2. (step'[w] = "route" /\ m.kind = "remote") \/ step'[w] = "query"
      BY <1>2, <1>3, <1>6, <1>7 DEF Kinds
    <2> QED BY <1>6, <2>1, <2>2 DEF CourseOf, Course, NormalisedBy, ToldBy
  <1>8. CASE m.kind = "outgoing"
    <2>1. PICK form \in Forms : fetch' = [Cleared(w) EXCEPT ![<<w, Slot>>] =
                    Fetch("normalise", AtPath(m.path), m.method, 200, form, {<<w, Slot>>})]
      BY <1>1, <1>8
    <2> DEFINE f == Fetch("normalise", AtPath(m.path), m.method, 200, form, {<<w, Slot>>})
    <2>2. f.at = "normalise" /\ f.method = m.method BY DEF Fetch
    <2> HIDE DEF f
    <2>3. fetch' = [Cleared(w) EXCEPT ![<<w, Slot>>] = f] BY <2>1 DEF f
    <2>4. /\ fetch'[<<w, Slot>>] = f
          /\ \A i \in Id : i # Slot => fetch'[<<w, i>>].at = "none"
      BY <1>4, <1>5, <2>3
    <2>5. step'[w] = "fetching" BY <1>3, <1>6, <1>8
    <2>6. \A i \in Id : fetch'[<<w, i>>].at \in {"none", "normalise"} BY <2>2, <2>4
    <2>7. \A i \in Id : fetch'[<<w, i>>].at # "none" =>
            /\ fetch'[<<w, i>>].method = m.method
            /\ \A j \in Id : j # i => fetch'[<<w, j>>].at = "none"
      BY <2>2, <2>4
    <2> QED BY <1>6, <1>8, <2>5, <2>6, <2>7 DEF CourseOf, Course, NormalisedBy, ToldBy
  <1> QED BY <1>7, <1>8

\* A thread that ends with an answer that is no data, or data of an endpoint.
LEMMA FinishedCourse ==
  ASSUME TypeInv, NEW w \in Worker, CourseOf(w), step[w] # "idle",
         NEW code \in Codes, NEW form \in Forms \cup {"none", "thrown", "error", "results"},
         NEW of \in SUBSET Slots, Finish(w, code, form, of), UNCHANGED <<msg, fetch>>,
         \A i \in Id : fetch[<<w, i>>].at \in {"none", "call", "done"},
         form = "raw" /\ Good(code) => msg[w].kind = "remote" /\ msg[w].method # "GET",
         form = "results" /\ code = 200 =>
            \A i \in Id : fetch[<<w, i>>].at # "none" => fetch[<<w, i>>].form = "jsonld"
  PROVE  CourseOf(w)'
  <1>1. TypeOK BY DEF TypeInv
  <1>2. step'[w] = "idle" /\ reply'[w] = Reply(code, form, of) BY <1>1, FinishType
  <1>3. reply'[w].code = code /\ reply'[w].form = form BY <1>2 DEF Reply
  <1> QED BY <1>2, <1>3 DEF CourseOf, Course, NormalisedBy, ToldBy, Good

LEMMA RouteCourse ==
  ASSUME TypeInv, NEW w \in Worker, CourseOf(w), Route(w)
  PROVE  CourseOf(w)'
  <1>1. step[w] = "route" /\ UNCHANGED <<msg, sent>> BY DEF Route
  <1>2. /\ \A i \in Id : fetch[<<w, i>>].at = "none"
        /\ reply[w].form = "none" /\ msg[w].kind = "remote" /\ sent[w] = Nothing
    BY <1>1 DEF CourseOf, Course
  <1>3. ASSUME NEW code \in {0, 404}, NEW form \in {"thrown", "error"},
               Finish(w, code, form, {}), UNCHANGED fetch
        PROVE  CourseOf(w)'
    <2>1. code \in Codes /\ form \notin {"raw", "results"}
          /\ form \in Forms \cup {"none", "thrown", "error", "results"} /\ {} \in SUBSET Slots
      BY <1>3 DEF Codes, OwnCodes
    <2> QED BY <1>1, <1>2, <1>3, <2>1, FinishedCourse
  <1>4. ASSUME NEW i \in MatchedRoute(msg[w].path, msg[w].method),
               PutFetch(w, i, Fetch("call", Url(rules[i], msg[w].path), msg[w].method, 0, "none", {})),
               NEW there \in {"fetching", "translate"}, Goto(w, there), UNCHANGED reply
        PROVE  CourseOf(w)'
    <2> DEFINE f == Fetch("call", Url(rules[i], msg[w].path), msg[w].method, 0, "none", {})
    <2>1. f.at = "call" /\ f.method = msg[w].method BY DEF Fetch
    <2> HIDE DEF f
    <2>2. i \in Id BY DEF MatchedRoute, FirstOf, Matches
    <2>3. <<w, i>> \in Slots /\ fetch' = [fetch EXCEPT ![<<w, i>>] = f] /\ fetch \in [Slots -> Fetches]
      BY <1>4, <2>2 DEF PutFetch, TypeInv, TypeOK, Slots, f
    <2>4. \A j \in Id : j # i => <<w, j>> \in Slots /\ <<w, j>> # <<w, i>> BY DEF Slots
    <2>5. fetch'[<<w, i>>] = f /\ \A j \in Id : j # i => fetch'[<<w, j>>].at = "none"
      BY <1>2, <2>3, <2>4
    <2>6. step'[w] = there BY <1>4 DEF Goto, TypeInv, TypeOK
    <2>7. \A j \in Id : /\ fetch'[<<w, j>>].at \in {"none", "call"}
                        /\ fetch'[<<w, j>>].at # "none" =>
                              /\ fetch'[<<w, j>>].method = msg[w].method
                              /\ \A k \in Id : k # j => fetch'[<<w, k>>].at = "none"
      BY <2>1, <2>5
    <2> QED BY <1>1, <1>2, <1>4, <2>6, <2>7 DEF CourseOf, Course, NormalisedBy, ToldBy
  <1>5. ASSUME Goto(w, "query"), UNCHANGED <<reply, fetch>>
        PROVE  CourseOf(w)'
    <2>1. step'[w] = "query" BY <1>5 DEF Goto, TypeInv, TypeOK
    <2> QED BY <1>1, <1>2, <1>5, <2>1 DEF CourseOf, Course, NormalisedBy, ToldBy
  <1> QED BY <1>3, <1>4, <1>5 DEF Route

LEMMA TranslateCourse ==
  ASSUME TypeInv, NEW w \in Worker, CourseOf(w), Translate(w)
  PROVE  CourseOf(w)'
  <1>1. step[w] = "translate" /\ UNCHANGED <<msg, fetch>> BY DEF Translate
  <1>2. /\ \A i \in Id : fetch[<<w, i>>].at \in {"none", "call"}
        /\ \A i \in Id : fetch[<<w, i>>].at # "none" =>
              /\ fetch[<<w, i>>].method = msg[w].method
              /\ \A j \in Id : j # i => fetch[<<w, j>>].at = "none"
        /\ reply[w].form = "none" /\ msg[w].kind = "remote"
    BY <1>1 DEF CourseOf, Course
  <1>3. CASE Goto(w, "fetching") /\ UNCHANGED reply
    <2>1. step'[w] = "fetching" BY <1>3 DEF Goto, TypeInv, TypeOK
    <2> QED BY <1>1, <1>2, <1>3, <2>1 DEF CourseOf, Course, NormalisedBy, ToldBy
  <1>4. CASE Finish(w, 404, "error", {})
    <2>1. 404 \in Codes /\ {} \in SUBSET Slots BY DEF Codes, OwnCodes
    <2> QED BY <1>1, <1>2, <1>4, <2>1, FinishedCourse
  <1> QED BY <1>3, <1>4 DEF Translate

LEMMA DeliverCourse ==
  ASSUME TypeInv, NEW w \in Worker, CourseOf(w), Deliver(w)
  PROVE  CourseOf(w)'
  <1>1. PICK i \in Id :
          /\ fetch[<<w, i>>].at = "done"
          /\ Finish(w, fetch[<<w, i>>].code, fetch[<<w, i>>].form, fetch[<<w, i>>].of)
    BY DEF Deliver
  <1> DEFINE f == fetch[<<w, i>>]
  <1>2. step[w] = "fetching" /\ UNCHANGED <<msg, fetch>> BY DEF Deliver
  <1>3. /\ f \in Fetches /\ Heeds(f) /\ f.of \in SUBSET Slots
    BY DEF Slots, TypeInv, TypeOK, Heeded, Filled
  <1>4. f.code \in Codes /\ f.form \in Forms \cup {"none", "error"} BY <1>3 DEF Fetches
  <1>5. /\ f.method = msg[w].method
        /\ \A j \in Id : j # i => fetch[<<w, j>>].at = "none"
        /\ msg[w].kind = "remote" \/ ~(f.at = "done" /\ f.form = "raw")
    BY <1>1, <1>2 DEF CourseOf, Course
  <1>6. f.form = "raw" /\ Good(f.code) => msg[w].kind = "remote" /\ msg[w].method # "GET"
    BY <1>1, <1>3, <1>5 DEF Heeds, Normalises, Good
  <1>7. f.form # "results" BY <1>4 DEF Forms
  <1>8. \A j \in Id : fetch[<<w, j>>].at \in {"none", "call", "done"} BY <1>1, <1>5
  <1> HIDE DEF f
  <1>9. Finish(w, f.code, f.form, f.of) BY <1>1 DEF f
  <1> QED BY <1>2, <1>3, <1>4, <1>6, <1>7, <1>8, <1>9, FinishedCourse

LEMMA StartQueryCourse ==
  ASSUME TypeInv, NEW w \in Worker, CourseOf(w), StartQuery(w)
  PROVE  CourseOf(w)'
  <1>1. step[w] = "query" /\ UNCHANGED <<msg, sent>> BY DEF StartQuery
  <1>2. reply[w].form = "none" /\ \A i \in Id : fetch[<<w, i>>].at = "none"
    BY <1>1 DEF CourseOf, Course
  <1>3. ASSUME NEW code \in {400, 405}, Finish(w, code, "error", {}), UNCHANGED fetch
        PROVE  CourseOf(w)'
    <2>1. code \in Codes /\ {} \in SUBSET Slots BY DEF Codes, OwnCodes
    <2> QED BY <1>1, <1>2, <1>3, <2>1, FinishedCourse
  <1>4. ASSUME Goto(w, "gathering"), UNCHANGED reply,
               fetch' = [x \in Worker \X Id |->
                  IF x[1] = w /\ Exists(x[2]) /\ rules[x[2]].method = "GET"
                  THEN Fetch("call", Url([base |-> rules[x[2]].base, append |-> FALSE], ""),
                             "GET", 0, "none", {})
                  ELSE fetch[x]]
        PROVE  CourseOf(w)'
    <2>1. \A i \in Id : fetch'[<<w, i>>].at # "none" => fetch'[<<w, i>>].method = "GET"
      BY <1>2, <1>4 DEF Fetch
    <2>2. step'[w] = "gathering" BY <1>4 DEF Goto, TypeInv, TypeOK
    <2> QED BY <1>1, <1>2, <1>4, <2>1, <2>2 DEF CourseOf, Course, NormalisedBy, ToldBy
  <1> QED BY <1>3, <1>4 DEF StartQuery

\* An endpoint that counts as complete was answered with data, which was normalised.
LEMMA GatherCourse ==
  ASSUME TypeInv, NEW w \in Worker, CourseOf(w), Gather(w)
  PROVE  CourseOf(w)'
  <1>1. /\ step[w] = "gathering" /\ UNCHANGED <<msg, fetch>>
        /\ \A i \in Id : fetch[<<w, i>>].at \in {"none", "done"}
    BY DEF Gather, Used
  <1>2. ASSUME ~Partial(w), NEW i \in Id, fetch[<<w, i>>].at # "none"
        PROVE  fetch[<<w, i>>].form = "jsonld"
    <2> DEFINE f == fetch[<<w, i>>]
    <2>1. f \in Fetches /\ Heeds(f) BY DEF Slots, TypeInv, TypeOK, Heeded
    <2>2. f.at = "done" /\ f.method = "GET" BY <1>1, <1>2 DEF CourseOf, Course
    <2>3. ~(f.code > 299) BY <1>2 DEF Partial, Used
    <2>4. f.code \in Int
      <3>1. \A h \in Heard : h.code \in 200 .. 599 BY ProcessingAssumption
      <3>2. Codes \subseteq Int BY <3>1 DEF Codes, OwnCodes
      <3> QED BY <2>1, <3>2 DEF Fetches
    <2>5. f.code >= 200 /\ f.form # "none" /\ (f.form = "error" => f.code >= 400)
          /\ (f.form = "raw" => ~Normalises("GET", f.code))
      BY <2>1, <2>2 DEF Heeds
    <2>6. f.form \in {"jsonld", "raw", "none", "error"} BY <2>1 DEF Fetches, Forms
    <2>7. f.form # "raw" BY <2>3, <2>4, <2>5 DEF Normalises
    <2>8. f.form # "error" BY <2>3, <2>4, <2>5
    <2> QED BY <2>5, <2>6, <2>7, <2>8
  <1>3. {200, 206, 404, 500} \subseteq Codes /\ {} \in SUBSET Slots BY DEF Codes, OwnCodes
  <1>4. DataOf(w) \subseteq Slots BY DEF DataOf, Used, TypeInv, Filled, Slots
  <1>5. ASSUME NEW kept \in SUBSET DataOf(w), NEW code,
               code = IF Partial(w) THEN 206 ELSE 200, Finish(w, code, "results", kept)
        PROVE  CourseOf(w)'
    <2>1. code \in Codes /\ kept \in SUBSET Slots BY <1>3, <1>4, <1>5
    <2>2. code = 200 => \A i \in Id : fetch[<<w, i>>].at # "none" => fetch[<<w, i>>].form = "jsonld"
      BY <1>2, <1>5
    <2> QED BY <1>1, <1>5, <2>1, <2>2, FinishedCourse
  <1>6. ASSUME NEW code \in {404, 500}, Finish(w, code, "error", {})
        PROVE  CourseOf(w)'
    <2>1. code \in Codes BY <1>3
    <2> QED BY <1>1, <1>3, <1>6, <2>1, FinishedCourse
  <1> QED BY <1>5, <1>6 DEF Gather

LEMMA NextCourse == TypeInv /\ CourseInv /\ [Next]_vars => CourseInv'
  <1> SUFFICES ASSUME TypeInv, CourseInv, [Next]_vars, NEW v \in Worker PROVE CourseOf(v)'
    BY DEF CourseInv
  <1>1. CourseOf(v) BY DEF CourseInv
  <1>2. ASSUME NEW w \in Worker, ThreadStep(w) PROVE CourseOf(v)'
    <2>1. CASE v # w BY <1>1, <1>2, <2>1, OtherThreads, SameCourse
    <2>2. CASE v = w
      BY <1>1, <1>2, <2>2, AskCourse, RouteCourse, TranslateCourse, StartQueryCourse,
         DeliverCourse, GatherCourse, FetchStepCourse DEF ThreadStep
    <2> QED BY <2>1, <2>2
  <1>3. ASSUME NEW i \in Id, Save(i) \/ Delete(i) PROVE CourseOf(v)'
    <2>1. Same(v) BY <1>3 DEF Save, Delete, threads, Same
    <2> QED BY <1>1, <2>1, SameCourse
  <1>4. CASE UNCHANGED vars
    <2>1. Same(v) BY <1>4 DEF vars, threads, Same
    <2> QED BY <1>1, <2>1, SameCourse
  <1> QED BY <1>2, <1>3, <1>4 DEF Next

LEMMA CourseInvariant == Spec => []CourseInv
  <1> QED BY ProcessingInit, NextType, CourseInit, NextCourse, PTL DEF Spec

\* An answer of an endpoint to a GET, and the body of a local client, never leave the CIM
\* untranslated, whatever the endpoints answer and whichever rules are edited meanwhile.
THEOREM ProcessingGetIsNormalised == Spec => []GetIsNormalised
  <1>1. CourseInv => GetIsNormalised BY DEF CourseInv, CourseOf, NormalisedBy, GetIsNormalised
  <1> QED BY <1>1, CourseInvariant, PTL

\* A query that is answered with 200 got data in JSON-LD from every endpoint it asked, for
\* every number of endpoints and every code they answer.
THEOREM ProcessingMissingIsTold == Spec => []MissingIsTold
  <1>1. CourseInv => MissingIsTold BY DEF CourseInv, CourseOf, ToldBy, MissingIsTold, Used
  <1> QED BY <1>1, CourseInvariant, PTL

-----------------------------------------------------------------------------
(* The two searches.                                                       *)

\* Until a rule is edited, the rule that routed a request is the one the request
\* processor would find again.
Routed(w) ==
    /\ step[w] = "translate" /\ quiet[w] => route[w] \in MatchedRoute(msg[w].path, msg[w].method)
    /\ sent[w] # Nothing /\ msg[w].method = "POST" /\ quiet[w] =>
          /\ sent[w].rule = route[w]
          /\ sent[w].by = "mapping" <=> rules[route[w]].writing
RoutedInv == \A w \in Worker : Routed(w)

\* Both searches find at most one rule.
LEMMA OneRoute ==
  ASSUME NEW path, NEW method, NEW i \in MatchedRoute(path, method),
         NEW j \in MatchedRoute(path, method)
  PROVE  i = j
  BY ProcessingAssumption DEF MatchedRoute, FirstOf, Matches

LEMMA SameRouted ==
  ASSUME NEW v \in Worker, Routed(v), Same(v), UNCHANGED rules, quiet'[v] => quiet[v]
  PROVE  Routed(v)'
  BY DEF Routed, Same, MatchedRoute, FirstOf, Matches, Fits, Exists

LEMMA NextRouted == TypeInv /\ CourseInv /\ RoutedInv /\ [Next]_vars => RoutedInv'
  <1> SUFFICES ASSUME TypeInv, CourseInv, RoutedInv, [Next]_vars, NEW v \in Worker
               PROVE  Routed(v)'
    BY DEF RoutedInv
  <1>1. Routed(v) /\ Course(v) BY DEF RoutedInv, CourseInv, CourseOf
  <1>2. ASSUME NEW w \in Worker, ThreadStep(w), v # w PROVE Routed(v)'
    <2>1. UNCHANGED rules /\ (quiet'[v] => quiet[v])
      BY <1>2, FetchStepEffect DEF ThreadStep, Ask, Route, Translate, StartQuery, Deliver,
         Gather, History, TypeInv, TypeOK
    <2> QED BY <1>1, <1>2, <2>1, OtherThreads, SameRouted
  <1>3. ASSUME Ask(v) PROVE Routed(v)'
    <2>1. step'[v] \in {"route", "fetching", "query"}
      <3>1. PICK m \in Message : Goto(v, First[m.kind]) BY <1>3 DEF Ask
      <3>2. First["remote"] = "route" /\ First["outgoing"] = "fetching" /\ First["query"] = "query"
        BY DEF First
      <3>3. m.kind \in Kinds BY ProcessingAssumption
      <3> QED BY <3>1, <3>2, <3>3 DEF Goto, Kinds, TypeInv, TypeOK
    <2>2. sent'[v] = Nothing BY <1>3 DEF Ask, TypeInv, TypeOK
    <2> QED BY <2>1, <2>2 DEF Routed
  <1>4. ASSUME Route(v) PROVE Routed(v)'
    <2>1. sent[v] = Nothing /\ UNCHANGED <<rules, msg, sent, quiet>>
      BY <1>1, <1>4 DEF Route, History, Course
    <2>2. step'[v] = "translate" => route'[v] \in MatchedRoute(msg[v].path, msg[v].method)
      <3>1. ASSUME NEW i \in MatchedRoute(msg[v].path, msg[v].method),
                   route' = [route EXCEPT ![v] = i]
            PROVE  route'[v] \in MatchedRoute(msg[v].path, msg[v].method)
        BY <3>1 DEF TypeInv, TypeOK
      <3>2. ASSUME NEW code, NEW form, Finish(v, code, form, {}) PROVE step'[v] # "translate"
        BY <3>2 DEF Finish, Goto, TypeInv, TypeOK
      <3>3. ASSUME Goto(v, "query") PROVE step'[v] # "translate"
        BY <3>3 DEF Goto, TypeInv, TypeOK
      <3> QED BY <1>4, <3>1, <3>2, <3>3 DEF Route
    <2>3. MatchedRoute(msg[v].path, msg[v].method)' = MatchedRoute(msg[v].path, msg[v].method)
      BY <2>1 DEF MatchedRoute, FirstOf, Matches, Fits, Exists
    <2> QED BY <2>1, <2>2, <2>3 DEF Routed
  <1>5. ASSUME Translate(v) PROVE Routed(v)'
    <2> DEFINE found == Found(AtPath(msg[v].path), BodyMethod(msg[v].method))
    <2>1. step[v] = "translate" /\ UNCHANGED <<rules, msg, route, quiet>>
      BY <1>5 DEF Translate, History
    <2>2. step'[v] # "translate" BY <1>5 DEF Translate, Finish, Goto, TypeInv, TypeOK
    <2>3. CASE UNCHANGED sent
      <3>1. sent[v] = Nothing BY <1>1, <2>1 DEF Course
      <3> QED BY <2>2, <2>3, <3>1 DEF Routed
    <2>4. ASSUME sent' = [sent EXCEPT ![v] = Sent("empty", 0)], found = {}
          PROVE  Routed(v)'
      <3>1. ASSUME msg[v].method = "POST", quiet[v] PROVE FALSE
        BY <1>1, <2>1, <2>4, <3>1 DEF Routed, Found, MatchedRoute, BodyMethod
      <3> QED BY <2>1, <2>2, <3>1 DEF Routed
    <2>5. ASSUME NEW i \in found, NEW form \in Forms, sent' = [sent EXCEPT ![v] = Translated(form, i)]
          PROVE  Routed(v)'
      <3> SUFFICES ASSUME msg[v].method = "POST", quiet[v]
                   PROVE  /\ sent'[v].rule = route[v]
                          /\ sent'[v].by = "mapping" <=> rules[route[v]].writing
        BY <2>1, <2>2 DEF Routed
      <3>1. found = MatchedRoute(msg[v].path, msg[v].method)
        BY DEF Found, MatchedRoute, BodyMethod
      <3>2. i = route[v] BY <1>1, <2>1, <3>1, OneRoute DEF Routed
      <3>3. sent'[v] = Translated(form, i) BY <2>5 DEF TypeInv, TypeOK
      <3>4. rules[i].writing \in BOOLEAN
        <4>1. i \in Id /\ rules[i] # NoRule
          BY DEF Found, FirstOf, Matches, Fits, Exists
        <4>2. IsRule(rules[i]) BY <4>1, ProcessingAssumption DEF TypeInv, TypeOK
        <4> QED BY <4>2 DEF IsRule
      <3>5. sent'[v].rule = i /\ (sent'[v].by = "mapping" <=> rules[i].writing)
        <4>1. CASE rules[i].writing
          BY <3>3, <4>1 DEF Translated, Sent
        <4>2. CASE ~rules[i].writing /\ form = "jsonld"
          <5>1. sent'[v] = [by |-> "verbatim", rule |-> i] BY <3>3, <4>2 DEF Translated, Sent
          <5>2. sent'[v].rule = i BY <5>1
          <5>3. sent'[v].by = "verbatim" BY <5>1
          <5> QED BY <4>2, <3>4, <5>2, <5>3
        <4>3. CASE ~rules[i].writing /\ form # "jsonld"
          <5>1. sent'[v] = [by |-> "empty", rule |-> i] BY <3>3, <4>3 DEF Translated, Sent
          <5>2. sent'[v].rule = i BY <5>1
          <5>3. sent'[v].by = "empty" BY <5>1
          <5> QED BY <4>3, <3>4, <5>2, <5>3
        <4> QED BY <4>1, <4>2, <4>3
      <3> QED BY <3>2, <3>5
    <2> QED BY <1>5, <2>3, <2>4, <2>5 DEF Translate
  <1>6. ASSUME UNCHANGED <<rules, msg, route, sent, quiet>>,
               step'[v] = "translate" => step[v] = "translate"
        PROVE  Routed(v)'
    BY <1>1, <1>6 DEF Routed, MatchedRoute, FirstOf, Matches, Fits, Exists
  <1>7. ASSUME StartQuery(v) \/ Deliver(v) \/ Gather(v) PROVE Routed(v)'
    <2>1. step'[v] # "translate"
      BY <1>7 DEF StartQuery, Deliver, Gather, Finish, Goto, TypeInv, TypeOK
    <2> QED BY <1>6, <1>7, <2>1 DEF StartQuery, Deliver, Gather, History
  <1>8. ASSUME NEW i \in Id, FetchStep(v, i) PROVE Routed(v)'
    BY <1>6, <1>8, FetchStepEffect
  <1>9. ASSUME NEW i \in Id, Save(i) \/ Delete(i) PROVE Routed(v)'
    <2>1. ~quiet'[v] BY <1>9 DEF Save, Delete, Edited
    <2> QED BY <2>1 DEF Routed
  <1>10. CASE UNCHANGED vars
    BY <1>6, <1>10 DEF vars, threads
  <1>11. ASSUME NEW w \in Worker, ThreadStep(w) PROVE Routed(v)'
    <2>1. CASE w = v
      BY <1>3, <1>4, <1>5, <1>7, <1>8, <1>11, <2>1 DEF ThreadStep
    <2> QED BY <1>2, <1>11, <2>1
  <1> QED BY <1>9, <1>10, <1>11 DEF Next

\* What is sent of the body of a POST that is not overtaken by an edit is decided by the rule
\* that routed it, with its mapping if it has one, for every table of rules, the ones with
\* overlapping patterns included.
THEOREM ProcessingPostUsesItsRule == Spec => []PostUsesItsRule
  <1>1. Init => RoutedInv BY DEF Init, RoutedInv, Routed
  <1>2. RoutedInv => PostUsesItsRule BY DEF RoutedInv, Routed, PostUsesItsRule
  <1> QED BY <1>1, <1>2, NextRouted, TypeInvariant, CourseInvariant, PTL DEF Spec

-----------------------------------------------------------------------------
(* The engine, used by one request alone.                                  *)

Only(w, i) ==
    fetch[<<w, i>>].at # "none" /\ \A j \in Id : j # i => fetch[<<w, j>>].at = "none"

\* The only use of an endpoint a thread makes finds its own mapping and data in the engine.
Own(w) ==
    /\ step[w] # "idle" => reply[w].of = {}
    /\ \A i \in Id : Only(w, i) =>
        /\ fetch[<<w, i>>].of \subseteq {<<w, i>>} /\ reply[w].of \subseteq {<<w, i>>}
        /\ fetch[<<w, i>>].at = "initialize" => engine.mapping = <<w, i>>
        /\ fetch[<<w, i>>].at = "publish" => engine.loaded = <<w, i>>
OwnAlone(w) == alone[w] => Own(w) /\ \A u \in Worker : u # w => step[u] = "idle"
OwnInv == \A w \in Worker : OwnAlone(w)

LEMMA FetchStepBusy ==
  ASSUME TypeInv, NEW w \in Worker, Course(w), NEW i \in Id, FetchStep(w, i)
  PROVE  step[w] # "idle"
  <1>1. fetch[<<w, i>>].at \notin {"none", "done"} BY FetchStepEffect DEF Advances
  <1>2. fetch[<<w, i>>].at = "call" => step[w] # "idle" BY FetchStepEffect
  <1> QED BY <1>1, <1>2 DEF Course

LEMMA FetchStepOwn ==
  ASSUME TypeInv, NEW w \in Worker, Course(w), Own(w), NEW i \in Id, FetchStep(w, i)
  PROVE  Own(w)'
  <1> DEFINE x == <<w, i>>
  <1>1. PICK g : PutFetch(w, i, g) /\ Advances(x, fetch[x], g) BY FetchStepEffect
  <1>2. /\ UNCHANGED <<step, reply>>
        /\ fetch[x].at = "call" => step[w] \in {"fetching", "gathering"}
        /\ engine' = IF fetch[x].at = "set" THEN [mapping |-> x, loaded |-> engine.loaded]
                     ELSE IF fetch[x].at = "initialize"
                          THEN [mapping |-> engine.mapping, loaded |-> engine.mapping]
                          ELSE engine
    BY FetchStepEffect
  <1>3. x \in Slots /\ fetch' = [fetch EXCEPT ![x] = g] /\ fetch \in [Slots -> Fetches]
    BY <1>1 DEF PutFetch, TypeInv, TypeOK, Slots
  <1>4. \A j \in Id : j # i => <<w, j>> \in Slots /\ <<w, j>> # x BY DEF Slots
  <1>5. fetch'[x] = g /\ \A j \in Id : j # i => fetch'[<<w, j>>] = fetch[<<w, j>>]
    BY <1>3, <1>4
  <1>6. /\ fetch[x].at \notin {"none", "done"} /\ g.at \notin {"none", "call"}
        /\ g.of \subseteq fetch[x].of \cup {x}
                          \cup (IF fetch[x].at = "publish" THEN {engine.loaded} ELSE {})
        /\ g.at = "initialize" => fetch[x].at = "set"
        /\ g.at = "publish" => fetch[x].at = "initialize"
    BY <1>1 DEF Advances
  <1>7. step[w] # "idle" BY <1>2, <1>6 DEF Course
  <1>8. reply[w].of = {} BY <1>7 DEF Own
  <1>9. ASSUME NEW j \in Id, Only(w, j)'
        PROVE  /\ fetch'[<<w, j>>].of \subseteq {<<w, j>>} /\ reply'[w].of \subseteq {<<w, j>>}
               /\ fetch'[<<w, j>>].at = "initialize" => engine'.mapping = <<w, j>>
               /\ fetch'[<<w, j>>].at = "publish" => engine'.loaded = <<w, j>>
    <2>1. j = i BY <1>5, <1>6, <1>9 DEF Only, x
    <2>2. Only(w, i) BY <1>5, <1>6, <1>9, <2>1 DEF Only, x
    <2>3. /\ fetch[x].of \subseteq {x}
          /\ fetch[x].at = "initialize" => engine.mapping = x
          /\ fetch[x].at = "publish" => engine.loaded = x
      BY <2>2 DEF Own, x
    <2> HIDE DEF x
    <2>4. g.of \subseteq {x} BY <1>6, <2>3
    <2>5. /\ g.at = "initialize" => engine'.mapping = x
          /\ g.at = "publish" => engine'.loaded = x
      BY <1>2, <1>6, <2>3
    <2>6. /\ fetch'[x].of \subseteq {x} /\ reply'[w].of \subseteq {x}
          /\ fetch'[x].at = "initialize" => engine'.mapping = x
          /\ fetch'[x].at = "publish" => engine'.loaded = x
      BY <1>2, <1>5, <1>8, <2>4, <2>5
    <2> QED BY <2>1, <2>6 DEF x
  <1> QED BY <1>2, <1>8, <1>9 DEF Own

\* The steps of a thread that use no engine.
LEMMA StepOwn ==
  ASSUME TypeInv, NEW w \in Worker, Course(w), Own(w),
         Route(w) \/ Translate(w) \/ StartQuery(w) \/ Deliver(w) \/ Gather(w)
  PROVE  Own(w)'
  <1>1. step[w] # "idle" /\ reply[w].of = {} /\ UNCHANGED engine
    BY DEF Route, Translate, StartQuery, Deliver, Gather, Own
  <1>2. ASSUME NEW code, NEW form, NEW of, Finish(w, code, form, of), UNCHANGED fetch,
               \A i \in Id : Only(w, i) => of \subseteq {<<w, i>>}
        PROVE  Own(w)'
    <2>1. step'[w] = "idle" /\ reply'[w].of = of
      BY <1>2 DEF Finish, Goto, Reply, TypeInv, TypeOK
    <2> QED BY <1>1, <1>2, <2>1 DEF Own, Only
  <1>3. ASSUME UNCHANGED reply,
               \A i \in Id : \/ fetch'[<<w, i>>] = fetch[<<w, i>>]
                             \/ fetch'[<<w, i>>].at = "call" /\ fetch'[<<w, i>>].of = {},
               \A i \in Id : fetch[<<w, i>>].at # "none" => fetch'[<<w, i>>] = fetch[<<w, i>>]
        PROVE  Own(w)'
    <2>1. \A i \in Id : Only(w, i)' =>
            \/ fetch'[<<w, i>>].at = "call" /\ fetch'[<<w, i>>].of = {}
            \/ Only(w, i)
      BY <1>3 DEF Only
    <2>2. \A i \in Id : Only(w, i)' /\ Only(w, i) =>
            fetch'[<<w, i>>] = fetch[<<w, i>>]
      BY <1>3 DEF Only
    <2> QED BY <1>1, <1>3, <2>1, <2>2 DEF Own
  <1>4. CASE Route(w)
    <2>1. \A i \in Id : fetch[<<w, i>>].at = "none" BY <1>4 DEF Route, Course
    <2>2. ASSUME NEW i \in MatchedRoute(msg[w].path, msg[w].method), UNCHANGED reply,
                 PutFetch(w, i, Fetch("call", Url(rules[i], msg[w].path), msg[w].method, 0, "none", {}))
          PROVE  Own(w)'
      <3> DEFINE f == Fetch("call", Url(rules[i], msg[w].path), msg[w].method, 0, "none", {})
      <3>1. f.at = "call" /\ f.of = {} BY DEF Fetch
      <3>2. i \in Id BY DEF MatchedRoute, FirstOf, Matches
      <3> HIDE DEF f
      <3>3. /\ <<w, i>> \in Slots /\ fetch' = [fetch EXCEPT ![<<w, i>>] = f]
            /\ fetch \in [Slots -> Fetches]
        BY <2>2, <3>2 DEF PutFetch, TypeInv, TypeOK, Slots, f
      <3>4. \A j \in Id : j # i => <<w, j>> \in Slots /\ <<w, j>> # <<w, i>> BY DEF Slots
      <3>5. fetch'[<<w, i>>] = f /\ \A j \in Id : j # i => fetch'[<<w, j>>] = fetch[<<w, j>>]
        BY <3>3, <3>4
      <3> QED BY <1>3, <2>1, <2>2, <3>1, <3>5
    <2> QED BY <1>2, <1>3, <1>4, <2>2 DEF Route
  <1>5. CASE Translate(w)
    <2>1. UNCHANGED fetch /\ (UNCHANGED reply \/ Finish(w, 404, "error", {}))
      BY <1>5 DEF Translate
    <2> QED BY <1>2, <1>3, <2>1
  <1>6. CASE StartQuery(w)
    <2>1. \A i \in Id : fetch[<<w, i>>].at = "none" BY <1>6 DEF StartQuery, Course
    <2>2. ASSUME UNCHANGED reply, fetch' = [x \in Worker \X Id |->
                    IF x[1] = w /\ Exists(x[2]) /\ rules[x[2]].method = "GET"
                    THEN Fetch("call", Url([base |-> rules[x[2]].base, append |-> FALSE], ""),
                               "GET", 0, "none", {})
                    ELSE fetch[x]]
          PROVE  Own(w)'
      <3>1. \A i \in Id : \/ fetch'[<<w, i>>] = fetch[<<w, i>>]
                          \/ fetch'[<<w, i>>].at = "call" /\ fetch'[<<w, i>>].of = {}
        BY <2>2 DEF Fetch
      <3> QED BY <1>3, <2>1, <2>2, <3>1
    <2>3. ASSUME NEW code, Finish(w, code, "error", {}), UNCHANGED fetch PROVE Own(w)'
      BY <1>2, <2>3
    <2> QED BY <1>6, <2>2, <2>3 DEF StartQuery
  <1>7. CASE Deliver(w)
    <2>1. PICK i \in Id :
            /\ fetch[<<w, i>>].at = "done" /\ UNCHANGED fetch
            /\ Finish(w, fetch[<<w, i>>].code, fetch[<<w, i>>].form, fetch[<<w, i>>].of)
      BY <1>7 DEF Deliver
    <2>2. ASSUME NEW j \in Id, Only(w, j) PROVE fetch[<<w, i>>].of \subseteq {<<w, j>>}
      BY <2>1, <2>2 DEF Only, Own
    <2> QED BY <1>2, <2>1, <2>2
  <1>8. CASE Gather(w)
    <2>1. ASSUME NEW j \in Id, Only(w, j) PROVE DataOf(w) \subseteq {<<w, j>>}
      <3>1. Used(w) = {j} BY <2>1 DEF Used, Only
      <3> QED BY <2>1, <3>1 DEF DataOf, Own
    <2>2. ASSUME NEW kept \in SUBSET DataOf(w), NEW code, Finish(w, code, "results", kept)
          PROVE  Own(w)'
      BY <1>2, <1>8, <2>1, <2>2 DEF Gather
    <2>3. ASSUME NEW code, Finish(w, code, "error", {}) PROVE Own(w)'
      BY <1>2, <1>8, <2>3 DEF Gather
    <2> QED BY <1>8, <2>2, <2>3 DEF Gather
  <1> QED BY <1>4, <1>5, <1>6, <1>7, <1>8

LEMMA AskOwn ==
  ASSUME TypeInv, NEW w \in Worker, Ask(w)
  PROVE  Own(w)'
  <1>1. PICK m \in Message :
          IF m.kind = "outgoing"
          THEN \E form \in Forms : fetch' = [Cleared(w) EXCEPT ![<<w, Slot>>] =
                 Fetch("normalise", AtPath(m.path), m.method, 200, form, {<<w, Slot>>})]
          ELSE fetch' = Cleared(w)
    BY DEF Ask
  <1>2. Slot \in Id BY ProcessingAssumption DEF Slot
  <1>3. /\ Cleared(w) \in [Slots -> Fetches]
        /\ \A i \in Id : <<w, i>> \in Slots /\ Cleared(w)[<<w, i>>].at = "none"
    BY NoFetchType DEF Cleared, NoFetch, Fetch, Slots, TypeInv, TypeOK
  <1>4. reply'[w].of = {} BY DEF Ask, NoReply, Reply, TypeInv, TypeOK
  <1>5. CASE fetch' = Cleared(w) BY <1>3, <1>4, <1>5 DEF Own, Only
  <1>6. CASE \E form \in Forms : fetch' = [Cleared(w) EXCEPT ![<<w, Slot>>] =
                 Fetch("normalise", AtPath(m.path), m.method, 200, form, {<<w, Slot>>})]
    <2>1. PICK form \in Forms : fetch' = [Cleared(w) EXCEPT ![<<w, Slot>>] =
                 Fetch("normalise", AtPath(m.path), m.method, 200, form, {<<w, Slot>>})]
      BY <1>6
    <2> DEFINE f == Fetch("normalise", AtPath(m.path), m.method, 200, form, {<<w, Slot>>})
    <2>2. f.at = "normalise" /\ f.of = {<<w, Slot>>} BY DEF Fetch
    <2> HIDE DEF f
    <2>3. fetch' = [Cleared(w) EXCEPT ![<<w, Slot>>] = f] BY <2>1 DEF f
    <2>4. /\ fetch'[<<w, Slot>>] = f
          /\ \A i \in Id : i # Slot => fetch'[<<w, i>>].at = "none"
      BY <1>2, <1>3, <2>3
    <2> QED BY <1>4, <2>2, <2>4 DEF Own, Only
  <1> QED BY <1>1, <1>5, <1>6

\* While another thread is idle, nothing it did before touches the engine.
LEMMA NextOwn == TypeInv /\ CourseInv /\ OwnInv /\ [Next]_vars => OwnInv'
  <1> SUFFICES ASSUME TypeInv, CourseInv, OwnInv, [Next]_vars, NEW v \in Worker
               PROVE  OwnAlone(v)'
    BY DEF OwnInv
  <1>1. OwnAlone(v) /\ \A w \in Worker : Course(w) BY DEF OwnInv, CourseInv, CourseOf
  <1>2. ASSUME NEW w \in Worker, Ask(w) PROVE OwnAlone(v)'
    <2>1. alone'[v] = (v = w /\ \A u \in Worker : step[u] = "idle") BY <1>2 DEF Ask
    <2>2. CASE alone'[v]
      <3>1. v = w /\ \A u \in Worker : step[u] = "idle" BY <2>1, <2>2
      <3>2. \A u \in Worker : u # v => step'[u] = "idle"
        BY <1>2, <3>1, OtherThreads DEF ThreadStep, Same
      <3> QED BY <1>2, <3>1, <3>2, AskOwn DEF OwnAlone
    <2> QED BY <2>2 DEF OwnAlone
  <1>3. ASSUME NEW w \in Worker, ThreadStep(w), ~Ask(w) PROVE OwnAlone(v)' /\ alone' = alone
    <2>1. alone' = alone
      BY <1>3, FetchStepEffect DEF ThreadStep, Route, Translate, StartQuery, Deliver, Gather, History
    <2>2. step[w] # "idle"
      <3>1. ASSUME NEW i \in Id, FetchStep(w, i) PROVE step[w] # "idle"
        BY <1>1, <3>1, FetchStepBusy
      <3> QED BY <1>3, <3>1 DEF ThreadStep, Route, Translate, StartQuery, Deliver, Gather
    <2>3. CASE alone[v]
      <3>1. w = v BY <1>1, <2>2, <2>3 DEF OwnAlone
      <3>2. \A u \in Worker : u # v => step'[u] = "idle"
        BY <1>1, <1>3, <2>3, <3>1, OtherThreads DEF OwnAlone, Same
      <3>3. Own(v)'
        BY <1>1, <1>3, <2>3, <3>1, StepOwn, FetchStepOwn DEF OwnAlone, ThreadStep
      <3> QED BY <2>1, <3>2, <3>3 DEF OwnAlone
    <2> QED BY <2>1, <2>3 DEF OwnAlone
  <1>4. ASSUME UNCHANGED <<engine, step, fetch, reply, alone>> PROVE OwnAlone(v)'
    BY <1>1, <1>4 DEF OwnAlone, Own, Only
  <1>5. ASSUME NEW i \in Id, Save(i) \/ Delete(i) PROVE OwnAlone(v)'
    BY <1>4, <1>5 DEF Save, Delete, threads
  <1>6. CASE UNCHANGED vars BY <1>4, <1>6 DEF vars, threads
  <1> QED BY <1>2, <1>3, <1>5, <1>6 DEF Next

\* A request that has the CIM for itself, and uses one endpoint, is answered with nothing
\* but what that endpoint answered, whatever earlier translations left in the engine.
THEOREM ProcessingOwnDataAlone == Spec => []OwnDataAlone
  <1>1. Init => OwnInv BY DEF Init, OwnInv, OwnAlone
  <1>2. OwnInv => OwnDataAlone
    <2> SUFFICES ASSUME OwnInv, NEW w \in Worker, alone[w], Cardinality(Used(w)) = 1
                 PROVE  reply[w].of \subseteq {<<w, i>> : i \in Used(w)}
      BY DEF OwnDataAlone
    <2>1. IsFiniteSet(Used(w)) BY ProcessingAssumption, FS_Subset DEF Used
    <2>2. PICK i : Used(w) = {i} BY <2>1, FS_Singleton
    <2>3. i \in Id /\ Only(w, i) BY <2>2 DEF Used, Only
    <2>4. reply[w].of \subseteq {<<w, i>>} BY <2>3 DEF OwnInv, OwnAlone, Own
    <2> QED BY <2>2, <2>4
  <1> QED BY <1>1, <1>2, NextOwn, TypeInvariant, CourseInvariant, PTL DEF Spec
=============================================================================
