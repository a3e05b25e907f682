------------------------ MODULE MCRequestProcessing ------------------------
(* Small instances of RequestProcessing for TLC.                           *)
EXTENDS RequestProcessing, TLC

CONSTANTS w1, w2

OneWorker == {w1}
TwoWorkers == {w1, w2}
TwoIds == {1, 2}

\* A pattern that is found wherever the path is part of the text: in a request, or in the URL
\* of an endpoint, by its path or by its base.
Like(path) ==
    [base : {"", "http://e1"}, path : {path}] \cup [base : {"http://e2/a"}, path : {"", path}]
Rules(path, method, base, append, reading, writing) ==
    [pattern |-> Like(path), valid |-> TRUE, method |-> method, base |-> base,
     append |-> append, reading |-> reading, writing |-> writing]

\* The pattern of ReadA fits its endpoint also for a query.
ReadA == Rules("/a", "GET", "http://e2/a", FALSE, TRUE, FALSE)
WriteA == Rules("/a", "POST", "http://e1", TRUE, TRUE, TRUE)
PlainA == [WriteA EXCEPT !.writing = FALSE]
BrokenRule == [WriteA EXCEPT !.valid = FALSE]

\* The second rule turns from a POST rule into another GET rule, breaks or goes.
SavedRules == {ReadA, WriteA, PlainA, BrokenRule}
Second == {2}
Tables == {[i \in Id |-> IF i = 1 THEN ReadA ELSE WriteA]}

M(kind, method, path) == [kind |-> kind, method |-> method, path |-> path]
Asked == {M("remote", "GET", "/a"), M("remote", "POST", "/a"), M("remote", "GET", "/sparql"),
          M("outgoing", "POST", "/a"), M("query", "GET", "/sparql")}
Written == {M("remote", "POST", "/a")}
Reads == {M("remote", "GET", "/a")}

H(code, form) == [code |-> code, form |-> form]
\* An answer that only a GET normalises, and one in JSON-LD that passes as it is.
Answers == {H(200, "raw"), H(201, "jsonld")}
Ok == {H(200, "raw")}
NoFaults == {}
FailedValidation == {"invalid"}
SomeFaults == {"down", "badquery", "untranslatable"}
\* A bound on what queries meet: the one of a peer no other query, the one of a local client
\* no other request.
Asks(w, kind, path) == msg[w] # NoMessage /\ msg[w].kind = kind /\ msg[w].path = path
FewQueries ==
    \A v, w \in Worker : v # w =>
        /\ Asks(v, "query", "/sparql") => msg[w] = NoMessage
        /\ Asks(v, "remote", "/sparql") => ~Asks(w, "remote", "/sparql")
Symmetry == Permutations(Worker)
=============================================================================
