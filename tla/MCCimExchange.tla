--------------------------- MODULE MCCimExchange ---------------------------
(* Small instances of CimExchange for TLC.                                 *)
EXTENDS CimExchange

CONSTANTS a, b, c3, r1, r2, badJid

Two == {a, b}
Three == {a, b, c3}
Pair == {r1, r2}
One == {r1}

Ask(from, to, method) == [from |-> from, to |-> to, method |-> method, auth |-> TRUE]

\* Two peers that ask each other, with and without a body.
MutualCalls == {Ask(a, b, "GET"), Ask(a, b, "POST"), Ask(b, a, "GET")}
\* Two peers that ask a third one.
SharedCalls == {Ask(a, c3, "GET"), Ask(b, c3, "GET")}
\* What can go wrong before anything is sent.
OddCalls == {Ask(a, b, "GET"), Ask(a, b, "POST"), Ask(a, badJid, "GET")}
            \cup {[from |-> a, to |-> b, method |-> m, auth |-> FALSE] : m \in Methods}

Everyone(level) == [c \in CIM |-> [d \in CIM |-> level]]
FullTrust == {Everyone("full")}
\* b lets a only read.
Half == {[Everyone("full") EXCEPT ![b][a] = "readonly"]}
\* Two peers that trust each other fully, or only let each other read.
Even == {Everyone("full"), Everyone("readonly")}
\* Or b lets a only read, and a lets b do everything.
Uneven == Even \cup {[Everyone("full") EXCEPT ![b][a] = "readonly"]}
\* What c3 grants a, and a grants c3.
AnyThree == {[Everyone("full") EXCEPT ![c3][a] = l, ![a][c3] = k] : l, k \in Levels}

Codes == {200, 404}
MoreCodes == {200, 202, 404}
\* The data of r1 fail the shapes of a and pass those of the others: a is the client's CIM
\* of r1 in some calls, the CIM that fetches the data in others.
Bad1 == {<<a, "data", r1>>}
NoEvents == {}
AllEvents == {"crash", "drop", "expire", "badrule", "uninterop", "connfail", "disconnect"}
NoOne == {}
NoEdits == {}
ListOfC == {<<c3, a>>}
=============================================================================
