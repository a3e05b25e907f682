---------------------------- MODULE MCFederation ----------------------------
(* A small instance of Federation for TLC.                                 *)
EXTENDS Federation

CONSTANTS q1, q2, p1, p2

TwoQueries == {q1, q2}
TwoPeers == {p1, p2}
Shrinking == [q \in TwoQueries |-> IF q = q1 THEN {p1, p2} ELSE {p1}]
=============================================================================
