-------------------------- MODULE RequestLifecycle --------------------------
(***************************************************************************)
(* What a CIM promises each client, whatever happens on the network: a     *)
(* request is open from the moment it is accepted, it is answered at most  *)
(* once, the answer is final, and unless the CIM dies the request is       *)
(* answered in the end.  CimExchange implements this specification.        *)
(***************************************************************************)
CONSTANTS Req,      \* the client requests
          Answers,  \* what a client can be answered
          NoAnswer, \* the answer of a request nobody answered
          Lost      \* the answer of a request whose CIM died

VARIABLES issued,   \* the requests a CIM accepted
          answer    \* answer[r]: what the client of r got

Init == issued = {} /\ answer = [r \in Req |-> NoAnswer]

Open(r) == r \in issued /\ answer[r] = NoAnswer

Accept(r) == r \notin issued /\ issued' = issued \cup {r} /\ UNCHANGED answer

Reply(r) ==
    /\ Open(r)
    /\ \E reply \in Answers : answer' = [answer EXCEPT ![r] = reply]
    /\ UNCHANGED issued

\* A CIM dies with some of its requests open.
Break ==
    /\ \E gone \in SUBSET {r \in Req : Open(r)} :
          answer' = [r \in Req |-> IF r \in gone THEN Lost ELSE answer[r]]
    /\ UNCHANGED issued

Next == (\E r \in Req : Accept(r) \/ Reply(r)) \/ Break

Safe == Init /\ [][Next]_<<issued, answer>>

\* Every open request is answered, unless its CIM dies first.
Spec == Safe /\ \A r \in Req : WF_<<issued, answer>>(Reply(r))
=============================================================================
