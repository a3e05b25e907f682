---------------------------- MODULE MCXmppRace ----------------------------
(* Administrators that race: two instances of XmppSetup for one run of TLC. *)
(* In one, connects and disconnects race with each other and with the      *)
(* storing of one user; in the other, stores of two users race.            *)
EXTENDS XmppSetup, TLC

CONSTANTS t1, t2, u1, u2, o1, o2, o3

VARIABLE part

TwoThreads == {t1, t2}
TwoUsers == {u1, u2}
ThreeConns == {o1, o2, o3}
AnyOperation == {"connect", "disconnect", "store"}
LiveFaults == {"dial", "login", "break"}

Comes(t) == pc[t] = "idle" /\ pc'[t] # "idle"
RaceInit == Init /\ part \in {"sessions", "stores"}
RaceNext ==
    /\ Next
    /\ \A t \in Thread : Comes(t) =>
         IF part = "sessions" THEN user'[t] # u2 ELSE pc'[t] = Start["store"]
    /\ UNCHANGED part
RaceSpec == RaceInit /\ [][RaceNext]_<<vars, part>>

Symmetry == Permutations(Thread) \cup Permutations(Conn)
=============================================================================
