---------------------------- MODULE MCXmppSetup ----------------------------
(* Small instances of XmppSetup for TLC.                                   *)
EXTENDS XmppSetup, TLC

CONSTANTS t1, t2, u1, u2, o1, o2, o3

OneThread == {t1}
TwoThreads == {t1, t2}
TwoUsers == {u1, u2}
ThreeConns == {o1, o2, o3}

OneUser == {u1}
AnyOperation == {"connect", "disconnect", "store"}

LiveFaults == {"dial", "login"}
EveryFault == {"config", "dial", "login", "break", "restart"}
\* Threads are interchangeable, and so are connection objects.
Symmetry == Permutations(Thread) \cup Permutations(Conn) \cup Permutations(User)
=============================================================================
