---------------------------- MODULE MCUserStore ----------------------------
(* A small instance of UserStore for TLC.                                  *)
EXTENDS UserStore, FiniteSets, TLC

CONSTANTS root, u1, k1, k2, p0, p1, t1, t2

TwoUsers == {root, u1}
Tokens == {k1, k2}
NoneOrAll == {{}, Tokens}
Passwords == {p0, p1}
TwoThreads == {t1, t2}

Symmetry == Permutations(Thread) \cup Permutations(Token)
=============================================================================
