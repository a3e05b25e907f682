----------------------------- MODULE PeerSession ----------------------------
(***************************************************************************)
(* What a CIM is to the peer-to-peer network: logged in as nobody or as    *)
(* one user.  It logs out before it logs in again, so that it is never     *)
(* there twice.  XmppSetup implements this as long as one administrator    *)
(* works with the CIM at a time.                                           *)
(***************************************************************************)
CONSTANTS User,    \* the users a CIM may log in as
          Nobody

VARIABLE peer      \* whom the CIM is logged in as

Init == peer = Nobody

Login(u) == peer = Nobody /\ peer' = u

\* On demand, or because the connection or the process broke.
Logout == peer # Nobody /\ peer' = Nobody

Next == Logout \/ \E u \in User : Login(u)

Spec == Init /\ [][Next]_peer
=============================================================================
