CONSTANTS
  t1 = t1
  t2 = t2
  u1 = u1
  u2 = u2
  o1 = o1
  o2 = o2
  o3 = o3
  NoConn = NoConn
  NoUser = NoUser
  Thread <- OneThread
  User <- TwoUsers
  Operations <- AnyOperation
  Conn <- ThreeConns
  Faults <- EveryFault
  Autoconnect = TRUE
SPECIFICATION Spec
INVARIANTS SoleSession ServedAtRest
PROPERTIES OnePeer DisconnectLeaves
