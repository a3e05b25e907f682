CONSTANTS
  q1 = q1
  q2 = q2
  p1 = p1
  p2 = p2
  Query <- TwoQueries
  Peer <- TwoPeers
  Listed <- Shrinking
  MaxThreads = 2
  MaxOdd = 1
  None = None
SPECIFICATION Spec
INVARIANTS TypeOK NoRowTwice FullAnswer
PROPERTIES QueryEnds
CHECK_DEADLOCK FALSE
