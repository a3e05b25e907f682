CONSTANTS
  w1 = w1
  w2 = w2
  Worker <- TwoWorkers
  Id <- TwoIds
  Rule <- SavedRules
  Edits <- Second
  InitRules <- Tables
  Message <- Asked
  Heard <- Answers
  Faults <- SomeFaults
SPECIFICATION Spec
INVARIANTS TypeOK GetIsNormalised MissingIsTold PostUsesItsRule OwnDataAlone
SYMMETRY Symmetry
CONSTRAINT FewQueries
