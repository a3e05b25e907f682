CONSTANTS
  w1 = w1
  w2 = w2
  Worker <- OneWorker
  Id <- TwoIds
  Rule <- SavedRules
  Edits <- Second
  InitRules <- Tables
  Message <- Written
  Heard <- Ok
  Faults <- NoFaults
SPECIFICATION Spec
INVARIANTS CorrectIsNormalised
