CONSTANTS
  w1 = w1
  w2 = w2
  Worker <- TwoWorkers
  Id <- TwoIds
  Rule <- SavedRules
  Edits <- Second
  InitRules <- Tables
  Message <- Reads
  Heard <- Ok
  Faults <- FailedValidation
SPECIFICATION Spec
INVARIANTS OwnData
