CONSTANTS
  a = a
  b = b
  c3 = c3
  r1 = r1
  r2 = r2
  badJid = badJid
  CIM <- Two
  Req <- Pair
  Calls <- MutualCalls
  InitAcls <- Uneven
  Up <- Two
  FetchCodes <- Codes
  InvalidPayload <- Bad1
  Events <- NoEvents
  Edited <- NoEdits
  BadJid = badJid
  Main = Main
  MaxHop = 5
SPECIFICATION Spec
INVARIANTS TrustBothWays ReportBehind202
PROPERTIES EveryCallAnswered NetworkCalms
CHECK_DEADLOCK FALSE
