CONSTANTS
  a = a
  b = b
  c3 = c3
  r1 = r1
  r2 = r2
  badJid = badJid
  CIM <- Three
  Req <- Pair
  Calls <- SharedCalls
  InitAcls <- AnyThree
  Up <- Three
  FetchCodes <- Codes
  InvalidPayload <- Bad1
  Events <- NoEvents
  Edited <- ListOfC
  BadJid = badJid
  Main = Main
  MaxHop = 5
SPECIFICATION Safe
INVARIANTS LoneAnswerIsOwn
CHECK_DEADLOCK FALSE
