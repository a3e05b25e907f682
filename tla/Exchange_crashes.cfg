CONSTANTS
  a = a
  b = b
  c3 = c3
  r1 = r1
  r2 = r2
  badJid = badJid
  CIM <- Two
  Req <- One
  Calls <- OddCalls
  InitAcls <- Half
  Up <- NoOne
  FetchCodes <- MoreCodes
  InvalidPayload <- Bad1
  Events <- AllEvents
  Edited <- NoEdits
  BadJid = badJid
  Main = Main
  MaxHop = 4
SPECIFICATION Spec
INVARIANTS TypeOK ChainBound ReportBehind202
PROPERTIES KeepsLifecycle
CHECK_DEADLOCK FALSE
