SPECIFICATION FairSpec
CONSTANTS
  Calls = {c1, t1}
  TestCalls = {t1}
  Phones = {p1}
  WA = wa
  Debug = debug
  None = none
  MaxAttempts = 2
  MaxWire = 2
  CallWaiting = FALSE
  LateHangup = FALSE
INVARIANTS NothingUnreachable NoDoubleClose
PROPERTIES LineSpec FarEndEndsSession
CHECK_DEADLOCK FALSE
