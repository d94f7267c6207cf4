SPECIFICATION Spec
CONSTANTS
  Calls = {c1}
  TestCalls = {}
  Phones = {p1}
  WA = wa
  Debug = debug
  None = none
  MaxAttempts = 2
  MaxWire = 1
  CallWaiting = TRUE
  LateHangup = TRUE
INVARIANT NoSessionWithoutCall
CHECK_DEADLOCK FALSE
