SPECIFICATION FairSpec
CONSTANTS
  c1 = c1
  c2 = c2
  e1 = e1
  NoConn = NoConn
  Conns = {c1, c2}
  Events = {e1}
  QueueCap = 2
  MaxPush = 3
  MaxReply = 0
INVARIANTS
  SlowPhoneCostsNobody
  SourceOrder
PROPERTY
  WriterEndsAfterDetach
CHECK_DEADLOCK FALSE
