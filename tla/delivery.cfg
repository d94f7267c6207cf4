SPECIFICATION FairSpec
CONSTANTS
  Chats = {a, b}
  NoChat = none
  MaxMsgs = 2
  MaxSubs = 2
  MaxMoves = 2
  MaxBreaks = 1
INVARIANTS NobodyIsLeftOut MuteIsKept
PROPERTIES EverybodyIsTold
CHECK_DEADLOCK FALSE
