SPECIFICATION FairSpec
CONSTANTS
  Chats = {a, b}
  NoChat = none
  NumConns = 2
  MaxStarts = 2
  MaxSends = 3
INVARIANT NoHiddenWatch
PROPERTIES EndedUnlessOvertaken GpsGoesOff StopReachesDaemon
CHECK_DEADLOCK FALSE
