SPECIFICATION ThreadFairSpec
CONSTANTS
  MaxMsgs = 3
  PerSecond = 2
  Page = 1
  MaxWire = 1
  MaxBreaks = 1
INVARIANTS SelectionStays HistoryWithinReach
PROPERTIES PagingComesBack OpenThreadCatchesUp
CHECK_DEADLOCK FALSE
