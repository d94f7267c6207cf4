SPECIFICATION Spec
CONSTANTS
  Flags = {"pinned", "muted", "archived"}
  MaxMsgs = 1
  MaxKeys = 3
  MaxFar = 1
INVARIANTS RowIsTrue DeletedEverywhere
CHECK_DEADLOCK FALSE
