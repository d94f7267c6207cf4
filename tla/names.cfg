SPECIFICATION NamesSpec
CONSTANTS
  People = {a, b}
  Hidden = {a}
  Contacts = {a}
  Messages = {1, 2}
  Namesakes = TRUE
  MaxChanges = 2
INVARIANTS RepairLeavesNoStaleName 
CHECK_DEADLOCK FALSE
