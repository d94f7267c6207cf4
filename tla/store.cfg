SPECIFICATION Spec
CONSTANTS
  Own = {2}
  Incoming = {1, 3}
  BatchLimit = 1
  MaxEdits = 1
  Redelivery = TRUE
  MaxCrashes = 1
INVARIANTS SummaryCovers
PROPERTIES ReceiptsOnlyAdvance ReceiptCoversTheBadge BadgeEmpties
CHECK_DEADLOCK FALSE
