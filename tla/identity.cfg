SPECIFICATION Spec
CONSTANTS
  Lids = {a}
  Handlers = {event}
  MaxTime = 2
  MaxArrivals = 2
  MaxFails = 1
  MaxRestarts = 2
  BatchSize = 1
  MaxRetries = 1
INVARIANTS MissIsHarmless NothingLost
PROPERTY StoredPairUnites
CHECK_DEADLOCK FALSE
