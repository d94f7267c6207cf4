SPECIFICATION WireFairSpec
CONSTANTS
  Socks = {s1, s2}
  NoSock = none
  Big = {1, 4}
  Marks = {3}
  OutboxMax = 1
  Earlier = 1
  MaxFrames = 4
  MaxBreaks = 1
  MaxCrashes = 1
INVARIANTS OneSocket NeverStranded OlderGoesFirst NothingTwice NothingForgotten
PROPERTIES OutboxDrains OversizeSparesQueued
CHECK_DEADLOCK FALSE
