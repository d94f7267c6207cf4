SPECIFICATION FairSpec
CONSTANTS
  MaxCalls = 2
  MaxIce = 1
  Follow = FALSE
INVARIANTS SessionsDoNotMix NoCandidateIsLost
PROPERTIES AnsweredGetsThrough MicGoesOff
CHECK_DEADLOCK FALSE
