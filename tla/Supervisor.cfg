SPECIFICATION FairSpec
CONSTANTS
  w1 = w1
  w2 = w2
  w3 = w3
  Workers = {w1, w2, w3}
  Stubborn = {w3}
  BufferSize = 1
  MaxFailures = 2
INVARIANTS
  WaitGroupIsExact
  NeverGivenUp
PROPERTIES
  FailedIsRestarted
  CancelEndsRun
CHECK_DEADLOCK FALSE
