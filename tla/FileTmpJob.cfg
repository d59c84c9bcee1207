SPECIFICATION FairSpec
CONSTANTS
  f1 = f1
  f2 = f2
  f3 = f3
  s1 = s1
  s2 = s2
  Files = {f1, f2, f3}
  Specialists = {s1, s2}
  MimeOf <- MCMimeOf
  Capabilities <- MCCapabilities
  BufferSize = 1
  MaxFileToProcess = 2
  UintSize = 4
  MaxArrivals <- MCArrivals
  MayCancel = TRUE
INVARIANTS
  CapacityAccounting
  OneResponsePerJob
  SegmentsAreTheirFiles

  
CHECK_DEADLOCK FALSE
