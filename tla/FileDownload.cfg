SPECIFICATION FairSpec
CONSTANTS
  f1 = f1
  f2 = f2
  w1 = w1
  NoFile = NoFile
  Files = {f1, f2}
  Size <- MCSize
  Workers = {w1}
  BatchSize = 2
  BufferSize = 1
  Faults = {"mark", "open", "validate", "refuse", "read", "disk"}
  MayCancel = TRUE
  MaxRestarts = 1
INVARIANTS
  AnnouncedIsWhole
  
  TaskIsInOnePlace
PROPERTIES
  ImplementsTransfer
  TasksAreTransferred
CHECK_DEADLOCK FALSE
