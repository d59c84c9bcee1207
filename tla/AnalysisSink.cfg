SPECIFICATION FairSpec
CONSTANTS
  e1 = e1
  e2 = e2
  e3 = e3
  t1 = t1
  t2 = t2
  c1 = c1
  c2 = c2
  Entities = {e1, e2, e3}
  Threads = {t1, t2}
  Callbacks = {c1, c2}
  MaxAnalyzedEvent = 2
  MimeOf <- MCMimeOf
  DriveID = "file-room"
  MayFail = TRUE
  MayExit = TRUE
INVARIANTS
  NoStuckBatch
  BufferBound
  ExactlyOnce
  SearchIsHydrated
PROPERTIES
  ImplementsLifecycle
  SettlesFiles
CHECK_DEADLOCK FALSE
