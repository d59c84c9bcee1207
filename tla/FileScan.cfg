SPECIFICATION FairSpec
CONSTANTS
  d0 = d0
  d1 = d1
  d2 = d2
  d3 = d3
  d4 = d4
  f1 = f1
  f2 = f2
  f3 = f3
  link = link
  w1 = w1
  w2 = w2
  Dirs = {d0, d1, d2, d3, d4}
  Files = {f1, f2, f3}
  Roots = {d0, d3}
  Entries <- MCTree
  Specials = {link}
  MimeOf <- MCMimeOf
  Invalid = {f3}
  Workers = {w1, w2}
  DirBuffer = 1
  FileBuffer = 1
  Faults = {"readdir", "stream", "panic"}
  MaxFailures = 1
  MayStop = TRUE
INVARIANTS
  ScanIsCounted
  FileChanOutlivesWorkers
  
PROPERTIES
  ScanCompletes
  
CHECK_DEADLOCK FALSE
