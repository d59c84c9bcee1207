SPECIFICATION Spec
CONSTANTS
  m1 = m1
  m2 = m2
  m3 = m3
  m4 = m4
  Messages = {m1, m2, m3}
  Rooms = {1, 2}
  MaxTime = 2
  MaxId = 1
  Limit = 1
  Prefetch = 5
  MaxPages = 4
INVARIANTS
  StoredStays
SYMMETRY Symmetry
CHECK_DEADLOCK FALSE
