SPECIFICATION Spec
CONSTANTS
  m1 = m1
  m2 = m2
  m3 = m3
  m4 = m4
  Messages = {m1, m2, m3, m4}
  Rooms = {1, 2}
  MaxTime = 4
  MaxId = 4
  Limit = 1
  Prefetch = 3
  MaxPages = 5
INVARIANTS
  PagesGoBack
  
SYMMETRY Symmetry
CHECK_DEADLOCK FALSE
