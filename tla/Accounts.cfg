SPECIFICATION AccountsSpec
CONSTANTS
  c1 = c1
  c2 = c2
  c3 = c3
  e1 = e1
  e2 = e2
  p1 = p1
  p2 = p2
  weak = weak
  Calls = {c1, c2, c3}
  Emails = {e1, e2}
  Passwords = {p1, p2, weak}
  ValidPasswords = {p1, p2}
  DetectConflicts = FALSE
  AuthEnabled = TRUE
  TokenDuration = 1
  MaxTime = 2
  None = None
INVARIANTS
  IdentityIsProven

  
SYMMETRY Symmetry
CHECK_DEADLOCK FALSE
