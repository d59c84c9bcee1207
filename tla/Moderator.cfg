SPECIFICATION ModeratorSpec
CONSTANTS
  Alphabet = {"A", "a", "@", "b", " ", "*"}
  Punctuation = {"@", " ", "*"}
  Upper <- MCUpper
  Space = {" "}
  Directories <- MCDirectories
  censoredChar = "*"
  MaxText = 5
INVARIANTS
  CensorIsExact
CHECK_DEADLOCK FALSE
