CONSTANTS
  NULL = NULL
  NONE = NONE
  ABSENT = ABSENT
  JUNK = JUNK
  Names = {"x", "y"}
  Objects = {"o", "p"}
  GLOBALS_SIZE = 2
  Buffer = 2
  Literal = 4
  Texts <- MCTexts
  Suites <- MCLong
SPECIFICATION CommandSpec
CHECK_DEADLOCK FALSE
INVARIANTS
  CountsAreBigEndian
