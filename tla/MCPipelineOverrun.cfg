CONSTANTS
  x = x
  len = len
  NULL = NULL
  Names    = {x}
  Builtins = {}
  Position <- MCPosition
  Suites   <- MCOverrun
  STACK_SIZE   = 4
  MAX_FRAMES   = 3
  GLOBALS_SIZE = 6
  MaxObjects   = 6
SPECIFICATION RunSpec
\* Programs end, with or without an error.
CHECK_DEADLOCK FALSE
INVARIANTS
  AssignmentsFit
