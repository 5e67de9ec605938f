CONSTANTS
  x = x
  len = len
  NULL = NULL
  Names    = {x}
  Builtins = {}
  Position <- MCPosition
  Suites   <- MCPrograms
  STACK_SIZE   = 5
  MAX_FRAMES   = 4
  GLOBALS_SIZE = 6
  MaxObjects   = 6
SPECIFICATION RunSpec
\* Programs end, with or without an error.
CHECK_DEADLOCK FALSE
INVARIANTS
  DepthsAgree
  NeverAstray
  EndsInProgram
  LoopsShareVariables
PROPERTIES
  ConstantsKept
