CONSTANTS
  x = x
  len = len
  NULL = NULL
  Names    = {len}
  Builtins = {len}
  Position <- MCPosition
  Suites   <- MCBuiltinCall
  STACK_SIZE   = 4
  MAX_FRAMES   = 3
  GLOBALS_SIZE = 4
  MaxObjects   = 9
SPECIFICATION RunSpec
\* Programs end, with or without an error.
CHECK_DEADLOCK FALSE
INVARIANTS
  DepthsAgree
