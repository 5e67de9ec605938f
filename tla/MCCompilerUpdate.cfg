CONSTANTS
  x = x
  y = y
  NULL = NULL
  Names    = {x}
  Builtins = {}
  Position <- MCPosition
  Suites   <- MCUpdates
SPECIFICATION Spec
\* A compilation ends.
CHECK_DEADLOCK FALSE
INVARIANTS
  BreaksExit
