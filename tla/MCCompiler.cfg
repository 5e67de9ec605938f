CONSTANTS
  x = x
  y = y
  NULL = NULL
  Names    = {x, y}
  Builtins = {}
  Position <- MCPosition
  Suites   <- MCSuites
SPECIFICATION Spec
SYMMETRY Symmetry
\* A compilation ends.
CHECK_DEADLOCK FALSE
INVARIANTS
  TypeOK
  NestingClosed
  JumpsLand
  BreaksExit
  StackBalanced
  NeverDies
  OperandsResolve
  CapturesLoaded
  FramesLeft
PROPERTIES
  FinishedCode
