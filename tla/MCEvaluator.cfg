\* Programs of functions, loops, assignments and containers.
CONSTANTS
  NULL = NULL
  Names     = {"x", "len", "puts", "first", "last", "push", "shift", "rest"}
  Suites   <- MCSuites
  MaxArgs   = 2
  MaxEnvs   = 4
  MaxArrays = 3
  MaxLayers = 2
SPECIFICATION FairSpec
\* A run ends.
CHECK_DEADLOCK FALSE
INVARIANTS
  TypeOK
  LexicalEnvironments
  JumpsAreExcused
PROPERTIES
  AssignsWhereRead
  OnlyLoopsDiverge
