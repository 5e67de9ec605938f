\* The search for a variable two environments outwards.
CONSTANTS
  NULL = NULL
  Names     = {"x", "len", "puts", "first", "last", "push", "shift", "rest"}
  Suites   <- NestedLoops
  MaxArgs   = 0
  MaxEnvs   = 4
  MaxArrays = 0
  MaxLayers = 1
SPECIFICATION FairSpec
\* A run ends.
CHECK_DEADLOCK FALSE
PROPERTY
  SearchEnds
