\* A variable and a built-in function, both of which may be defined, twice, in
\* each of four nested tables.
CONSTANTS
  x = x
  y = y
  len = len
  NULL = NULL
  Names    = {x, len}
  Builtins = {len}
  Position <- MCPosition
  MaxDefs  = 2
  MaxDepth = 4
SPECIFICATION Spec
INVARIANTS
  TypeOK
  StoreSound
  SlotsInjective
  CaptureChain
  CaptureOnce
PROPERTIES
  SlotsKept
  LexicalScoping
