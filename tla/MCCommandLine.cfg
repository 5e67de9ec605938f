CONSTANTS
  NULL = NULL
  NONE = NONE
  ABSENT = ABSENT
  JUNK = JUNK
  Names = {"x", "y"}
  Objects = {"o", "p"}
  GLOBALS_SIZE = 2
  Buffer = 2
  Literal = 4
  Texts <- MCTexts
  Suites <- MCSuites
SPECIFICATION FairCommandSpec
CHECK_DEADLOCK FALSE
INVARIANTS
  TypeOK
  MissingIsReported
  FlagFollowsNesting
  BracketsFollowCalls
  Grouping
  NamesKeepTheirObjects
  LexerTypeOK
  LoadedAsWritten
  CutFilesLoadAPrefix
PROPERTIES
  TokensAreLongest
  LinesAreParsed
  FilesAreRead
