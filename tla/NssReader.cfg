SPECIFICATION Spec
CONSTANTS
  IndexLimit = 2048
  MaxDepth = 3
  Words <- WordsArg
  Sources <- SourcesArg
INVARIANTS
  TypeOK
  AgreesWithTokens
  ShownAsIs
PROPERTIES
  Returns
CHECK_DEADLOCK FALSE
