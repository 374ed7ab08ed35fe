SPECIFICATION Spec
CONSTANTS
  IndexLimit = 2048
  MaxDepth = 3
  AccLimit = 8192
  Texts <- TextsArg
INVARIANTS
  TypeOK
  NothingWraps
  TakesExactlyNumbers
  ExactIsPrinted
  LevelAsModelled
CHECK_DEADLOCK FALSE
