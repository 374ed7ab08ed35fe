SPECIFICATION OneCallSpec
CONSTANTS
  IndexLimit = 2048
  MaxDepth = 5
  Words <- WordsArg
  ChainArgs <- MatrixChains
  PathArgs <- MatrixPaths
  NetworkArgs <- WithNoArgs
  IdArgs <- WithNoArgs
  CoinArgs <- WithNoArgs
  TypeArgs <- WithNoArgs
  TextArgs <- WithNoArgs
  CtArgs <- WithNoArgs
  DtArgs <- WithNoArgs
  DpArgs <- WithNoArgs
  AaArgs <- MatrixAas
  AfArgs <- MatrixAfs
  FreeArgs <- NoFree
  Urns <- WithNoArgs
INVARIANTS
  SuiTypesSupported
CHECK_DEADLOCK FALSE
