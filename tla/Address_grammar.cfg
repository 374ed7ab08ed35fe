SPECIFICATION OneCallSpec
CONSTANTS
  IndexLimit = 2048
  MaxDepth = 5
  Words <- WordsArg
  ChainArgs <- WithNoArgs
  PathArgs <- WithNoArgs
  NetworkArgs <- WithNoArgs
  IdArgs <- WithNoArgs
  CoinArgs <- WithNoArgs
  TypeArgs <- WithNoArgs
  TextArgs <- WithNoArgs
  CtArgs <- WithNoArgs
  DtArgs <- WithNoArgs
  DpArgs <- WithNoArgs
  AaArgs <- WithNoArgs
  AfArgs <- WithNoArgs
  FreeArgs <- NoFree
  Urns <- UrnSet
INVARIANTS
  UrnPathFitsGrammar
CHECK_DEADLOCK FALSE
