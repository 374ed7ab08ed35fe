SPECIFICATION Spec
CONSTANTS
  IndexLimit = 2048
  MaxDepth = 5
  Words <- WordsArg
  ChainArgs <- WithNoArgs
  PathArgs <- HistoryPaths
  NetworkArgs <- HistoryNetworks
  IdArgs <- HistoryIds
  CoinArgs <- HistoryCoins
  TypeArgs <- HistoryTypes
  TextArgs <- HistoryTexts
  CtArgs <- HistoryCts
  DtArgs <- HistoryDts
  DpArgs <- HistoryDps
  AaArgs <- HistoryAas
  AfArgs <- HistoryAfs
  FreeArgs <- HistoryFree
  Urns <- HistoryUrns
INVARIANTS
  MarshalledIsWhole
