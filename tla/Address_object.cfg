SPECIFICATION HistorySpec
CONSTANTS
  IndexLimit = 2048
  MaxDepth = 5
  Words <- WordsArg
  ChainArgs <- HistoryChains
  PathArgs <- HistoryPaths
  NetworkArgs <- HistoryNetworks
  IdArgs <- HistoryIds
  CoinArgs <- HistoryCoins
  TypeArgs <- HistoryTypes
  TextArgs <- HistoryTexts
  CtArgs <- HistoryCts
  DtArgs <- HistoryDts
  DpArgs <- HistoryDps
  AaArgs <- HistoryAas
  AfArgs <- HistoryAfs
  FreeArgs <- HistoryFree
  Urns <- HistoryUrns
INVARIANTS
  TypeOK
  MarshalledUrnParses
  HalfBuiltNamesNothing
  NssNamesChain
PROPERTIES
  FailureKeepsUrn
  ImplementsDescriptor
