SPECIFICATION HistorySpec
CONSTANTS
  IndexLimit = 2048
  MaxDepth = 3
  Words <- WordsArg
  NetworkArgs <- NetworkSet
  IdArgs <- IdSet
  CoinArgs <- CoinSet
  KeyTexts <- FewTexts
INVARIANTS
  TypeOK
  KeyReadsBack
  OneKeyPerChain
  OrderIrrelevant
  CaseDropsNothing
PROPERTIES
  FailureKeepsChain
