SPECIFICATION Spec
CONSTANTS
  IndexLimit = 2048
  MaxDepth = 3
  Words <- WordsArg
  NetworkArgs <- NetworkSet
  IdArgs <- IdSet
  CoinArgs <- CoinSet
  KeyTexts <- FewTexts
INVARIANTS
  CaseFoldedKeyCode
