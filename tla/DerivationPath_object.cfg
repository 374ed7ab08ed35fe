SPECIFICATION HistorySpec
CONSTANTS
  IndexLimit = 2048
  MaxDepth = 3
  DtArgs <- ObjectTypes
  CoinArgs <- ObjectCoins
  AccountArgs <- ObjectAccounts
  ChargeArgs <- ObjectCharges
  IndexArgs <- ObjectIndexes
  LevelArgs <- ObjectLevels
  TextArgs <- ObjectTexts
INVARIANTS
  TypeOK
  NoStaleState
  NoKeyAliasing
  LevelsMatchText
  GrammarMatchesTemplates
PROPERTIES
  CommittedAsAsked
  FailureKeepsPath
  ImplementsHDPath
