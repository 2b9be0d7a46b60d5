SPECIFICATION FairSpec
CONSTANTS
  LastDay = 2
  LastConfig = 2
  LastMaster = 2
  MaxVersion = 1
  MaxUpsets = 1
  MaxOpen = 1
INVARIANTS
  TypeOK
  CommittedPriced
  RecoveredAsPriced
PROPERTIES
  TradedUnrevealed
  DaysRevealed
  ActiveCatchesUp
CHECK_DEADLOCK FALSE
