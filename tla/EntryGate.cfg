SPECIFICATION Spec
CONSTANTS
  master = master
  signal = signal
  Lanes <- MCLanes
  Results <- MCLosses
  EntryFee = 1
  LossLimit = 5
  MaxOpenPositions = 1
  MaxDailyTrades = 1
  MaxUnlisted = 1
  MaxOrders = 2
  LastDay = 2
SYMMETRY MCSymmetry
INVARIANTS
  TypeOK
  OnePositionPerLane
  CapOnWhatIsSeen
  LedgerMatchesFeed
PROPERTY
  LedgerKeepsItsDay
  ImplementsDayLedger
