SPECIFICATION Spec
CONSTANTS
  master = master
  signal = signal
  Lanes <- MCLanes
  Results <- MCResults
  EntryFee = 1
  LossLimit = 3
  MaxOpenPositions = 1
  MaxDailyTrades = 1
  MaxUnlisted = 0
  MaxOrders = 2
  LastDay = 1
SYMMETRY MCSymmetry
INVARIANT
  OnePosition
