\* SignalPending
CONSTANTS
  Daemon = Daemon
  manual = manual
  Pollers <- MCPollers
  L1 = L1
  L2 = L2
  Levels <- MCLevels
  PendingMax = 2
  MaxOrders = 3
SPECIFICATION FairSpec
INVARIANTS
  TypeOK
  RestingIsWatched
  
  NoStackedLimits
PROPERTIES
  DueIsWithdrawn
