\* PendingDropped
CONSTANTS
  Daemon = Daemon
  manual = manual
  Pollers <- MCPollers
  L1 = L1
  L2 = L2
  Levels <- MCLevels
  PendingMax = 1
  MaxOrders = 1
SPECIFICATION Spec
PROPERTIES
  DroppedIsGone
