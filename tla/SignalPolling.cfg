SPECIFICATION FairSpec
CONSTANTS
  Daemon = Daemon
  Master = Master
  manual = manual
  Pollers <- MCPollers
  Checkers <- MCCheckers
  MaxPosts = 3
INVARIANTS
  TypeOK
  AcknowledgedIsHandled
  OperatorHasTheLastWord
  HaltHoldsThePass
PROPERTIES
  HaltsEndKnowingly
  ImplementsInbox
  UpdatesAreServed
