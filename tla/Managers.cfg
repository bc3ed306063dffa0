SPECIFICATION Spec
CONSTANTS
  Tickets = {1}
  Prices <- MCSellPrices
  Openings <- MCSells
  Plans <- MCTwoPlans
  NewsDistance = 6
  MaxDeaths = 1
INVARIANTS
  TypeOK
  BreakevenFlagMeansProtected
  LedgersNeverAhead
  CutsRemembered
  ReportedClosedIsClosed
PROPERTY
  LooseningNeedsStaleView
