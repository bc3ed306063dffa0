SPECIFICATION Spec
CONSTANTS
  Prices <- MCPrices
  Openings <- MCOpenings
  Plans <- MCEveryPlan
INVARIANTS
  HoldMeansNothingOwed
  CommandsAreExecutable
PROPERTY
  CommandsMakeProgress
CHECK_DEADLOCK FALSE
