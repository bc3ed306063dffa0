SPECIFICATION CustodySpec
CONSTANTS
  Tickets = {1}
  Prices <- MCTakePrices
  Openings <- MCBuys
  Plans <- MCOnePlan
  NewsDistance = 2
  MaxDeaths = 1
PROPERTY
  TargetsAreTaken
CHECK_DEADLOCK FALSE
