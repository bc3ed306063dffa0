SPECIFICATION Spec
CONSTANTS
  Tickets = {1}
  Prices <- MCBuyPrices
  Openings <- MCBuys
  Plans <- MCOnePlan
  NewsDistance = 6
  MaxDeaths = 0
PROPERTY
  StopsNeverLoosen
