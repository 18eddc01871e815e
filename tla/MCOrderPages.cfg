CONSTANTS
  Ids = {1, 2, 3, 4}
  Times = {1, 2}
  PageCap = 2
  Limits = {1, 3, 5}
  Asks <- MCAsks
  Outcomes = {"partially_filled", "canceled"}
SPECIFICATION PagesSpec
INVARIANTS NewestFirst StableOrdersListed ShowsStoredStatus
CHECK_DEADLOCK FALSE
