SPECIFICATION DiscoverySpec
CONSTANTS
  Results = {r1, r2, r3, r4}
  FirstDay = 1
  LastDay = 5
  SliceDays = 3
  PageSize = 1
  SEARCH_PAGE_CAP = 2
  MaxKills = 1
CHECK_DEADLOCK FALSE
INVARIANTS
  WindowIsDiscovered
  CountsAreDistinct
PROPERTY DiscoveryEnds
