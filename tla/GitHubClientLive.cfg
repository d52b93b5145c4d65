SPECIFICATION FairSpec
CONSTANTS
  NumBatches = 2
  PageCount <- MCPageCount
  MAX_PAGES = 2
  Workers = {w1, w2}
  MAX_ATTEMPTS = 2
  LEDGER_FLUSH_EVERY = 2
  Offline = {FALSE, TRUE}
  MaxCrashes = 1
  MaxDamage = 0
PROPERTIES
  RunEnds
  EveryShardEventuallyWritten
