SPECIFICATION Spec
CONSTANTS
  NumBatches = 2
  PageCount <- MCPageCount
  MAX_PAGES = 2
  Workers = {w1, w2}
  MAX_ATTEMPTS = 2
  LEDGER_FLUSH_EVERY = 2
  Offline = {FALSE}
  MaxCrashes = 0
  MaxDamage = 0
INVARIANTS
  NoShardSilentlyAbsent
