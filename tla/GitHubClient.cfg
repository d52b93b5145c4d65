SPECIFICATION Spec
CONSTANTS
  NumBatches = 2
  PageCount <- MCOneTooLarge
  MAX_PAGES = 2
  Workers = {w1, w2}
  MAX_ATTEMPTS = 1
  LEDGER_FLUSH_EVERY = 1
  Offline = {FALSE, TRUE}
  MaxCrashes = 1
  MaxDamage = 1
SYMMETRY WorkerSymmetry
INVARIANTS
  OkRowHasBody
  ShardHasResponses
  OneWriterPerBatch
  LostTailIsBounded
PROPERTIES
  DurableIsNeverReissued
  RowsAreNeverLost
  ImplementsResumableFetch
