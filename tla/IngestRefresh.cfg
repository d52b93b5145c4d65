SPECIFICATION RefreshSpec
CONSTANTS
  Numbers = {0, 1, 2, 3}
  Born = {0, 1, 2}
  Discussed = {0, 1}
  Windows <- MCRolling
  IssueOf <- MCIssueOf
  PR_CORE_BATCH = 2
  PR_DETAIL_BATCH = 3
  ISSUE_BATCH = 1
  MaxEvents = 2
  MaxFailures = 1
INVARIANTS
  DetailNeedsCore
  ResumedRunIsComplete
PROPERTIES
  FoundIsFetched
