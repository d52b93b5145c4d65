SPECIFICATION Spec
CONSTANTS
  Numbers = {0, 1, 2, 3}
  Born = {0, 1, 2, 3}
  Discussed = {0, 1}
  Windows <- MCWidened
  IssueOf <- MCIssueOf
  PR_CORE_BATCH = 4
  PR_DETAIL_BATCH = 3
  ISSUE_BATCH = 1
  MaxEvents = 0
  MaxFailures = 0
INVARIANTS
  RefreshCoversWindow
