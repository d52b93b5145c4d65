SPECIFICATION Spec
CONSTANTS
  Processes = {p1, p2}
  Runs <- MCRuns
  MaxIngests = 1
  MaxCrashes = 1
SYMMETRY Symmetry
CHECK_DEADLOCK FALSE
INVARIANTS
  UndisturbedRunIsWhole
  LoadedTablesWereSealed
