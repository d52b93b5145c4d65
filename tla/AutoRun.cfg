SPECIFICATION FairSpec
CONSTANTS
  Scripts = {"p1", "p2", "p3"}
  MAX_WAIT = 2
  MaxIngests = 1
  MaxKills = 1
CHECK_DEADLOCK FALSE
INVARIANTS
  RunningStatusIsTrue
  SerialStartsExclude
PROPERTIES
  ScriptEnds
