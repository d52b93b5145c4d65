SPECIFICATION FairSpec
CONSTANTS
  Files = {"episodes", "coverage"}
  Stamped = {"coverage"}
  Data = {"fine", "leaky"}
  Leaky = {"leaky"}
  MaxReads = 2
  MaxExports = 3
  MaxFaults = 1
CHECK_DEADLOCK FALSE
INVARIANTS
  QuietDeployIsWhole
  RecordedIsNotNewer
  PublishableIsClean
PROPERTIES
  FilesReachSite
