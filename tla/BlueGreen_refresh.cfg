SPECIFICATION FairSpec
CONSTANTS
  MaxFailures = 0
  MaxInterrupts = 0
  MaxCrashes = 0
PROPERTIES
  RefreshCompletes
