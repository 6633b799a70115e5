SPECIFICATION FairSpec
CONSTANTS
  MaxFailures = 3
  MaxInterrupts = 2
  MaxCrashes = 2
INVARIANTS
  TypeOK
  CutoverAligns
PROPERTIES
  NoDowntime
  CutoverRepairs
