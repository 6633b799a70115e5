SPECIFICATION Spec
CONSTANTS
  Datasets = {"a", "b"}
  Keys <- MCKeys
  DatasetOf <- MCDatasetOf
  MaxRuns = 3
  MaxVersions = 2
INVARIANTS
  TypeOK
  ServesLatestPublished
PROPERTIES
  ImplementsPublication
CHECK_DEADLOCK FALSE
