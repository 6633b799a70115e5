SPECIFICATION Spec
CONSTANTS
  Datasets = {"a", "b"}
  Keys <- MCKeys
  DatasetOf <- MCDatasetOf
  MaxRuns = 1
  MaxVersions = 2
INVARIANTS
  DataVersionNamesContent
CHECK_DEADLOCK FALSE
