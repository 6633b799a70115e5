SPECIFICATION FairSpec
CONSTANTS
  MaxVersions = 3
  MaxCrashes = 2
INVARIANTS
  TypeOK
  CsvWhole
  MetaNotAhead
PROPERTIES
  NotModifiedIsCurrent
  NeverOlder
  EventuallyFresh
  EventuallyEnriched
