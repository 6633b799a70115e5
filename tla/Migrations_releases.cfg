SPECIFICATION FairSpec
CONSTANTS
  MaxVersion = 3
  Releases = {1, 2, 3, 4, 5}
  Manifest <- MCManifest
INVARIANTS
  TypeOK
  RecordIsSchema
  MigratedIsCurrent
  ServingIsCurrent
PROPERTIES
  RecordsStay
  LowerFirst
  ServesAgain
