SPECIFICATION FairSpec
CONSTANTS
  Trim <- MCTrim
  Number <- MCNumber
  YearOf <- MCYearOf
  YearNames = {"2020"}
  DateNames = {"31.03.2020", "31.12.2020", "31.12.0020"}
  SuffixedNames = {"2020", "2020_1"}
  MaxRetries = 2
  DefaultRetries = 2
  Answers = {"ok", "notModified", "clientError"}
  Manifest <- MCManifest
  Config <- MCConfig
  Files <- MCFiles
  Argvs <- MCArgvs
  PositiveInt <- MCPositiveInt
  NumericFlags = {"retries", "timeout-ms"}
INVARIANTS
  TypeOK
  RetriesAreExhausted
  MirrorsFile
  PassedAreFresh
PROPERTIES
  RunEnds
