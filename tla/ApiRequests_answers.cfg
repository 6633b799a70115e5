SPECIFICATION FairSpec
CONSTANTS
  Requests = {"a", "b"}
  PoolSize = 1
  Rows <- MCRows
  Ask <- MCAsk
  TextLength <- MCTextLength
  Trimmed <- MCTrimmed
  IntOf <- MCIntOf
INVARIANTS
  TypeOK
  AnswersAreRight
  CacheBounded
PROPERTIES
  EveryRequestAnswers
