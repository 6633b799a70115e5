SPECIFICATION FairSpec
CONSTANTS
  Callers = {c1, c2, c3}
  PoolSize = 1
  MaxOpens = 1
PROPERTIES
  NoStarvation
  CallsSettle
