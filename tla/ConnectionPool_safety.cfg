SPECIFICATION Spec
CONSTANTS
  Callers = {c1, c2, c3, c4}
  PoolSize = 2
  MaxOpens = 2
SYMMETRY CallerSymmetry
INVARIANTS
  TypeOK
  LeaseExclusive
  NoStuckLease
  NoIdleConnection
  HandOverSucceeds
  OneOpenInstance
PROPERTIES
  LeasesInOrder
  ImplementsLeaseQueue
