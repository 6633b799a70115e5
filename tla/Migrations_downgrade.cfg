SPECIFICATION Spec
CONSTANTS
  MaxVersion = 3
  Releases = {1, 2, 3}
  Manifest <- MCAppending
INVARIANTS
  MigrateThenStart
