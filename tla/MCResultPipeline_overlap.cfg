CONSTANTS
  Workers = {w1, w2}
  MaxResults = 2
  MaxVersions = 3
  MaxCorrections = 1
  MaxCrashes = 1
SPECIFICATION Spec
INVARIANTS
  TypeOK
  StageHasItsRows
  VersionsNumberedInOrder
PROPERTIES
  PublishedCountsKept
SYMMETRY Symmetry
CHECK_DEADLOCK FALSE
