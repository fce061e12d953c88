CONSTANTS
  Workers = {w1}
  MaxResults = 2
  MaxVersions = 4
  MaxCorrections = 2
  MaxCrashes = 2
SPECIFICATION FairSpec
INVARIANTS
  KeptAlone
PROPERTIES
  ClosedIsPublished
  LifecycleOrder
  PublicResultFixed
CHECK_DEADLOCK FALSE
