SPECIFICATION FairSpec
CONSTANTS
  Voters = {v1, v2}
  NoVoter = none
  Workers = {w1, w2}
  Operations = {"import", "validate", "open", "prepare"}
  MaxEdits = 0
  MaxDuplicates = 1
  MaxCrashes = 1
INVARIANTS OpenedVotersHaveCredentials ValidatedMeansValid
PROPERTIES ReadyIsOpened
CHECK_DEADLOCK FALSE
