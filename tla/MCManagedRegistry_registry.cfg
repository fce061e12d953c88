SPECIFICATION ManagedSpec
CONSTANTS
  Voters = {v1, v2}
  NoVoter = none
  Workers = {w1}
  Operations = {"open", "resume", "cancel", "delete"}
  MaxEdits = 0
  MaxDuplicates = 0
  MaxCrashes = 1
  Rows = {r1, r2}
  Editors = {e1, e2}
SYMMETRY Symmetry
INVARIANTS CopyIsCurrent CountsMatchCopy OpenedVotersHaveCredentials
CHECK_DEADLOCK FALSE
