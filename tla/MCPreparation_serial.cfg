SPECIFICATION Spec
CONSTANTS
  Voters = {v1, v2}
  NoVoter = none
  Workers = {w1}
  Operations = {"edit", "import", "validate", "requestReview", "approve", "schedule", "open", "pause", "resume", "cancel", "delete", "prepare", "issue", "resend"}
  MaxEdits = 1
  MaxDuplicates = 1
  MaxCrashes = 1
SYMMETRY Symmetry
INVARIANTS TypeOK OpeningIsComplete KeptAlone
CHECK_DEADLOCK FALSE
