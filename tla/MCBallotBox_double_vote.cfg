CONSTANTS
  Requests = {r1, r2}
  Credentials = {c1, c2}
  Browsers = {b1}
  EndsAt = 0
  MaxTime = 1
  None = None
SPECIFICATION Spec
INVARIANTS
  AtMostOneBallotPerCredential
