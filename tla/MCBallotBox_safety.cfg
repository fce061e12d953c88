CONSTANTS
  Requests = {r1, r2, r3}
  Credentials = {c1, c2}
  Browsers = {b1}
  EndsAt = 0
  MaxTime = 1
  None = None
SPECIFICATION Spec
INVARIANTS
  TypeOK
  BooksBalance
  OneCurrentBallotPerGroup
PROPERTIES
  BallotsAreFinal
  NoVoteAfterVote
  ImplementsLedger
SYMMETRY Symmetry
