SPECIFICATION Spec
CONSTANTS
  Words = {"householdNumber", "name", "identifierLast4", "birthDate6", "memo",
           "0", "7", "12", "1234", "990101", "kim", "KIM", "jr"}
  Digits <- DigitsOf
  Lower <- LowerOf
  a = a
  b = b
  c = c
  Elections = {e1}
  NoElection = noElection
  Requests = {r1, r2}
  Labels = {a, b, c}
  Blank = blank
  Forms <- WizardForms
  Files <- VoterFiles
  Operations = {"wizard", "edit", "quick", "info", "policy", "import", "review", "open"}
  Places = 3
  Questions = 2
  MaxTime = 1
  MaxSent = 2
  MaxFailures = 1
SYMMETRY Symmetry
INVARIANTS TypeOK QuestionsSound VotersComeLast 
PROPERTY NothingIsTakenAway
CHECK_DEADLOCK FALSE
