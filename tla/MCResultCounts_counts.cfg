SPECIFICATION Spec
CONSTANTS
  Voters = {v1, v2}
  Submissions = {s1, s2}
  Singles = {"single"}
  Multiples = {"multiple"}
  Texts = {}
  Compulsory = {"multiple"}
  Options = {a, b}
  Readers = {r1}
  MaxLateEdits = 1
  Nothing = Nothing
SYMMETRY Symmetry
INVARIANTS CountsTypeOK TotalsMatchRegistry PageNumbersFit
PROPERTY AbstentionsNeverRise
CHECK_DEADLOCK FALSE
