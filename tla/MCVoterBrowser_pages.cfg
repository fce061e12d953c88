CONSTANTS
  a = a
  b = b
  c = c
  e1 = e1
  e2 = e2
  t1 = t1
  t2 = t2
  jar = jar
  Voters = {a, b, c}
  Elections = {e1, e2}
  ElectionOf <- TwoElections
  MethodOf <- OneOfEach
  Persons = {a, b, c}
  Typed = {"review"}
  Tabs = {t1, t2}
  JarOf <- OneJar
  Sessions = {s1, s2}
  None = None
  EndsAt = 1
  MaxFailedAttempts = 1
  LockMinutes = 1
  SessionMinutes = 1
  Stages = {"published"}
  MaxTime = 1
  MaxFailures = 1
SPECIFICATION Spec
INVARIANTS
  TypeOK
  NothingMixedUp
PROPERTIES
  DraftsSurvive
SYMMETRY Symmetry
