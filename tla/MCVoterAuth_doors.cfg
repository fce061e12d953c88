CONSTANTS
  a = a
  b = b
  e1 = e1
  t1 = t1
  t2 = t2
  jar = jar
  Voters = {a, b}
  Elections = {e1}
  ElectionOf <- OneElection
  MethodOf <- WithIdentifier
  Persons = {a, b, stranger}
  Tabs = {t1, t2}
  JarOf <- OneJar
  Sessions = {s1, s2, s3}
  None = None
  EndsAt = 1
  MaxFailedAttempts = 2
  LockMinutes = 1
  SessionMinutes = 1
  Stages = {"open", "closed"}
  MaxTime = 2
  MaxFailures = 1
SPECIFICATION AuthSpec
INVARIANTS
  SessionsAreProved
  WrongOnesAreCounted
PROPERTIES
  LocksHold
SYMMETRY Symmetry
