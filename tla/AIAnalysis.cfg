CONSTANTS
  a1 = a1
  a2 = a2
  c1 = c1
  w1 = w1
  w2 = w2
  r1 = r1
  r2 = r2
  None = None
  Analyses = {a1, a2}
  Clients = {c1}
  Workers = {w1, w2}
  Results = {r1, r2}
  MaxAttempts = 3
  MaxCrashes = 1
  MaxRedeliveries = 1
SPECIFICATION FairSpec
INVARIANTS
  TypeOK
  ActiveIsCarried
PROPERTIES
  ImplementsContract
  AnalysesSettle
CHECK_DEADLOCK FALSE
