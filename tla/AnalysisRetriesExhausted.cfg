CONSTANTS
  a1 = a1
  a2 = a2
  c1 = c1
  c2 = c2
  w1 = w1
  r1 = r1
  None = None
  Analyses = {a1, a2}
  Clients = {c1}
  Workers = {w1}
  Results = {r1}
  MaxAttempts = 4
  MaxCrashes = 0
  MaxRedeliveries = 0
SPECIFICATION Spec
INVARIANT
  ActiveIsCarried
CHECK_DEADLOCK FALSE
