CONSTANTS
  s1 = s1
  s2 = s2
  NoSession = NoSession
  Sessions = {s1, s2}
  Requests = {"comment", "auto_close", "transition"}
  MaxRequests = 5
SYMMETRY Symmetry
SPECIFICATION RacesSpec
PROPERTY
  AutoClosedOnce
CHECK_DEADLOCK FALSE
