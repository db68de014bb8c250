CONSTANTS
  s1 = s1
  s2 = s2
  NoSession = NoSession
  Sessions = {s1, s2}
  Requests = {"requester_cancel", "transition"}
  MaxRequests = 2
SYMMETRY Symmetry
SPECIFICATION RacesSpec
INVARIANT
  NoDeadlock
CHECK_DEADLOCK FALSE
