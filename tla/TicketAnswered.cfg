CONSTANTS
  s1 = s1
  s2 = s2
  NoSession = NoSession
  Sessions = {s1, s2}
  Requests = {"requester_cancel", "requester_acknowledge", "requester_reopen", "auto_close", "transition"}
  MaxRequests = 6
SPECIFICATION AnsweredSpec
PROPERTIES
  ImplementsContract
  AutoClosedOnce
  RequestsAreAnswered
CHECK_DEADLOCK FALSE
