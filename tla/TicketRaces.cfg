CONSTANTS
  s1 = s1
  s2 = s2
  NoSession = NoSession
  Sessions = {s1, s2}
  Requests = {"change_status", "assign_ticket", "comment", "update_ticket", "requester_cancel", "requester_acknowledge", "requester_reopen", "auto_close", "generate", "transition", "complete_again", "assign", "reassign", "unassign", "update_work_order"}
  MaxRequests = 4
SYMMETRY Symmetry
SPECIFICATION RacesSpec
INVARIANTS
  TypeOK
  TicketRowConsistent
  LockedViewIsCurrent
PROPERTIES
  ImplementsContract
  RequesterCancelExcludesExecution
  ResolutionDecidedOnce
  SynchronizedTogether
  GeneratedFromReadyTicket
CHECK_DEADLOCK FALSE
