\* A reviewer of one analysis of one photo, queued from the page of the request.
INIT Init
NEXT Next
CONSTANTS
    Photos = {p1, p2}
    Concerns <- MCConcerns
    Classes = {c1, c2}
    Recommended = c1
    MaxTickets = 1
    MaxAnalyses = 1
    MaxSent = 2
INVARIANT ModifiedAsChosen
CHECK_DEADLOCK FALSE
