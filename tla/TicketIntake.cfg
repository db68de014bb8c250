\* Both forms, with two photos or with one and a reviewer; two tickets and two analyses at most.
SPECIFICATION Spec
CONSTANTS
    Photos = {p1, p2}
    Concerns <- MCConcerns
    Classes = {c1, c2}
    Recommended = c1
    MaxTickets = 2
    MaxAnalyses = 2
    MaxSent = 2
INVARIANTS TypeOK OneTicketPerConcern PhotosTogether ToldOfAnalysis PhotosAnalysedOrTold
PROPERTIES ShownDecisionStands FilledAsRecorded SubmitSettles AnalysisShown
CHECK_DEADLOCK FALSE
