---------------------------- MODULE TicketClient ----------------------------
(***************************************************************************)
(* FM tickets in the client, as the staff and as the requester of a ticket *)
(* see them. One ticket "f" stands for all of them; analysis "x" is one of *)
(* its AI analyses.                                                        *)
(***************************************************************************)
EXTENDS MasterDataClient, AttachmentClient

---------------------------------------------------------------------------
\* services/api/fm-tickets.ts, with the permission checks of the ticket views.


\* Comments, history and escalations of a ticket are not found by its requester.
TicketReaders == hasPermission("fm_tickets.view")
TicketStaff == TicketReaders \ isEmployeeRequesterMode
Requesters == TicketReaders \cap isEmployeeRequesterMode

StatusWritten == {"ticket", "ticketHistory"}
WorkflowWritten == StatusWritten \cup {"workOrder", "workOrderHistory"}

FmTicketRequests == [
    getFmTickets |-> Reads(TicketReaders, {"ticket"}),
    getFmTicket |-> Reads(TicketReaders, {"ticket", "ticketEscalation", "workOrder", "link"}),
    createFmTicket |-> Writes(hasPermission("fm_tickets.create"), StatusWritten),
    updateFmTicket |-> Writes(hasPermission("fm_tickets.update"), StatusWritten),
    getFmTicketComments |-> Reads(TicketStaff, {"ticketComment"}),
    createFmTicketComment |->
        Writes(hasPermission("fm_tickets.update"), {"ticketComment", "ticketHistory", "ticket"}),
    getFmTicketHistory |-> Reads(TicketStaff, {"ticketHistory"}),
    getFmTicketEscalations |-> Reads(TicketStaff, {"ticketEscalation"}),
    escalateFmTicket |->
        Writes(hasPermission("fm_tickets.manage"), {"ticketEscalation", "ticketHistory"}),
    assignFmTicket |-> Writes(hasPermission("fm_tickets.assign"), StatusWritten),
    changeFmTicketStatus |->
        Writes(hasAnyPermission({"fm_tickets.update", "fm_tickets.manage"}), StatusWritten),
    \* To resolved, closed or cancelled.
    endFmTicket |->
        Writes(hasAnyPermission({"fm_tickets.close", "fm_tickets.manage"}), StatusWritten),
    generateMaintenanceWorkOrder |->
        Writes(hasAnyPermission({"fm_tickets.assign", "fm_tickets.manage"}),
               {"workOrder", "assignment", "workOrderHistory", "ticketHistory"})]

FmTicketAiRequests == [
    queueFmTicketAiAnalysis |-> Writes(hasPermission("fm_tickets.create"), {"analysis"}),
    getFmTicketAiAnalyses |-> Reads(TicketReaders, {"analysis"}),
    decideFmTicketAiRecommendation |->
        Writes(hasPermission("fm_tickets.update"), {"analysis", "ticketHistory"})]

MyRequestRequests == [
    getMyRequests |-> Reads(TicketReaders, {"ticket"}),
    getMyRequest |-> Reads(TicketReaders, {"ticket"}),
    createMyRequest |-> Writes(hasPermission("fm_tickets.create"), StatusWritten),
    getMyRequestOptions |->
        Reads(hasPermission("fm_tickets.create") \cap isEmployeeRequesterMode,
              {"buildings", "floors", "areas"}),
    cancelMyRequest |-> Writes(Requesters, WorkflowWritten),
    acknowledgeMyRequest |-> Writes(Requesters, WorkflowWritten),
    reopenMyRequest |-> Writes(Requesters, WorkflowWritten)]

---------------------------------------------------------------------------
\* The keys.

fmTicketsQueryKeys == [
    all |-> <<"fm-tickets">>,
    list |-> <<"fm-tickets", "params">>,
    detail |-> <<"fm-tickets", "f">>,
    comments |-> <<"fm-tickets", "f", "comments">>,
    history |-> <<"fm-tickets", "f", "history">>,
    escalations |-> <<"fm-tickets", "f", "escalations">>,
    aiAnalyses |-> <<"fm-tickets", "f", "ai-analyses">>]

myRequestsQueryKeys == [
    all |-> <<"my-requests">>,
    list |-> <<"my-requests", "list", "params">>,
    detail |-> <<"my-requests", "detail", "f">>,
    options |-> <<"my-requests", "options">>]

getMyRequestWorkflowInvalidationKeys ==
    LET k == myRequestsQueryKeys IN
    AllAtOnce({k.all, k.detail, <<"my-requests", "list">>, <<"notifications">>, <<"fm-tickets">>})

---------------------------------------------------------------------------
\* The queries and mutations inside the screens of the staff.

TicketQueries ==
    LET k == fmTicketsQueryKeys IN [
    ticketList |-> Query(k.list, "getFmTickets"),
    ticket |-> Query(k.detail, "getFmTicket"),
    ticketComments |-> Query(k.comments, "getFmTicketComments"),
    ticketHistory |-> Query(k.history, "getFmTicketHistory"),
    ticketEscalations |-> Query(k.escalations, "getFmTicketEscalations"),
    aiAnalyses |-> Query(k.aiAnalyses, "getFmTicketAiAnalyses")]

useFmTicketMutation(request) == Mutation(request, OneByOne(<<fmTicketsQueryKeys.all>>))

\* What each panel of the ticket invalidates.
AssignmentPanelThen ==
    LET k == fmTicketsQueryKeys IN
    AllAtOnce({k.detail, k.history, k.comments, k.escalations, k.all, <<"notifications">>})
StatusThen == LET k == fmTicketsQueryKeys IN AllAtOnce({k.detail, k.comments, k.history, k.all})
CommentThen == LET k == fmTicketsQueryKeys IN AllAtOnce({k.detail, k.comments, k.history})
EscalationThen == LET k == fmTicketsQueryKeys IN AllAtOnce({k.detail, k.history, k.escalations})
GenerateThen ==
    LET k == fmTicketsQueryKeys IN
    AllAtOnce({k.detail, k.history, k.all, <<"maintenance">>, <<"maintenance", "detail", "w">>,
               <<"maintenance", "assignments", "w">>, <<"notifications">>})
DecisionThen == OneByOne(<<fmTicketsQueryKeys.aiAnalyses, fmTicketsQueryKeys.history>>)

TicketMutations == [
    createTicket |-> useFmTicketMutation("createFmTicket"),
    updateTicket |-> useFmTicketMutation("updateFmTicket"),
    assignTicket |-> Mutation("assignFmTicket", AssignmentPanelThen),
    changeTicketStatus |-> Mutation("changeFmTicketStatus", StatusThen),
    endTicket |-> Mutation("endFmTicket", StatusThen),
    commentTicket |-> Mutation("createFmTicketComment", CommentThen),
    escalateTicket |-> Mutation("escalateFmTicket", EscalationThen),
    generateWorkOrder |-> Mutation("generateMaintenanceWorkOrder", GenerateThen),
    decideRecommendation |-> Mutation("decideFmTicketAiRecommendation", DecisionThen)]

\* hooks/use-my-requests.ts. Photos added later are queued for an analysis.
MyRequestQueries ==
    LET k == myRequestsQueryKeys IN [
    useMyRequestList |-> Query(k.list, "getMyRequests"),
    useMyRequestDetail |-> Query(k.detail, "getMyRequest"),
    useMyRequestOptions |-> Query(k.options, "getMyRequestOptions")]

invalidateWorkflowCaches(request) == Mutation(request, getMyRequestWorkflowInvalidationKeys)
MyRequestMutations ==
    LET k == myRequestsQueryKeys IN [
    useCreateMyRequest |-> Mutation("createMyRequest", OneByOne(<<k.all, k.detail, k.options>>)),
    useCancelMyRequest |-> invalidateWorkflowCaches("cancelMyRequest"),
    useAcknowledgeMyRequest |-> invalidateWorkflowCaches("acknowledgeMyRequest"),
    useReopenMyRequest |-> invalidateWorkflowCaches("reopenMyRequest"),
    queueAiForUploadedImages |->
        Mutation("queueFmTicketAiAnalysis", OneByOne(<<fmTicketsQueryKeys.aiAnalyses>>))]

=============================================================================
