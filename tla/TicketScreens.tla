--------------------------- MODULE TicketScreens ---------------------------
(***************************************************************************)
(* The screens of the FM tickets, for the staff and for their requesters.  *)
(***************************************************************************)
EXTENDS TicketClient

---------------------------------------------------------------------------
\* The panels of a ticket.

\* The picker of a person runs only with the permission to read the directory.
TicketAssignmentPanel ==
    Screen(Behind(hasPermission("fm_tickets.assign") \cap hasPermission("users.directory"),
                  {"useUserDirectory"}), {},
           Behind(hasPermission("fm_tickets.assign"), {"assignTicket"}), {})
TicketGenerateWorkOrderPanel ==
    LET generators == hasAnyPermission({"fm_tickets.assign", "fm_tickets.manage"}) IN
    Screen({}, {}, Behind(generators, {"generateWorkOrder"}),
           Behind(generators, {"/maintenance/work-orders/w"}))
TicketStatusActions ==
    Offers(Behind(hasAnyPermission({"fm_tickets.update", "fm_tickets.manage"}),
                  {"changeTicketStatus"})
           \cup Behind(hasAnyPermission({"fm_tickets.close", "fm_tickets.manage"}), {"endTicket"}))
TicketEscalationForm == Offers(Behind(hasPermission("fm_tickets.manage"), {"escalateTicket"}))
TicketEscalationHistory == Shows(Always({"ticketEscalations"}))
TicketCommentForm ==
    Offers(Behind(hasAnyPermission({"fm_tickets.update", "fm_tickets.manage"}), {"commentTicket"}))
TicketComments == Shows(Always({"ticketComments"}))
TicketHistory == Shows(Always({"ticketHistory"}))

\* The decision on a recommendation is offered to a reviewer (canReview).
TicketAiAnalysisStatusPanel(canReview) ==
    Screen(Always({"aiAnalyses"}), {}, Behind(canReview, {"decideRecommendation"}), {})

\* The uploader is open to the requester whatever the permissions on tickets, and to the staff
\* who may update the ticket.
FmTicketAttachments(audience) ==
    LET updaters == hasAnyPermission({"fm_tickets.update", "fm_tickets.manage"})
        contribute == IF audience = "requester" THEN Anyone ELSE updaters
    IN Section("fm_ticket", contribute, Deleters \cap contribute)

FmReviewEmployeeReport == FmTicketAttachments("internal")
FmReviewOperationalClassification ==
    Links(Behind(hasPermission("fm_tickets.update"), {"/fm-tickets/f/edit"}))

---------------------------------------------------------------------------
\* The staff's screens.

TicketListScreen ==
    Screen(Always({"ticketList"}), {"ticketList"}, {},
           Always({"/fm-tickets/f"})
           \cup Behind(hasPermission("fm_tickets.update"), {"/fm-tickets/f/edit"})
           \cup Behind(hasPermission("fm_tickets.create"), {"/fm-tickets/new"}))

TicketDetailScreen ==
    Screen(Always({"ticket", "aiAnalyses"}), {"ticket"}, {},
           Always({"/fm-tickets"})
           \cup Behind(hasPermission("fm_tickets.update"), {"/fm-tickets/f/edit"})
           \cup Behind(hasAnyPermission({"projects.view", "projects.manage"}
                                        \cup {"projects.links.view", "projects.links.manage"}),
                       {"/projects/p"}))
    ++ FmReviewEmployeeReport ++ TicketAiAnalysisStatusPanel(hasPermission("fm_tickets.update"))
    ++ FmReviewOperationalClassification ++ TicketAssignmentPanel
    ++ TicketGenerateWorkOrderPanel ++ TicketStatusActions ++ TicketEscalationForm
    ++ TicketEscalationHistory ++ TicketCommentForm ++ TicketComments ++ TicketHistory

useTicketRelatedOptions == ForAll("list", MasterDataResources \ {"asset-types"})

\* The queries of a form run before its guard.
TicketCreatePageContent ==
    Shows(Always(useTicketRelatedOptions))
    ++ Inside(hasPermission("fm_tickets.create"),
              Screen({}, useTicketRelatedOptions, Always({"createTicket"}),
                     Always({"/fm-tickets", "/fm-tickets/f"})))
TicketEditPageContent ==
    Shows(Always({"ticket"} \cup useTicketRelatedOptions))
    ++ Inside(hasPermission("fm_tickets.update"),
              Screen({}, {"ticket"} \cup useTicketRelatedOptions, Always({"updateTicket"}),
                     Always({"/fm-tickets/f"}))
              ++ TicketAiAnalysisStatusPanel(hasPermission("fm_tickets.update")))

---------------------------------------------------------------------------
\* The requester's screens. Their queries and mutations run only for an employee requester.

MyRequestListScreen ==
    Screen(Behind(Requesters, {"useMyRequestList"}), {"useMyRequestList"}, {},
           Behind(Requesters, {"/my-requests/f"})
           \cup Behind(hasPermission("fm_tickets.create") \cap isEmployeeRequesterMode,
                       {"/my-requests/new"}))
MyRequestWorkflowActions == Offers(Behind(Requesters,
    {"useCancelMyRequest", "useAcknowledgeMyRequest", "useReopenMyRequest"}))
MyRequestDetailContent ==
    Screen(Always({"aiAnalyses"}), {}, {}, Always({"/my-requests"}))
    ++ TicketAiAnalysisStatusPanel({}) ++ FmTicketAttachments("requester")
    ++ MyRequestWorkflowActions
MyRequestDetailScreen ==
    Screen(Behind(Requesters, {"useMyRequestDetail"}), {"useMyRequestDetail"},
           Always({"queueAiForUploadedImages"}), {}) ++ MyRequestDetailContent
MyRequestCreateScreen ==
    LET creators == hasPermission("fm_tickets.create") \cap isEmployeeRequesterMode IN
    Screen(Behind(creators, {"useMyRequestOptions"}), {"useMyRequestOptions"},
           Behind(creators, {"useCreateMyRequest", "AttachmentUploader.fm_ticket",
                             "queueAiForUploadedImages"}),
           Always({"/my-requests", "/my-requests/f"}))

---------------------------------------------------------------------------
\* The pages. A requester who opens one of the staff's is sent to the list of their requests.

ProtectedEmployeeRequesterRoute(code) == hasPermission(code) \cap isEmployeeRequesterMode
EmployeeFmTicketRedirect(guard) == guard \ isEmployeeRequesterMode

TicketPages ==
    "/fm-tickets" :> Page(EmployeeFmTicketRedirect(TicketReaders), TicketListScreen)
    @@ "/fm-tickets/f" :> Page(EmployeeFmTicketRedirect(TicketReaders), TicketDetailScreen)
    @@ "/fm-tickets/new" :> Page(EmployeeFmTicketRedirect(Anyone), TicketCreatePageContent)
    @@ "/fm-tickets/f/edit" :> Page(EmployeeFmTicketRedirect(Anyone), TicketEditPageContent)
    @@ "/my-requests" :>
        Page(ProtectedEmployeeRequesterRoute("fm_tickets.view"), MyRequestListScreen)
    @@ "/my-requests/f" :>
        Page(ProtectedEmployeeRequesterRoute("fm_tickets.view"), MyRequestDetailScreen)
    @@ "/my-requests/new" :>
        Page(ProtectedEmployeeRequesterRoute("fm_tickets.create"), MyRequestCreateScreen)

=============================================================================
