------------------------------- MODULE Client -------------------------------
(***************************************************************************)
(* The whole client: its requests, cached queries, mutations and pages,    *)
(* and what becomes of a cached query when a mutation is answered.         *)
(***************************************************************************)
EXTENDS ProjectScreens, AdminScreens, TicketScreens, OperationsScreens, SequencesExt

Requests ==
    ProjectRequests @@ TaskRequests @@ ChecklistRequests @@ ScheduleRequests
    @@ NoteIssueRequests @@ LinkRequests @@ AttachmentRequests @@ MasterDataRequests
    @@ UserRequests @@ RoleRequests @@ AIAdminRequests @@ AIMonitoringRequests
    @@ NotificationRequests @@ ReportingRequests @@ DashboardRequests
    @@ FmTicketRequests @@ FmTicketAiRequests @@ MyRequestRequests
    @@ MaintenanceRequests @@ MaintenanceWorkflowRequests @@ AssignmentSlaRequests
    @@ InspectionRequests @@ InspectionWorkflowRequests @@ FindingRequests

Queries ==
    PortfolioQueries @@ TaskQueries @@ ChecklistQueries @@ ScheduleQueries @@ ProgressQueries
    @@ NoteQueries @@ IssueQueries @@ LinkQueries @@ AttachmentQueries @@ MasterDataQueries
    @@ UserQueries @@ RoleQueries @@ NotificationQueries @@ ReportingQueries
    @@ DashboardQueries @@ AIAdminQueries @@ TicketQueries @@ MyRequestQueries
    @@ MaintenanceQueries @@ WorkOrderAssignmentQueries @@ useWorkOrderSLA
    @@ useWorkOrderEscalations @@ InspectionQueries

Mutations ==
    ProjectMutations @@ TaskMutations @@ ChecklistMutations @@ ScheduleMutations
    @@ ProgressMutations @@ NoteMutations @@ IssueMutations @@ LinkMutations
    @@ AttachmentMutations @@ MasterDataMutations @@ UserMutations @@ RoleMutations
    @@ NotificationMutations @@ AIAdminMutations @@ TicketMutations @@ MyRequestMutations
    @@ MaintenanceMutations @@ WorkOrderTransitions @@ WorkOrderOwnership
    @@ useRecalculateWorkOrderSLA @@ EscalationMutations @@ InspectionMutations
    @@ InspectionTransitions @@ FindingMutations @@ CorrectiveActionMutations

Pages == ProjectPages @@ MasterDataPages @@ AccountPages @@ OfficePages @@ TicketPages
         @@ OperationsPages

---------------------------------------------------------------------------
\* A mutation changes what a query shows.
Concerns(m, q) ==
    Requests[Queries[q].request].what \cap Requests[Mutations[m].request].what # {}

\* Invalidating a key reaches every query whose key it begins.
Reaches(keys, q) == \E k \in keys : IsPrefix(k, Queries[q].key)

\* What a role does on a page it may open: the queries the server answers, the changes offered and
\* the links.
Enter(route, r) == r \in Pages[route].guard
Names(pairs, r) == {x[1] : x \in {y \in pairs : r \in y[2]}}
ReadsOf(route, r) == Names(Pages[route].screen.reads, r)
OffersOf(route, r) == Names(Pages[route].screen.offers, r)
LinksOf(route, r) == Names(Pages[route].screen.links, r)
PagesOf(r) == {route \in DOMAIN Pages : Enter(route, r)}
MayRead(q, r) == r \in Requests[Queries[q].request].gate
MayWrite(m, r) == r \in Requests[Mutations[m].request].gate

ShownTo(route, r) == {q \in ReadsOf(route, r) : MayRead(q, r)}
OfferedTo(route, r) == {m \in OffersOf(route, r) : MayWrite(m, r)}

---------------------------------------------------------------------------
\* A run of sets without the query's key is as good as one of them.
Squeeze(steps) ==
    FoldLeft(LAMBDA acc, s : IF acc # << >> /\ ~s /\ ~acc[Len(acc)] THEN acc ELSE Append(acc, s),
             << >>, steps)

\* How mutation m treats query q, of the page that offers it or of another.
PlanOf(m, q, here, needed) ==
    [put |-> Reaches(Mutations[m].puts, q), here |-> here, needed |-> needed,
     steps |-> Squeeze([i \in DOMAIN Mutations[m].then |-> Reaches(Mutations[m].then[i], q)])]

\* The pairs of a change and a query it concerns that one role has on one page, and on any two.
OnOnePage ==
    UNION {UNION {{<<m, q, q \in Pages[p].screen.needs>> :
                       m \in OfferedTo(p, r), q \in ShownTo(p, r)} : p \in PagesOf(r)} : r \in Roles}
OnTwoPages ==
    UNION {(UNION {OfferedTo(p, r) : p \in PagesOf(r)}) \X (UNION {ShownTo(p, r) : p \in PagesOf(r)}) :
               r \in Roles}

=============================================================================
