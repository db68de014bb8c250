--------------------------- MODULE MCClientCache ---------------------------
(***************************************************************************)
(* The query cache under the plans of the whole client: every pair of a    *)
(* change and a query it concerns that some role has, on one page or on    *)
(* two, except the pairs the client leaves to staleTime.                   *)
(***************************************************************************)
EXTENDS ClientAgreement, QueryCache

MCMaxVersion == 2

\* What no invalidation reaches: <<changes, queries>>. The project's own page and lists after
\* changes of its parts, options of pickers and forms, and reporting.
LeftToStaleTime ==
    LET links == DOMAIN LinkMutations
        schedule == DOMAIN ScheduleMutations
        parts == DOMAIN NoteMutations \cup DOMAIN IssueMutations \cup links \cup schedule
        issues == {"useCreateProjectIssue", "useUpdateProjectIssue", "useDeleteProjectIssue"}
        tasks == DOMAIN TaskMutations
        tickets == DOMAIN TicketMutations
        newRoles == {"useCreateRole", "useDuplicateRole"}
        work == DOMAIN MaintenanceMutations \cup DOMAIN WorkOrderTransitions
                \cup DOMAIN WorkOrderOwnership
        fmWork == DOMAIN MaintenanceMutations \cup DOMAIN WorkOrderOwnership
                  \cup {"useSubmitWorkOrder"}
    IN {<<parts, {"useProjectDetail"}>>,
        <<tasks, {"useProjectList"}>>,
        <<(tasks \ {"useReportProjectTaskBlocker"}) \cup DOMAIN ChecklistMutations \cup schedule,
          {"useProjectTimeline"}>>,
        <<DOMAIN ProgressMutations, {"useProjectTimeline", "useProjectHistory"}>>,
        <<schedule, {"useMyWorkDashboard", "useMyWorkTaskList", "useProjectProgress"}>>,
        <<issues, {"useMyWorkDashboard", "useProjectProgress"}>>,
        <<{"useReportProjectTaskBlocker"}, {"useProjectIssueDetail"}>>,
        <<{"useUpdateProjectLink"}, {"useProjectLinkOptions"}>>,
        <<links, {"ticket", "useMaintenanceDetail", "useInspectionDetail"}>>,
        <<{"useCreateUser", "useUpdateUser", "useDeactivateUser"},
          {"useProjectManagerAssignmentOptions", "useProjectTaskPicAssignmentOptions",
           "useWorkOrderAssignmentCandidates"}>>,
        <<{For(name, r) : name \in {"create", "update", "changeLifecycle"},
                            r \in {"organizations", "buildings"}}, {"useProjectFormOptions"}>>,
        <<newRoles \cup {"useUpdateRole"}, {"useUserRoleAssignments"}>>,
        <<newRoles, {"useRole", "useRolePermissions"}>>,
        <<tickets \cup work \cup DOMAIN InspectionMutations \cup DOMAIN InspectionTransitions,
          DOMAIN ReportingQueries \cup {"aiMonitoring"}>>,
        <<{"commentTicket"}, {"ticketList"}>>,
        <<fmWork, {"ticket"}>>,
        <<tickets \ {"generateWorkOrder"}, {"useMaintenanceDetail"}>>}

Refreshed(m, q) ==
    Concerns(m, q) /\ \A left \in LeftToStaleTime : m \notin left[1] \/ q \notin left[2]

ClientPlans ==
    {PlanOf(t[1], t[2], TRUE, t[3]) : t \in {u \in OnOnePage : Refreshed(u[1], u[2])}}
    \cup {PlanOf(t[1], t[2], FALSE, FALSE) : t \in {u \in OnTwoPages : Refreshed(u[1], u[2])}}

=============================================================================
