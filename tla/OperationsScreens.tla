------------------------- MODULE OperationsScreens -------------------------
(***************************************************************************)
(* The screens of the maintenance work orders and of the inspections.      *)
(***************************************************************************)
EXTENDS OperationsClient

\* The projects a record is linked to.
LinkedProjects == Links(Behind(
    hasAnyPermission({"projects.view", "projects.manage"}
                     \cup {"projects.links.view", "projects.links.manage"}), {"/projects/p"}))

\* The lists of the filters, read from the master data.
FilterLists == ForAll("list", {"departments", "buildings", "floors", "areas"})

\* A form runs its queries before its guard.
ProtectedForm(gate, queries, s) ==
    Shows(Always(queries)) ++ Inside(gate, [s EXCEPT !.needs = queries])

---------------------------------------------------------------------------
\* Maintenance. The client's gates name maintenance.manage only for the actions of a work order.

MaintenanceWorkflowActions == Offers(
    Behind(WorkOrderActors({"maintenance.submit"}), {"useSubmitWorkOrder"})
    \cup Behind(WorkOrderActors({"maintenance.start"}), {"useStartWorkOrder"})
    \cup Behind(WorkOrderActors({"maintenance.hold"}), {"useHoldWorkOrder"})
    \cup Behind(WorkOrderActors({"maintenance.resume"}), {"useResumeWorkOrder"})
    \cup Behind(WorkOrderActors({"maintenance.complete"}), {"useCompleteWorkOrder"})
    \cup Behind(WorkOrderActors({"maintenance.cancel"}), {"useCancelWorkOrder"})
    \cup Behind(WorkOrderActors({"maintenance.reopen"}), {"useReopenWorkOrder"}))

MaintenanceAssignmentCard ==
    Screen(Behind(WorkOrderActors({"maintenance.view_assignment"}), {"useWorkOrderAssignments"})
           \cup Behind(WorkOrderActors({"maintenance.assign", "maintenance.reassign"}),
                       {"useWorkOrderAssignmentCandidates"}), {},
           Behind(WorkOrderActors({"maintenance.assign"}), {"useAssignWorkOrder"})
           \cup Behind(WorkOrderActors({"maintenance.reassign"}), {"useReassignWorkOrder"})
           \cup Behind(WorkOrderActors({"maintenance.unassign"}), {"useUnassignWorkOrder"}), {})

\* Wrong: the query runs for whoever sees the work order.
MaintenanceSLACardForAll ==
    Screen(Always({"useWorkOrderSLA"}), {},
           Behind(WorkOrderActors({"maintenance.recalculate_sla"}),
                  {"useRecalculateWorkOrderSLA"}), {})

MaintenanceSLACard ==
    LET canView == WorkOrderActors({"maintenance.view_sla"}) IN
    Screen(Behind(canView, {"useWorkOrderSLA"}), {},
           Behind(canView \cap WorkOrderActors({"maintenance.recalculate_sla"}),
                  {"useRecalculateWorkOrderSLA"}), {})

MaintenanceEscalationCard ==
    LET canView == WorkOrderActors({"maintenance.view_escalation"}) IN
    Screen(Behind(canView, {"useWorkOrderEscalations"}), {},
           Behind(canView \cap WorkOrderActors({"maintenance.acknowledge_escalation"}),
                  {"useAcknowledgeWorkOrderEscalation"})
           \cup Behind(canView \cap WorkOrderActors({"maintenance.resolve_escalation"}),
                       {"useResolveWorkOrderEscalation"}), {})

MaintenanceWorkOrderAttachments ==
    Section("maintenance_work_order", WorkOrderActors({"maintenance.update"}), Deleters)

MaintenanceDashboardScreen ==
    LET queries == {"useMaintenanceDashboard", "useMaintenanceList"} IN
    Screen(Always(queries), queries, {}, Always({"/maintenance/work-orders"}))
MaintenanceListScreen ==
    Screen(Always({"useMaintenanceList"} \cup FilterLists), {"useMaintenanceList"}, {},
           Always({"/maintenance/work-orders/w"})
           \cup Behind(hasPermission("maintenance.create"), {"/maintenance/work-orders/new"}))

\* The link to the source ticket has no gate.
MaintenanceDetailScreen ==
    LET queries == {"useMaintenanceDetail", "useMaintenanceHistory"} IN
    Screen(Always(queries), queries, {},
           Always({"/maintenance", "/maintenance/work-orders", "/fm-tickets/f"})
           \cup Behind(hasPermission("maintenance.update"), {"/maintenance/work-orders/w/edit"}))
    ++ MaintenanceWorkflowActions ++ MaintenanceAssignmentCard ++ MaintenanceSLACard
    ++ MaintenanceWorkOrderAttachments ++ MaintenanceEscalationCard ++ LinkedProjects

MaintenanceBreadcrumbs == Links(Always({"/maintenance", "/maintenance/work-orders"}))
MaintenanceCreatePageContent ==
    ProtectedForm(hasPermission("maintenance.create"), {"useMaintenanceFormOptions"},
        Screen({}, {}, Always({"useCreateMaintenanceWorkOrder"}),
               Always({"/maintenance/work-orders/w"})) ++ MaintenanceBreadcrumbs)
MaintenanceEditPageContent ==
    ProtectedForm(hasPermission("maintenance.update"),
                  {"useMaintenanceDetail", "useMaintenanceFormOptions"},
        Screen({}, {}, Always({"useUpdateMaintenanceWorkOrder"}),
               Always({"/maintenance/work-orders/w"})) ++ MaintenanceBreadcrumbs)

---------------------------------------------------------------------------
\* Inspections.

DirectoryReaders == hasPermission("users.directory")

InspectionWorkflowActions ==
    Screen(Behind(InspectionActors({"inspection.assign"}) \cap DirectoryReaders,
                  {"useUserDirectory"}), {},
           Behind(InspectionActors({"inspection.assign"}), {"useAssignInspection"})
           \cup Behind(InspectionActors({"inspection.update"}),
                       {"useStartInspection", "useCancelInspection", "useReopenInspection"})
           \cup Behind(InspectionActors({"inspection.complete"}), {"useCompleteInspection"})
           \cup Behind(InspectionActors({"inspection.verify"}), {"useVerifyInspection"}), {})

InspectionFindingsActions ==
    LET correctors == InspectionActors({"inspection.manage_corrective_action"}) IN
    Screen(Behind(correctors \cap DirectoryReaders, {"useUserDirectory"}), {},
           Behind(InspectionActors({"inspection.update"}),
                  {"useCreateInspectionFinding", "useUpdateInspectionFinding"})
           \cup Behind(InspectionActors({"inspection.delete"}),
                       {"useDeleteInspectionFinding", "useDeleteInspectionCorrectiveAction"})
           \cup Behind(correctors, {"useCreateInspectionCorrectiveAction",
                                    "useUpdateInspectionCorrectiveAction"}), {})

\* An analysis is edited by those who may see it; the first one is written by any updater.
InspectionAIAnalysis ==
    Offers(Behind(InspectionActors({"inspection.update"}), {"useSaveInspectionAIAnalysis"}))

InspectionAttachments == Section("inspection", InspectionActors({"inspection.update"}), Deleters)

InspectionListScreen ==
    Screen(Always({"useInspectionList"} \cup FilterLists), {"useInspectionList"}, {},
           Always({"/inspection/inspections/s"})
           \cup Behind(InspectionActors({"inspection.create"}), {"/inspection/inspections/new"}))
InspectionDetailScreen ==
    Screen(Always({"useInspectionDetail"}), {"useInspectionDetail"}, {},
           Always({"/inspection/inspections"})
           \cup Behind(InspectionActors({"inspection.update"}), {"/inspection/inspections/s/edit"}))
    ++ InspectionWorkflowActions ++ InspectionFindingsActions ++ InspectionAttachments
    ++ LinkedProjects ++ InspectionAIAnalysis

InspectionBreadcrumbs == Links(Always({"/inspection/inspections"}))
AssignmentSection == Shows(Behind(DirectoryReaders, {"useUserDirectory"}))
InspectionCreatePageContent ==
    ProtectedForm(InspectionActors({"inspection.create"}), {"useInspectionFormOptions"},
        Screen({}, {}, Always({"useCreateInspection"}), Always({"/inspection/inspections/s"}))
        ++ InspectionBreadcrumbs ++ AssignmentSection)
InspectionEditPageContent ==
    ProtectedForm(InspectionActors({"inspection.update"}),
        {"useInspectionDetail", "useInspectionFormOptions"},
        Screen({}, {}, Always({"useUpdateInspection"}), Always({"/inspection/inspections/s"}))
        ++ InspectionBreadcrumbs ++ AssignmentSection)

---------------------------------------------------------------------------
\* The pages.

OperationsPages ==
    "/maintenance" :> Page(hasPermission("maintenance.view"), MaintenanceDashboardScreen)
    @@ "/maintenance/work-orders" :>
        Page(hasPermission("maintenance.view"), MaintenanceListScreen)
    @@ "/maintenance/work-orders/w" :>
        Page(hasPermission("maintenance.view"), MaintenanceDetailScreen)
    @@ "/maintenance/work-orders/new" :> Page(Anyone, MaintenanceCreatePageContent)
    @@ "/maintenance/work-orders/w/edit" :> Page(Anyone, MaintenanceEditPageContent)
    @@ "/inspection/inspections" :>
        Page(InspectionActors({"inspection.view"}), InspectionListScreen)
    @@ "/inspection/inspections/s" :>
        Page(InspectionActors({"inspection.view"}), InspectionDetailScreen)
    @@ "/inspection/inspections/new" :> Page(Anyone, InspectionCreatePageContent)
    @@ "/inspection/inspections/s/edit" :> Page(Anyone, InspectionEditPageContent)

=============================================================================
