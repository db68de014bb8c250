-------------------------- MODULE OperationsClient --------------------------
(***************************************************************************)
(* Maintenance work orders and 5S inspections in the client: requests,     *)
(* keys, queries and mutations. One work order "w" (made from ticket "f")  *)
(* and one inspection "s" stand for all of them.                           *)
(***************************************************************************)
EXTENDS MasterDataClient, AttachmentClient

---------------------------------------------------------------------------
\* services/api/maintenance.ts, with the permission checks of the work order views.

WorkOrderActors(codes) == hasAnyPermission({"maintenance.manage"} \cup codes)

\* A workflow transition brings the SLA and the source ticket up to date.
WorkflowWrites(code) ==
    Writes(WorkOrderActors({code}),
           {"workOrder", "workOrderHistory", "sla", "ticket", "ticketHistory"})
AssignmentWrites(code) ==
    Writes(WorkOrderActors({code}), {"assignment", "workOrder", "workOrderHistory"})

MaintenanceRequests == [
    getMaintenanceDashboard |->
        Reads(WorkOrderActors({"maintenance.view"}), {"workOrder", "sla"}),
    getMaintenanceWorkOrders |-> Reads(WorkOrderActors({"maintenance.view"}), {"workOrder"}),
    getMaintenanceWorkOrder |->
        Reads(WorkOrderActors({"maintenance.view"}),
              {"workOrder", "assignment", "sla", "escalation", "ticket", "link"}),
    createMaintenanceWorkOrder |->
        Writes(WorkOrderActors({"maintenance.create"}), {"workOrder", "workOrderHistory", "sla"}),
    updateMaintenanceWorkOrder |->
        Writes(WorkOrderActors({"maintenance.update"}), {"workOrder", "workOrderHistory"}),
    getMaintenanceHistory |-> Reads(WorkOrderActors({"maintenance.view"}), {"workOrderHistory"}),
    getMaintenanceFormOptions |-> Reads(hasPermission("settings.view"), MasterDataResources)]

MaintenanceWorkflowRequests == [
    submitWorkOrder |->
        Writes(WorkOrderActors({"maintenance.submit"}), {"workOrder", "workOrderHistory", "sla"}),
    startWorkOrder |-> WorkflowWrites("maintenance.start"),
    holdWorkOrder |-> WorkflowWrites("maintenance.hold"),
    resumeWorkOrder |-> WorkflowWrites("maintenance.resume"),
    completeWorkOrder |-> WorkflowWrites("maintenance.complete"),
    cancelWorkOrder |-> WorkflowWrites("maintenance.cancel"),
    reopenWorkOrder |-> WorkflowWrites("maintenance.reopen")]

AssignmentSlaRequests == [
    assignWorkOrder |-> AssignmentWrites("maintenance.assign"),
    reassignWorkOrder |-> AssignmentWrites("maintenance.reassign"),
    unassignWorkOrder |-> AssignmentWrites("maintenance.unassign"),
    getWorkOrderAssignments |->
        Reads(WorkOrderActors({"maintenance.view_assignment"}), {"assignment"}),
    getWorkOrderAssignmentCandidates |->
        Reads(WorkOrderActors({"maintenance.view_assignment", "maintenance.assign",
                               "maintenance.reassign"}), {"user"}),
    getWorkOrderSLA |-> Reads(WorkOrderActors({"maintenance.view_sla"}), {"sla"}),
    recalculateWorkOrderSLA |->
        Writes(WorkOrderActors({"maintenance.recalculate_sla"}), {"sla"}),
    getWorkOrderEscalations |->
        Reads(WorkOrderActors({"maintenance.view_escalation"}), {"escalation"}),
    acknowledgeWorkOrderEscalation |->
        Writes(WorkOrderActors({"maintenance.acknowledge_escalation"}),
               {"escalation", "workOrderHistory"}),
    resolveWorkOrderEscalation |->
        Writes(WorkOrderActors({"maintenance.resolve_escalation"}),
               {"escalation", "workOrderHistory"})]

\* services/api/inspection.ts, with the permission checks of the inspection views.
InspectionActors(codes) == hasAnyPermission({"inspection.manage"} \cup codes)
InspectionWrites(code) == Writes(InspectionActors({code}), {"inspection"})

InspectionRequests == [
    getInspections |-> Reads(InspectionActors({"inspection.view"}), {"inspection"}),
    getInspection |->
        Reads(InspectionActors({"inspection.view"}),
              {"inspection", "finding", "correctiveAction", "inspectionAi", "link"}),
    createInspection |-> InspectionWrites("inspection.create"),
    updateInspection |-> InspectionWrites("inspection.update"),
    getInspectionFormOptions |-> Reads(hasPermission("settings.view"), MasterDataResources),
    saveInspectionAIAnalysis |->
        Writes(InspectionActors({"inspection.update"}), {"inspectionAi"})]

InspectionWorkflowRequests == [
    assignInspection |-> InspectionWrites("inspection.assign"),
    startInspection |-> InspectionWrites("inspection.update"),
    completeInspection |-> InspectionWrites("inspection.complete"),
    verifyInspection |-> InspectionWrites("inspection.verify"),
    cancelInspection |-> InspectionWrites("inspection.update"),
    reopenInspection |-> InspectionWrites("inspection.update")]

FindingRequests == [
    createInspectionFinding |-> Writes(InspectionActors({"inspection.update"}), {"finding"}),
    updateInspectionFinding |-> Writes(InspectionActors({"inspection.update"}), {"finding"}),
    deleteInspectionFinding |->
        Writes(InspectionActors({"inspection.delete"}), {"finding", "correctiveAction"}),
    createInspectionCorrectiveAction |->
        Writes(InspectionActors({"inspection.manage_corrective_action"}), {"correctiveAction"}),
    updateInspectionCorrectiveAction |->
        Writes(InspectionActors({"inspection.manage_corrective_action"}), {"correctiveAction"}),
    deleteInspectionCorrectiveAction |->
        Writes(InspectionActors({"inspection.delete"}), {"correctiveAction"})]

---------------------------------------------------------------------------
\* The keys.

maintenanceQueryKeys == [
    all |-> <<"maintenance">>,
    dashboard |-> <<"maintenance", "dashboard", "params">>,
    list |-> <<"maintenance", "list", "params">>,
    formOptions |-> <<"maintenance", "form-options">>,
    detail |-> <<"maintenance", "detail", "w">>,
    history |-> <<"maintenance", "history", "w">>,
    assignments |-> <<"maintenance", "assignments", "w">>,
    assignmentCandidates |-> <<"maintenance", "assignment-candidates", "w">>,
    sla |-> <<"maintenance", "sla", "w">>,
    escalations |-> <<"maintenance", "escalations", "w">>]

inspectionQueryKeys == [
    all |-> <<"inspection">>,
    list |-> <<"inspection", "list", "params">>,
    formOptions |-> <<"inspection", "form-options">>,
    detail |-> <<"inspection", "detail", "s">>,
    findings |-> <<"inspection", "findings", "s">>,
    history |-> <<"inspection", "history", "s">>,
    correctiveActions |-> <<"inspection", "corrective-actions", "s">>,
    aiAnalysis |-> <<"inspection", "ai-analysis", "s">>]

---------------------------------------------------------------------------
\* The hooks of maintenance.

MaintenanceQueries ==
    LET k == maintenanceQueryKeys IN [
    useMaintenanceDashboard |-> Query(k.dashboard, "getMaintenanceDashboard"),
    useMaintenanceList |-> Query(k.list, "getMaintenanceWorkOrders"),
    useMaintenanceDetail |-> Query(k.detail, "getMaintenanceWorkOrder"),
    useMaintenanceHistory |-> Query(k.history, "getMaintenanceHistory"),
    useMaintenanceFormOptions |-> Query(k.formOptions, "getMaintenanceFormOptions")]

WorkOrderAssignmentQueries ==
    LET k == maintenanceQueryKeys IN [
    useWorkOrderAssignments |-> Query(k.assignments, "getWorkOrderAssignments"),
    useWorkOrderAssignmentCandidates |->
        Query(k.assignmentCandidates, "getWorkOrderAssignmentCandidates")]
useWorkOrderSLA == [useWorkOrderSLA |-> Query(maintenanceQueryKeys.sla, "getWorkOrderSLA")]
useWorkOrderEscalations ==
    [useWorkOrderEscalations |->
        Query(maintenanceQueryKeys.escalations, "getWorkOrderEscalations")]

\* The transitions that move the source ticket also invalidate the ticket.
useMaintenanceWorkflowMutation(request, sourceTicketId) ==
    LET k == maintenanceQueryKeys
        ticketKeys == {<<"fm-tickets", "f">>, <<"fm-tickets", "f", "history">>, <<"fm-tickets">>}
    IN Mutation(request,
           AllAtOnce({k.all, k.detail, k.history, k.assignments, k.sla, k.escalations,
                      <<"notifications">>} \cup (IF sourceTicketId THEN ticketKeys ELSE {})))

MaintenanceMutations ==
    LET k == maintenanceQueryKeys IN [
    useCreateMaintenanceWorkOrder |->
        Mutation("createMaintenanceWorkOrder", OneByOne(<<k.all>>)),
    useUpdateMaintenanceWorkOrder |->
        Mutation("updateMaintenanceWorkOrder", OneByOne(<<k.all, k.detail>>))]

WorkOrderTransitions == [
    useSubmitWorkOrder |-> useMaintenanceWorkflowMutation("submitWorkOrder", FALSE),
    useStartWorkOrder |-> useMaintenanceWorkflowMutation("startWorkOrder", TRUE),
    useHoldWorkOrder |-> useMaintenanceWorkflowMutation("holdWorkOrder", TRUE),
    useResumeWorkOrder |-> useMaintenanceWorkflowMutation("resumeWorkOrder", TRUE),
    useCompleteWorkOrder |-> useMaintenanceWorkflowMutation("completeWorkOrder", TRUE),
    useCancelWorkOrder |-> useMaintenanceWorkflowMutation("cancelWorkOrder", TRUE),
    useReopenWorkOrder |-> useMaintenanceWorkflowMutation("reopenWorkOrder", TRUE)]

WorkOrderOwnership == [
    useAssignWorkOrder |-> useMaintenanceWorkflowMutation("assignWorkOrder", FALSE),
    useReassignWorkOrder |-> useMaintenanceWorkflowMutation("reassignWorkOrder", FALSE),
    useUnassignWorkOrder |-> useMaintenanceWorkflowMutation("unassignWorkOrder", FALSE)]
useRecalculateWorkOrderSLA == [useRecalculateWorkOrderSLA |->
    useMaintenanceWorkflowMutation("recalculateWorkOrderSLA", FALSE)]
EscalationMutations == [
    useAcknowledgeWorkOrderEscalation |->
        useMaintenanceWorkflowMutation("acknowledgeWorkOrderEscalation", FALSE),
    useResolveWorkOrderEscalation |->
        useMaintenanceWorkflowMutation("resolveWorkOrderEscalation", FALSE)]

---------------------------------------------------------------------------
\* The hooks of inspections.

InspectionQueries ==
    LET k == inspectionQueryKeys IN [
    useInspectionList |-> Query(k.list, "getInspections"),
    useInspectionDetail |-> Query(k.detail, "getInspection"),
    useInspectionFormOptions |-> Query(k.formOptions, "getInspectionFormOptions")]

useInspectionWorkflowMutation(request) ==
    LET k == inspectionQueryKeys IN Mutation(request, AllAtOnce({k.all, k.detail, k.history}))
useInspectionRecordMutation(request) ==
    LET k == inspectionQueryKeys IN
    Mutation(request, AllAtOnce({k.all, k.detail, k.findings, k.correctiveActions}))
useSaveInspectionAIAnalysis ==
    LET k == inspectionQueryKeys IN
    Mutation("saveInspectionAIAnalysis",
             AllAtOnce({k.all, k.detail, k.aiAnalysis, k.history}))

InspectionMutations ==
    LET k == inspectionQueryKeys IN [
    useCreateInspection |-> Mutation("createInspection", OneByOne(<<k.all>>)),
    useUpdateInspection |-> Mutation("updateInspection", OneByOne(<<k.all, k.detail>>)),
    useSaveInspectionAIAnalysis |-> useSaveInspectionAIAnalysis]

InspectionTransitions == [
    useAssignInspection |-> useInspectionWorkflowMutation("assignInspection"),
    useStartInspection |-> useInspectionWorkflowMutation("startInspection"),
    useCompleteInspection |-> useInspectionWorkflowMutation("completeInspection"),
    useVerifyInspection |-> useInspectionWorkflowMutation("verifyInspection"),
    useCancelInspection |-> useInspectionWorkflowMutation("cancelInspection"),
    useReopenInspection |-> useInspectionWorkflowMutation("reopenInspection")]

FindingMutations == [
    useCreateInspectionFinding |-> useInspectionRecordMutation("createInspectionFinding"),
    useUpdateInspectionFinding |-> useInspectionRecordMutation("updateInspectionFinding"),
    useDeleteInspectionFinding |-> useInspectionRecordMutation("deleteInspectionFinding")]
CorrectiveActionMutations == [
    useCreateInspectionCorrectiveAction |->
        useInspectionRecordMutation("createInspectionCorrectiveAction"),
    useUpdateInspectionCorrectiveAction |->
        useInspectionRecordMutation("updateInspectionCorrectiveAction"),
    useDeleteInspectionCorrectiveAction |->
        useInspectionRecordMutation("deleteInspectionCorrectiveAction")]

=============================================================================
