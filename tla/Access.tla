------------------------------- MODULE Access -------------------------------
(***************************************************************************)
(* Roles, the permissions the seed command grants them, and the gates of   *)
(* the client: a gate is the set of the roles that pass it, so that the    *)
(* gates of the client and the checks of the server can be compared.       *)
(***************************************************************************)
EXTENDS Sequences, FiniteSets

\* The codes maintenance.x and maintenance.work_order.x are one code here: a role has both or
\* neither, so that a check of either is a check of the two.
ViewerCodes ==
    {"projects.view", "projects.tasks.view", "projects.notes.view", "projects.issues.view",
     "projects.timeline.view", "projects.progress.view", "projects.links.view",
     "projects.gantt.view", "projects.dependencies.view", "fm_tickets.view", "inspection.view",
     "reporting.view", "attachments.view", "attachments.download", "maintenance.view"}

\* The manager may all that the viewer may.
ManagerCodes ==
    {"users.directory", "settings.view", "projects.members.manage",
     "projects.dependencies.manage", "projects.notes.manage", "projects.progress.recalculate",
     "projects.links.manage", "projects.create", "projects.update", "projects.delete",
     "projects.manage", "projects.tasks.create", "projects.tasks.update",
     "projects.tasks.delete", "projects.tasks.assign", "projects.tasks.comment",
     "projects.tasks.manage", "projects.issues.manage", "projects.issues.comment",
     "fm_tickets.create", "fm_tickets.update", "fm_tickets.assign", "fm_tickets.close",
     "attachments.upload", "attachments.delete", "maintenance.update", "maintenance.start",
     "maintenance.hold", "maintenance.resume", "maintenance.complete",
     "maintenance.view_assignment", "maintenance.view_sla", "maintenance.view_escalation",
     "maintenance.acknowledge_escalation", "maintenance.resolve_escalation",
     "maintenance.assign", "maintenance.reassign", "maintenance.unassign", "maintenance.create",
     "maintenance.submit", "maintenance.recalculate_sla", "maintenance.cancel",
     "maintenance.reopen"}
    \cup ViewerCodes

AdministratorCodes ==
    {"users.view", "users.create", "users.update", "users.delete", "roles.view", "roles.manage",
     "settings.manage", "fm_tickets.manage", "maintenance.manage", "inspection.create",
     "inspection.update", "inspection.delete", "inspection.complete", "inspection.verify",
     "inspection.assign", "inspection.view_ai", "inspection.manage_corrective_action",
     "inspection.manage"}
    \cup ManagerCodes

TechnicianCodes ==
    {"projects.view", "projects.tasks.view", "projects.notes.view", "projects.issues.view",
     "projects.timeline.view", "projects.progress.view", "projects.links.view",
     "projects.tasks.update", "projects.tasks.comment", "projects.issues.report",
     "projects.issues.comment", "fm_tickets.view", "fm_tickets.update", "inspection.view",
     "inspection.update", "inspection.complete", "inspection.view_ai", "attachments.upload",
     "attachments.view", "attachments.download", "maintenance.view", "maintenance.update",
     "maintenance.start", "maintenance.hold", "maintenance.resume", "maintenance.complete",
     "maintenance.view_assignment", "maintenance.view_sla", "maintenance.view_escalation",
     "maintenance.acknowledge_escalation", "maintenance.resolve_escalation"}

EmployeeCodes ==
    {"fm_tickets.view", "fm_tickets.create", "attachments.upload", "attachments.view",
     "attachments.download", "attachments.delete"}

\* The permissions a role has after the seed: the inspector is defined but granted nothing.
RolePermissions ==
    [system_admin |-> AdministratorCodes, facility_manager |-> ManagerCodes, inspector |-> {},
     technician |-> TechnicianCodes, employee |-> EmployeeCodes, viewer |-> ViewerCodes]

Roles == {"system_admin", "facility_manager", "inspector", "technician", "employee", "viewer"}

---------------------------------------------------------------------------
\* Gates.

hasAnyPermission(codes) == {r \in Roles : codes \cap RolePermissions[r] # {}}
hasAllPermissions(codes) == {r \in Roles : codes \subseteq RolePermissions[r]}
hasPermission(code) == {r \in Roles : code \in RolePermissions[r]}

\* A signed-in user, whatever the role.
Anyone == Roles

\* The role of a user in the employee's view of the tickets, and of one in the technician's
\* view of the projects (each user has one role here).
isEmployeeRequesterMode ==
    {r \in Roles : r = "employee" /\ RolePermissions[r] \cap
        {"fm_tickets.update", "fm_tickets.assign", "fm_tickets.close", "fm_tickets.manage"} = {}}
usesProjectWorkspaceMode == {"technician"} \ hasPermission("projects.manage")

\* The library of the files of no record is for whoever may do anything with attachments.
AttachmentUsers ==
    hasAnyPermission({"attachments.view", "attachments.upload", "attachments.download",
                      "attachments.delete"})

\* A list of (name, gate) pairs: each of the names, behind the gate.
Behind(gate, names) == {<<n, gate>> : n \in names}
Always(names) == Behind(Anyone, names)

=============================================================================
