--------------------------- MODULE ProjectScreens ---------------------------
(***************************************************************************)
(* The screens of the project workspace: what each reads, offers and links *)
(* to, behind which gate, and the pages that show them.                    *)
(***************************************************************************)
EXTENDS ProjectClient, AttachmentClient

\* The client's own gates (lib/projects).

canCreateProject == ProjectActors({"projects.create"})
canUpdateProject == ProjectActors({"projects.update"})

\* Wrong: the button is shown to whoever sees the project.
canDeleteProjectLikeView == hasPermission("projects.view")

canDeleteProject == ProjectActors({"projects.delete"})
canCreateProjectTask == TaskActors({"projects.tasks.create"})
canUpdateProjectTask == TaskActors({"projects.tasks.update"})
canDeleteProjectTask == TaskActors({"projects.tasks.delete"})
canAssignProjectTask == TaskActors({"projects.tasks.assign"})
canCommentOnProjectTask == TaskActors({"projects.tasks.update", "projects.tasks.comment"})
canManageProjectIssues == ProjectActors({"projects.issues.manage"})
canCommentOnProjectIssue ==
    ProjectActors({"projects.issues.comment", "projects.issues.manage"})
canReportProjectIssue ==
    ProjectActors({"projects.issues.report", "projects.issues.manage"})
canManageProjectNotes == ProjectActors({"projects.notes.manage"})
canManageProjectLinks == ProjectActors({"projects.links.manage"})
canManageProjectDependencies ==
    TaskActors({"projects.dependencies.manage"})
canRecalculateProjectProgress ==
    ProjectActors({"projects.progress.recalculate"})
canOpenLinkedProject ==
    ProjectActors({"projects.view", "projects.links.view", "projects.links.manage"})
canTechnicianEditFullTaskForm == canUpdateProjectTask \ usesProjectWorkspaceMode

\* A linked record has an address only for who may view the record.
getProjectLinkTargetHref ==
    {<<"/fm-tickets/f", hasAnyPermission({"fm_tickets.view", "fm_tickets.manage"})>>,
     <<"/maintenance/work-orders/w",
       hasAnyPermission({"maintenance.view", "maintenance.manage"})>>,
     <<"/inspection/inspections/s", hasAnyPermission({"inspection.view", "inspection.manage"})>>}

---------------------------------------------------------------------------
\* Sections shared by several screens.

LinkedProjectsSection == Links(Behind(canOpenLinkedProject, {"/projects/p"}))

ProjectAttachments ==
    Section("project", hasPermission("projects.update") \cup hasPermission("projects.manage"),
            Deleters)
ProjectTaskAttachments == Section("project_task", canUpdateProjectTask, Deleters)
ProjectNoteAttachments == Section("project_note", canManageProjectNotes, Deleters)
ProjectIssueAttachments ==
    Section("project_issue", canManageProjectIssues,
            Deleters \cap canManageProjectIssues \cap hasPermission("attachments.upload"))

---------------------------------------------------------------------------
\* My work.

QuickActionButtons == Offers(Behind(canUpdateProjectTask,
    {"useStartProjectTask", "usePauseProjectTask", "useResumeProjectTask"}))
TaskCard == QuickActionButtons ++ Links(Always({"/projects/p/tasks/t"}))
ProjectCard == Links(Always({"/projects/p"}))

MyWorkDashboardScreen ==
    Screen(Always({"useMyWorkDashboard"}), {"useMyWorkDashboard"}, {},
           Always({"/my-work/tasks", "/projects/p/issues/i"}))
    ++ TaskCard ++ ProjectCard
MyWorkTaskListScreen ==
    Screen(Always({"useMyWorkTaskList"}), {}, {}, Always({"/my-work", "/projects/p/tasks/t"}))

---------------------------------------------------------------------------
\* Projects.

ProjectMobileCard == Links(Always({"/projects/p"}))
ProjectListScreen ==
    Screen(Always({"useProjectList", "useProjectMetrics", "list.organizations", "list.buildings"}), {}, {},
           Behind(canCreateProject \ usesProjectWorkspaceMode, {"/projects/new"}))
    ++ ProjectMobileCard

TaskSummarySection == Links(Always(
    {"/projects/p/tasks", "/projects/p/gantt", "/projects/p/progress", "/projects/p/timeline",
     "/projects/p/notes", "/projects/p/issues", "/projects/p/links"}))
ProgressSummarySection == Links(Always({"/projects/p/tasks/t", "/projects/p/progress"}))
ProjectDetailScreen ==
    Screen(Always({"useProjectDetail", "useProjectProgress"}), {"useProjectDetail"},
           Behind(canDeleteProject, {"useDeleteProject"}),
           Always({"/projects"}) \cup Behind(canUpdateProject, {"/projects/p/edit"}))
    ++ TaskSummarySection ++ ProgressSummarySection ++ ProjectAttachments

ProjectBreadcrumbs == Links(Always({"/projects"}))
ProjectForm == Shows(Always({"useProjectManagerAssignmentOptions"}))
ProjectCreatePageContent ==
    Shows(Always({"useProjectFormOptions"}))
    ++ Inside(canCreateProject,
              Screen({}, {"useProjectFormOptions"}, Always({"useCreateProject"}),
                     Always({"/projects/p"}))
              ++ ProjectForm ++ ProjectBreadcrumbs)
ProjectEditPageContent ==
    Shows(Always({"useProjectDetail", "useProjectFormOptions"}))
    ++ Inside(canUpdateProject,
              Screen({}, {"useProjectDetail", "useProjectFormOptions"},
                     Always({"useUpdateProject"}), Always({"/projects/p"}))
              ++ ProjectForm ++ ProjectBreadcrumbs)

---------------------------------------------------------------------------
\* Tasks.

TaskMobileCard == Links(Always({"/projects/p/tasks/t"}))
ProjectTaskListScreen ==
    Screen(Always({"useProjectDetail", "useProjectTaskList"}), {}, {},
           Always({"/projects/p", "/projects/p/gantt"})
           \cup Behind(canCreateProjectTask, {"/projects/p/tasks/new"}))
    ++ TaskMobileCard

ProjectTaskExecutionPanel == Offers(Behind(canUpdateProjectTask,
    {"useStartProjectTask", "usePauseProjectTask", "useResumeProjectTask",
     "useCompleteProjectTask", "useUpdateProjectTaskProgress"})
    \cup Behind(canUpdateProjectTask \cap canReportProjectIssue, {"useReportProjectTaskBlocker"}))
ProjectTaskChecklist == Offers(Behind(canUpdateProjectTask,
    {"useCreateProjectTaskChecklistItem", "useUpdateProjectTaskChecklistItem",
     "useDeleteProjectTaskChecklistItem"}))
ProjectTaskComments == Offers(Behind(canCommentOnProjectTask, {"useCreateProjectTaskComment"}))
DependencyLinkList == Links(Always({"/projects/p/tasks/t"}))

ProjectTaskDetailScreen ==
    Screen(Always({"useProjectTaskDetail", "useProjectTaskPicAssignmentOptions",
                   "useProjectHistory", "useProjectTaskPredecessors", "useProjectTaskSuccessors",
                   "useProjectTaskDependencyReadiness", "useProjectLinkList"}),
           {"useProjectTaskDetail"},
           Behind(canDeleteProjectTask \ usesProjectWorkspaceMode, {"useDeleteProjectTask"})
           \cup Behind(canAssignProjectTask \ usesProjectWorkspaceMode, {"useAssignProjectTask"}),
           Always({"/projects/p/tasks", "/projects/p", "/projects/p/gantt"})
           \cup Behind(canTechnicianEditFullTaskForm, {"/projects/p/tasks/t/edit"})
           \cup Behind(canManageProjectLinks \ usesProjectWorkspaceMode, {"/projects/p/links"})
           \cup getProjectLinkTargetHref)
    ++ ProjectTaskExecutionPanel ++ ProjectTaskChecklist ++ ProjectTaskComments
    ++ DependencyLinkList ++ ProjectTaskAttachments

TaskBreadcrumbs == Links(Always({"/projects", "/projects/p", "/projects/p/tasks"}))
ProjectTaskForm == Shows(Always({"useProjectTaskPicAssignmentOptions"}))
ProjectTaskCreatePageContent ==
    Shows(Always({"useProjectDetail"}))
    ++ Inside(canCreateProjectTask,
              Screen({}, {"useProjectDetail"}, Always({"useCreateProjectTask"}),
                     Always({"/projects/p/tasks/t"}))
              ++ ProjectTaskForm ++ TaskBreadcrumbs)
ProjectTaskEditPageContent ==
    Shows(Always({"useProjectDetail", "useProjectTaskDetail"}))
    ++ Inside(canUpdateProjectTask,
              Screen({}, {"useProjectDetail", "useProjectTaskDetail"},
                     Always({"useUpdateProjectTask"}), Always({"/projects/p/tasks/t"}))
              ++ ProjectTaskForm ++ TaskBreadcrumbs)

---------------------------------------------------------------------------
\* Notes and issues.

NoteMobileCard ==
    Screen({}, {}, {}, Always({"/projects/p/notes/n"})
                       \cup Behind(canManageProjectNotes, {"/projects/p/notes/n/edit"}))
ProjectNotesListScreen ==
    Screen(Always({"useProjectDetail", "useProjectNoteList"}), {"useProjectNoteList"},
           Behind(canManageProjectNotes, {"useDeleteProjectNote"}),
           Always({"/projects/p", "/projects/p/timeline"})
           \cup Behind(canManageProjectNotes, {"/projects/p/notes/new"}))
    ++ NoteMobileCard
ProjectNoteDetailScreen ==
    Screen(Always({"useProjectDetail", "useProjectNoteDetail"}),
           {"useProjectDetail", "useProjectNoteDetail"},
           Behind(canManageProjectNotes, {"useDeleteProjectNote"}),
           Always({"/projects/p/notes"})
           \cup Behind(canManageProjectNotes, {"/projects/p/notes/n/edit"}))
    ++ ProjectNoteAttachments

NoteBreadcrumbs == Links(Always({"/projects", "/projects/p", "/projects/p/notes"}))
ProjectNoteCreatePageContent ==
    Shows(Always({"useProjectDetail"}))
    ++ Inside(canManageProjectNotes,
              Screen({}, {"useProjectDetail"}, Always({"useCreateProjectNote"}),
                     Always({"/projects/p/notes/n"})) ++ NoteBreadcrumbs)
ProjectNoteEditPageContent ==
    Shows(Always({"useProjectDetail", "useProjectNoteDetail"}))
    ++ Inside(canManageProjectNotes,
              Screen({}, {"useProjectDetail", "useProjectNoteDetail"},
                     Always({"useUpdateProjectNote"}), Always({"/projects/p/notes/n"}))
              ++ NoteBreadcrumbs)

IssueMobileCard == Links(Always({"/projects/p/issues/i"}))
ProjectIssuesListScreen ==
    Screen(Always({"useProjectDetail", "useProjectIssueList"}), {}, {},
           Always({"/projects/p", "/projects/p/timeline"})
           \cup Behind(canManageProjectIssues, {"/projects/p/issues/new"}))
    ++ IssueMobileCard
ProjectIssueComments ==
    Offers(Behind(canCommentOnProjectIssue, {"useCreateProjectIssueComment"}))
ProjectIssueDetailScreen ==
    Screen(Always({"useProjectDetail", "useProjectIssueDetail"}),
           {"useProjectDetail", "useProjectIssueDetail"},
           Behind(canManageProjectIssues, {"useDeleteProjectIssue"}),
           Always({"/projects/p/issues"})
           \cup Behind(canManageProjectIssues, {"/projects/p/issues/i/edit"}))
    ++ ProjectIssueComments ++ ProjectIssueAttachments

IssueBreadcrumbs == Links(Always({"/projects", "/projects/p", "/projects/p/issues"}))
ProjectIssueCreatePageContent ==
    Shows(Always({"useProjectDetail", "useProjectMembers"}))
    ++ Inside(canManageProjectIssues,
              Screen({}, {"useProjectDetail"}, Always({"useCreateProjectIssue"}),
                     Always({"/projects/p/issues/i"})) ++ IssueBreadcrumbs)
ProjectIssueEditPageContent ==
    Shows(Always({"useProjectDetail", "useProjectIssueDetail", "useProjectMembers"}))
    ++ Inside(canManageProjectIssues,
              Screen({}, {"useProjectDetail", "useProjectIssueDetail"},
                     Always({"useUpdateProjectIssue"}), Always({"/projects/p/issues/i"}))
              ++ IssueBreadcrumbs)

---------------------------------------------------------------------------
\* Links, timeline, progress and Gantt chart.

LinkMobileCard ==
    Screen({}, {}, Behind(canManageProjectLinks, {"useUpdateProjectLink", "useDeleteProjectLink"}),
           getProjectLinkTargetHref)
ProjectLinksPageScreen ==
    Screen(Always({"useProjectDetail", "useProjectTaskList", "useProjectLinkList"})
           \cup Behind(canManageProjectLinks, {"useProjectLinkOptions"}), {},
           Behind(canManageProjectLinks, {"useCreateProjectLink"}),
           Always({"/projects/p", "/projects/p/tasks"}))
    ++ LinkMobileCard

ProjectTimelinePage ==
    Screen(Always({"useProjectDetail", "useProjectTimeline"}), {}, {},
           Always({"/projects/p", "/projects/p/notes", "/projects/p/issues"}))

TaskSummaryRow == Links(Always({"/projects/p/tasks/t"}))
ProgressDashboardBody ==
    Screen({}, {}, Behind(canRecalculateProjectProgress, {"useRecalculateProjectProgress"}),
           Always({"/projects/p/issues"})) ++ TaskSummaryRow
ProjectProgressPage ==
    Screen(Always({"useProjectDetail", "useProjectProgress", "useProjectProgressHistory"}),
           {"useProjectProgress"}, {},
           Always({"/projects/p", "/projects/p/tasks", "/projects/p/gantt", "/projects/p/timeline"}))
    ++ ProgressDashboardBody

\* The links to create a task and to edit its dates have no gate.
ProjectGanttPage ==
    Screen(Always({"useProjectGantt", "useProjectProgress", "useProjectDependencies"}),
           {"useProjectGantt"},
           Behind(canManageProjectDependencies,
                  {"useCreateProjectDependency", "useDeleteProjectDependency"}),
           Always({"/projects/p", "/projects/p/tasks", "/projects/p/progress",
                   "/projects/p/tasks/new", "/projects/p/tasks/t/edit"}))
    ++ Links(Always({"/projects/p/tasks/t"}))

---------------------------------------------------------------------------
\* The pages (app/(app)/projects, my-work, attachments).

ProjectPages ==
    LET viewers == ProjectActors({"projects.view"})
        Viewers(view) == ProjectActors({"projects.view", view})
        managers(view, manage) == ProjectActors({"projects.view", view, manage})
    IN "/projects" :> Page(viewers, ProjectListScreen)
    @@ "/projects/new" :> Page(Anyone, ProjectCreatePageContent)
    @@ "/projects/p" :> Page(viewers, ProjectDetailScreen)
    @@ "/projects/p/edit" :> Page(Anyone, ProjectEditPageContent)
    @@ "/projects/p/tasks" :> Page(Viewers("projects.tasks.view"), ProjectTaskListScreen)
    @@ "/projects/p/tasks/new" :> Page(Anyone, ProjectTaskCreatePageContent)
    @@ "/projects/p/tasks/t" :> Page(Viewers("projects.tasks.view"), ProjectTaskDetailScreen)
    @@ "/projects/p/tasks/t/edit" :> Page(Anyone, ProjectTaskEditPageContent)
    @@ "/projects/p/notes" :>
        Page(managers("projects.notes.view", "projects.notes.manage"), ProjectNotesListScreen)
    @@ "/projects/p/notes/new" :> Page(Anyone, ProjectNoteCreatePageContent)
    @@ "/projects/p/notes/n" :>
        Page(managers("projects.notes.view", "projects.notes.manage"), ProjectNoteDetailScreen)
    @@ "/projects/p/notes/n/edit" :> Page(Anyone, ProjectNoteEditPageContent)
    @@ "/projects/p/issues" :>
        Page(managers("projects.issues.view", "projects.issues.manage"), ProjectIssuesListScreen)
    @@ "/projects/p/issues/new" :> Page(Anyone, ProjectIssueCreatePageContent)
    @@ "/projects/p/issues/i" :>
        Page(managers("projects.issues.view", "projects.issues.manage"), ProjectIssueDetailScreen)
    @@ "/projects/p/issues/i/edit" :> Page(Anyone, ProjectIssueEditPageContent)
    @@ "/projects/p/links" :> Page(Viewers("projects.links.view"), ProjectLinksPageScreen)
    @@ "/projects/p/timeline" :> Page(Viewers("projects.timeline.view"), ProjectTimelinePage)
    @@ "/projects/p/progress" :> Page(Viewers("projects.progress.view"), ProjectProgressPage)
    @@ "/projects/p/gantt" :> Page(Viewers("projects.gantt.view"), ProjectGanttPage)
    @@ "/my-work" :> Page(Viewers("projects.tasks.view"), MyWorkDashboardScreen)
    @@ "/my-work/tasks" :> Page(Viewers("projects.tasks.view"), MyWorkTaskListScreen)
    @@ "/attachments" :>
        Page(AttachmentUsers,
             AttachmentWorkspaceScreen)

=============================================================================
