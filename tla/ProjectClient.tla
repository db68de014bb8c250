--------------------------- MODULE ProjectClient ---------------------------
(***************************************************************************)
(* The project workspace of the client: the requests it makes (with what   *)
(* the server lets through and what each reads or changes), the keys of    *)
(* its cached queries, its mutations with the queries each refreshes, and  *)
(* its screens. One project "p" with one task "t", note "n", issue "i" and *)
(* link "l" stands for all of them.                                        *)
(***************************************************************************)
EXTENDS ClientTables

---------------------------------------------------------------------------
\* Who passes the permission checks of the project views.

ProjectActors(codes) == hasAnyPermission({"projects.manage"} \cup codes)
TaskActors(codes) ==
    hasAnyPermission({"projects.manage", "projects.tasks.manage"} \cup codes)

ProjectReaders == ProjectActors({"projects.view", "projects.tasks.view"})
MemberReaders == ProjectActors({"projects.view"})
TaskReaders == TaskActors({"projects.tasks.view", "projects.view"})
ScheduleReaders ==
    ProjectActors({"projects.view", "projects.gantt.view", "projects.dependencies.view"})
TaskScheduleReaders == ScheduleReaders \cup TaskReaders
PartReaders(view, manage) == ProjectActors({"projects.view", view, manage})
TimelineReaders == ProjectActors({"projects.view", "projects.timeline.view"})
ProgressReaders == ProjectActors({"projects.view", "projects.progress.view"})
NoteReaders == PartReaders("projects.notes.view", "projects.notes.manage")
IssueReaders == PartReaders("projects.issues.view", "projects.issues.manage")
LinkReaders == PartReaders("projects.links.view", "projects.links.manage")
NoteManagers == ProjectActors({"projects.notes.manage"})
LinkManagers == ProjectActors({"projects.links.manage"})
TaskWorkers == TaskActors({"projects.tasks.update"})
TaskCommenters == TaskActors({"projects.tasks.update", "projects.tasks.comment"})
IssueReporters == ProjectActors({"projects.issues.report", "projects.issues.manage"})
IssueCommenters == ProjectActors({"projects.issues.comment", "projects.issues.manage"})

---------------------------------------------------------------------------
\* The requests of services/api/projects.ts. A change of a task is recorded in the history and
\* recalculates the accomplishment of the project, with a snapshot when it changes.

TaskChange == {"task", "history", "completion", "snapshot"}

ProjectRequests == [
    getProjectList |-> Reads(ProjectReaders, {"project", "completion", "task"}),
    getProjectDetail |->
        Reads(ProjectReaders, {"project", "completion", "member", "history", "task"}),
    getProjectMetrics |-> Reads(ProjectReaders, {"project"}),
    getMyWorkDashboard |-> Reads(ProjectReaders, {"project", "task", "dependency", "issue"}),
    getMyWorkTaskList |-> Reads(ProjectReaders, {"project", "task", "dependency"}),
    createProject |-> Writes(ProjectActors({"projects.create"}),
                             {"project", "member", "history"}),
    updateProject |-> Writes(ProjectActors({"projects.update"}),
                             {"project", "member", "history"}),
    deleteProject |-> Writes(ProjectActors({"projects.delete"}), {"project", "history"}),
    getProjectHistory |-> Reads(ProjectReaders, {"history"}),
    getProjectMembers |-> Reads(MemberReaders, {"member"}),
    getProjectFormOptions |->
        Reads(hasPermission("settings.view"), {"organizations", "buildings"}),
    getProjectTaskSummary |-> Reads(ProjectReaders, {"task"})]

TaskRequests == [
    getProjectTaskList |-> Reads(TaskReaders, {"task", "dependency"}),
    getProjectTaskDetail |->
        Reads(TaskReaders, {"task", "dependency", "checklist", "taskComment"}),
    createProjectTask |-> Writes(TaskActors({"projects.tasks.create"}), TaskChange),
    updateProjectTask |-> Writes(TaskWorkers, TaskChange),
    deleteProjectTask |-> Writes(TaskActors({"projects.tasks.delete"}), TaskChange),
    assignProjectTask |-> Writes(TaskActors({"projects.tasks.assign"}), {"task", "history"}),
    startProjectTask |-> Writes(TaskWorkers, TaskChange),
    pauseProjectTask |-> Writes(TaskWorkers, TaskChange),
    resumeProjectTask |-> Writes(TaskWorkers, TaskChange),
    completeProjectTask |-> Writes(TaskWorkers, TaskChange),
    updateProjectTaskProgress |-> Writes(TaskWorkers, TaskChange),
    reportProjectTaskBlocker |-> Writes(IssueReporters, TaskChange \cup {"issue"}),
    reorderProjectTasks |-> Writes(TaskWorkers, {"task", "history"})]

ChecklistRequests == [
    getProjectTaskChecklist |-> Reads(TaskReaders, {"checklist"}),
    createProjectTaskChecklistItem |-> Writes(TaskWorkers, {"checklist", "history"}),
    updateProjectTaskChecklistItem |-> Writes(TaskWorkers, {"checklist", "history"}),
    deleteProjectTaskChecklistItem |-> Writes(TaskWorkers, {"checklist", "history"}),
    getProjectTaskComments |-> Reads(TaskReaders, {"taskComment"}),
    createProjectTaskComment |-> Writes(TaskCommenters, {"taskComment", "history"}),
    deleteProjectTaskComment |-> Writes(TaskCommenters, {"taskComment", "history"})]

ScheduleRequests == [
    getProjectGantt |-> Reads(ScheduleReaders, {"project", "task", "dependency"}),
    getProjectDependencies |-> Reads(ScheduleReaders, {"task", "dependency"}),
    createProjectDependency |->
        Writes(TaskActors({"projects.dependencies.manage"}),
               {"dependency", "history"}),
    deleteProjectDependency |->
        Writes(TaskActors({"projects.dependencies.manage"}),
               {"dependency", "history"}),
    getProjectTaskPredecessors |-> Reads(TaskScheduleReaders, {"task", "dependency"}),
    getProjectTaskSuccessors |-> Reads(TaskScheduleReaders, {"task", "dependency"}),
    getProjectTaskDependencyReadiness |-> Reads(TaskScheduleReaders, {"task", "dependency"}),
    getProjectTimeline |-> Reads(TimelineReaders, {"history"}),
    getProjectProgress |->
        Reads(ProgressReaders, {"completion", "task", "dependency", "issue"}),
    getProjectProgressHistory |-> Reads(ProgressReaders, {"snapshot"}),
    recalculateProjectProgress |->
        Writes(ProjectActors({"projects.progress.recalculate"}),
               {"completion", "snapshot", "history"})]

NoteIssueRequests == [
    getProjectNoteList |-> Reads(NoteReaders, {"note"}),
    getProjectNoteDetail |-> Reads(NoteReaders, {"note"}),
    createProjectNote |-> Writes(NoteManagers, {"note", "history"}),
    updateProjectNote |-> Writes(NoteManagers, {"note", "history"}),
    deleteProjectNote |-> Writes(NoteManagers, {"note", "history"}),
    getProjectIssueList |-> Reads(IssueReaders, {"issue", "issueComment"}),
    getProjectIssueDetail |-> Reads(IssueReaders, {"issue", "issueComment"}),
    createProjectIssue |-> Writes(IssueReporters, {"issue", "history"}),
    updateProjectIssue |-> Writes(IssueReporters, {"issue", "history"}),
    deleteProjectIssue |-> Writes(IssueReporters, {"issue", "history"}),
    getProjectIssueComments |-> Reads(IssueReaders, {"issueComment"}),
    createProjectIssueComment |-> Writes(IssueCommenters, {"issueComment", "history"}),
    deleteProjectIssueComment |-> Writes(IssueCommenters, {"issueComment", "history"})]

LinkRequests == [
    getProjectLinkList |-> Reads(LinkReaders, {"link"}),
    getProjectLinkDetail |-> Reads(LinkReaders, {"link"}),
    createProjectLink |-> Writes(LinkManagers, {"link", "history"}),
    updateProjectLink |-> Writes(LinkManagers, {"link", "history"}),
    deleteProjectLink |-> Writes(LinkManagers, {"link", "history"}),
    getProjectLinkOptions |-> Reads(LinkReaders, {"link"}),
    getProjectManagerAssignmentOptions |->
        Reads(ProjectActors({"projects.create", "projects.update", "projects.view"}), {"user"}),
    getProjectTaskPicAssignmentOptions |->
        Reads(TaskActors({"projects.tasks.assign", "projects.tasks.create",
                          "projects.tasks.update", "projects.update", "projects.view"}),
              {"user", "member"})]

---------------------------------------------------------------------------
\* The keys of the cached queries: ids as "p", "t", ..., a parameter object as "params". A shorter
\* key matches every key it begins.

ProjectKeys == [
    all |-> <<"projects">>,
    list |-> <<"projects", "list", "params">>,
    metrics |-> <<"projects", "metrics", "params">>,
    myWork |-> <<"projects", "my-work", "params">>,
    myWorkTasks |-> <<"projects", "my-work", "tasks", "params">>,
    formOptions |-> <<"projects", "form-options">>,
    detail |-> <<"projects", "detail", "p">>,
    history |-> <<"projects", "history", "p">>,
    members |-> <<"projects", "members", "p">>,
    projectManagerOptions |->
        <<"projects", "assignment-options", "project-managers", "params">>,
    taskPicOptions |-> <<"projects", "p", "assignment-options", "task-pic", "params">>,
    taskSummary |-> <<"projects", "task-summary", "p">>,
    tasks |-> <<"projects", "p", "tasks">>,
    taskList |-> <<"projects", "p", "tasks", "list", "params">>,
    taskDetail |-> <<"projects", "p", "tasks", "detail", "t">>,
    taskChecklist |-> <<"projects", "p", "tasks", "t", "checklist">>,
    taskComments |-> <<"projects", "p", "tasks", "t", "comments">>,
    gantt |-> <<"projects", "p", "gantt">>,
    dependencies |-> <<"projects", "p", "dependencies">>,
    taskPredecessors |-> <<"projects", "p", "tasks", "t", "predecessors">>,
    taskSuccessors |-> <<"projects", "p", "tasks", "t", "successors">>,
    taskDependencyReadiness |-> <<"projects", "p", "tasks", "t", "dependency-readiness">>,
    timeline |-> <<"projects", "p", "timeline">>,
    timelineList |-> <<"projects", "p", "timeline", "list", "params">>,
    progress |-> <<"projects", "p", "progress">>,
    progressHistory |-> <<"projects", "p", "progress-history", "params">>,
    notes |-> <<"projects", "p", "notes">>,
    noteList |-> <<"projects", "p", "notes", "list", "params">>,
    noteDetail |-> <<"projects", "p", "notes", "detail", "n">>,
    issues |-> <<"projects", "p", "issues">>,
    issueList |-> <<"projects", "p", "issues", "list", "params">>,
    issueDetail |-> <<"projects", "p", "issues", "detail", "i">>,
    issueComments |-> <<"projects", "p", "issues", "i", "comments">>,
    links |-> <<"projects", "p", "links">>,
    linkList |-> <<"projects", "p", "links", "list", "params">>,
    linkDetail |-> <<"projects", "p", "links", "detail", "l">>,
    linkOptions |-> <<"projects", "p", "link-options", "params">>]

---------------------------------------------------------------------------
\* hooks/use-projects.ts: the queries, the mutations, and the keys a change invalidates.

PortfolioQueries == [
    useProjectList |-> Query(ProjectKeys.list, "getProjectList"),
    useProjectDetail |-> Query(ProjectKeys.detail, "getProjectDetail"),
    useProjectMetrics |-> Query(ProjectKeys.metrics, "getProjectMetrics"),
    useMyWorkDashboard |-> Query(ProjectKeys.myWork, "getMyWorkDashboard"),
    useMyWorkTaskList |-> Query(ProjectKeys.myWorkTasks, "getMyWorkTaskList"),
    useProjectHistory |-> Query(ProjectKeys.history, "getProjectHistory"),
    useProjectMembers |-> Query(ProjectKeys.members, "getProjectMembers"),
    useProjectManagerAssignmentOptions |->
        Query(ProjectKeys.projectManagerOptions, "getProjectManagerAssignmentOptions"),
    useProjectTaskPicAssignmentOptions |->
        Query(ProjectKeys.taskPicOptions, "getProjectTaskPicAssignmentOptions"),
    useProjectFormOptions |-> Query(ProjectKeys.formOptions, "getProjectFormOptions")]

ProjectMutations == [
    useCreateProject |-> Mutation("createProject", OneByOne(<<ProjectKeys.all>>)),
    useUpdateProject |->
        Mutation("updateProject", OneByOne(<<ProjectKeys.all, ProjectKeys.detail>>)),
    useDeleteProject |-> Mutation("deleteProject", OneByOne(<<ProjectKeys.all>>))]

\* Of a change without a task id, and of one task.
invalidateProjectTasks ==
    LET k == ProjectKeys IN
    OneByOne(<<k.tasks, k.detail, k.taskSummary, k.history, k.gantt, k.dependencies, k.progress,
               <<"projects", "p", "progress-history">>, <<"projects", "my-work">>>>)

invalidateProjectTask ==
    LET k == ProjectKeys IN
    invalidateProjectTasks \o
    OneByOne(<<k.taskDetail, k.taskChecklist, k.taskComments, k.taskPredecessors,
               k.taskSuccessors, k.taskDependencyReadiness>>)

invalidateProjectDependencies ==
    LET k == ProjectKeys IN OneByOne(<<k.gantt, k.dependencies, k.tasks, k.history>>)

TaskQueries == [
    useProjectTaskSummary |-> Query(ProjectKeys.taskSummary, "getProjectTaskSummary"),
    useProjectTaskList |-> Query(ProjectKeys.taskList, "getProjectTaskList"),
    useProjectTaskDetail |-> Query(ProjectKeys.taskDetail, "getProjectTaskDetail")]

TaskMutations == [
    useCreateProjectTask |-> Mutation("createProjectTask", invalidateProjectTasks),
    useUpdateProjectTask |-> Mutation("updateProjectTask", invalidateProjectTask),
    useDeleteProjectTask |-> Mutation("deleteProjectTask", invalidateProjectTask),
    useAssignProjectTask |-> Mutation("assignProjectTask", invalidateProjectTask),
    useStartProjectTask |-> Mutation("startProjectTask", invalidateProjectTask),
    usePauseProjectTask |-> Mutation("pauseProjectTask", invalidateProjectTask),
    useResumeProjectTask |-> Mutation("resumeProjectTask", invalidateProjectTask),
    useCompleteProjectTask |-> Mutation("completeProjectTask", invalidateProjectTask),
    useUpdateProjectTaskProgress |->
        Mutation("updateProjectTaskProgress", invalidateProjectTask),
    useReportProjectTaskBlocker |->
        Mutation("reportProjectTaskBlocker",
                 invalidateProjectTask
                 \o OneByOne(<<ProjectKeys.issueList, ProjectKeys.timeline>>)),
    useReorderProjectTasks |-> Mutation("reorderProjectTasks", invalidateProjectTasks)]

ChecklistQueries == [
    useProjectTaskChecklist |-> Query(ProjectKeys.taskChecklist, "getProjectTaskChecklist"),
    useProjectTaskComments |-> Query(ProjectKeys.taskComments, "getProjectTaskComments")]

ChecklistMutations == [
    useCreateProjectTaskChecklistItem |->
        Mutation("createProjectTaskChecklistItem", invalidateProjectTask),
    useUpdateProjectTaskChecklistItem |->
        Mutation("updateProjectTaskChecklistItem", invalidateProjectTask),
    useDeleteProjectTaskChecklistItem |->
        Mutation("deleteProjectTaskChecklistItem", invalidateProjectTask),
    useCreateProjectTaskComment |-> Mutation("createProjectTaskComment", invalidateProjectTask),
    useDeleteProjectTaskComment |-> Mutation("deleteProjectTaskComment", invalidateProjectTask)]

ScheduleQueries == [
    useProjectGantt |-> Query(ProjectKeys.gantt, "getProjectGantt"),
    useProjectDependencies |-> Query(ProjectKeys.dependencies, "getProjectDependencies"),
    useProjectTaskPredecessors |->
        Query(ProjectKeys.taskPredecessors, "getProjectTaskPredecessors"),
    useProjectTaskSuccessors |-> Query(ProjectKeys.taskSuccessors, "getProjectTaskSuccessors"),
    useProjectTaskDependencyReadiness |->
        Query(ProjectKeys.taskDependencyReadiness, "getProjectTaskDependencyReadiness")]

ScheduleMutations == [
    useCreateProjectDependency |->
        Mutation("createProjectDependency", invalidateProjectDependencies),
    useDeleteProjectDependency |->
        Mutation("deleteProjectDependency", invalidateProjectDependencies)]

invalidateProjectNotes ==
    OneByOne(<<ProjectKeys.notes, ProjectKeys.timeline, ProjectKeys.history>>)
invalidateProjectNote == invalidateProjectNotes \o OneByOne(<<ProjectKeys.noteDetail>>)

\* Wrong: the lists of issues are forgotten.
invalidateIssueTimeline == OneByOne(<<ProjectKeys.timeline, ProjectKeys.history>>)

invalidateProjectIssues ==
    OneByOne(<<ProjectKeys.issues, ProjectKeys.timeline, ProjectKeys.history>>)
invalidateProjectIssue ==
    invalidateProjectIssues \o OneByOne(<<ProjectKeys.issueDetail, ProjectKeys.issueComments>>)

ProgressQueries == [
    useProjectTimeline |-> Query(ProjectKeys.timelineList, "getProjectTimeline"),
    useProjectProgress |-> Query(ProjectKeys.progress, "getProjectProgress"),
    useProjectProgressHistory |->
        Query(ProjectKeys.progressHistory, "getProjectProgressHistory")]

\* Wrong: the answer is put in the cache and a fetch under way is left to overwrite it.
ProgressMutationsPutOnly == [
    useRecalculateProjectProgress |->
        MutationPutting("recalculateProjectProgress", {ProjectKeys.progress},
                        OneByOne(<<<<"projects", "p", "progress-history">>, ProjectKeys.detail,
                                   ProjectKeys.list>>))]

\* The answer of a recalculation replaces the cached progress before the invalidations.
ProgressMutations == [
    useRecalculateProjectProgress |->
        MutationPutting("recalculateProjectProgress", {ProjectKeys.progress},
                        OneByOne(<<ProjectKeys.progress, <<"projects", "p", "progress-history">>,
                                   ProjectKeys.detail, ProjectKeys.list>>))]

NoteQueries == [
    useProjectNoteList |-> Query(ProjectKeys.noteList, "getProjectNoteList"),
    useProjectNoteDetail |-> Query(ProjectKeys.noteDetail, "getProjectNoteDetail")]

NoteMutations == [
    useCreateProjectNote |-> Mutation("createProjectNote", invalidateProjectNotes),
    useUpdateProjectNote |-> Mutation("updateProjectNote", invalidateProjectNote),
    useDeleteProjectNote |-> Mutation("deleteProjectNote", invalidateProjectNote)]

IssueQueries == [
    useProjectIssueList |-> Query(ProjectKeys.issueList, "getProjectIssueList"),
    useProjectIssueDetail |-> Query(ProjectKeys.issueDetail, "getProjectIssueDetail"),
    useProjectIssueComments |-> Query(ProjectKeys.issueComments, "getProjectIssueComments")]

IssueMutations == [
    useCreateProjectIssue |-> Mutation("createProjectIssue", invalidateProjectIssues),
    useUpdateProjectIssue |-> Mutation("updateProjectIssue", invalidateProjectIssue),
    useDeleteProjectIssue |-> Mutation("deleteProjectIssue", invalidateProjectIssue),
    useCreateProjectIssueComment |->
        Mutation("createProjectIssueComment", invalidateProjectIssue),
    useDeleteProjectIssueComment |->
        Mutation("deleteProjectIssueComment", invalidateProjectIssue)]

invalidateProjectLinks ==
    OneByOne(<<ProjectKeys.links, ProjectKeys.timeline, ProjectKeys.history>>)
invalidateProjectLink == invalidateProjectLinks \o OneByOne(<<ProjectKeys.linkDetail>>)

LinkQueries == [
    useProjectLinkList |-> Query(ProjectKeys.linkList, "getProjectLinkList"),
    useProjectLinkDetail |-> Query(ProjectKeys.linkDetail, "getProjectLinkDetail"),
    useProjectLinkOptions |-> Query(ProjectKeys.linkOptions, "getProjectLinkOptions")]

LinkMutations == [
    useCreateProjectLink |->
        Mutation("createProjectLink",
                 invalidateProjectLinks \o OneByOne(<<<<"projects", "p", "link-options">>>>)),
    useUpdateProjectLink |-> Mutation("updateProjectLink", invalidateProjectLink),
    useDeleteProjectLink |->
        Mutation("deleteProjectLink",
                 invalidateProjectLink \o OneByOne(<<<<"projects", "p", "link-options">>>>))]

=============================================================================
