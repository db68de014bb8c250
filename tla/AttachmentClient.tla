-------------------------- MODULE AttachmentClient --------------------------
(***************************************************************************)
(* Attachments in the client: the requests about the files of each kind of *)
(* record, the hooks, the section each record's screen shows, and the      *)
(* library of the files of no record.                                      *)
(***************************************************************************)
EXTENDS ClientTables, TLC

\* Who the server lets see and change the files of a record, on top of the permissions on
\* attachments: an employee has only the files of their own tickets.
OwnerViewers == [
    fm_ticket |-> hasPermission("fm_tickets.view"),
    maintenance_work_order |-> hasAnyPermission({"maintenance.view", "maintenance.manage"}),
    inspection |-> hasAnyPermission({"inspection.view", "inspection.manage"}),
    project |-> hasAnyPermission({"projects.view", "projects.manage"}),
    project_task |-> hasAnyPermission({"projects.view", "projects.manage"}
                                      \cup {"projects.tasks.view", "projects.tasks.manage"}),
    project_note |-> hasAnyPermission({"projects.view", "projects.manage"}
                                      \cup {"projects.notes.view", "projects.notes.manage"}),
    project_issue |-> hasAnyPermission({"projects.view", "projects.manage"}
                                       \cup {"projects.issues.view", "projects.issues.manage"}),
    none |-> Anyone]

OwnerContributors == [
    fm_ticket |-> isEmployeeRequesterMode
                  \cup hasAnyPermission({"fm_tickets.update", "fm_tickets.manage"}),
    maintenance_work_order |-> hasAnyPermission({"maintenance.update", "maintenance.manage"}),
    inspection |-> hasAnyPermission({"inspection.update", "inspection.manage"}),
    project |-> hasAnyPermission({"projects.update", "projects.manage"}),
    project_task |-> hasAnyPermission({"projects.manage"}
                                      \cup {"projects.tasks.update", "projects.tasks.manage"}),
    project_note |-> hasAnyPermission({"projects.manage"}
                                      \cup {"projects.notes.manage"}),
    project_issue |-> hasAnyPermission({"projects.manage"}
                                       \cup {"projects.issues.manage"}),
    none |-> Anyone]

\* The requests about the files of one kind of record.
listAttachments(owner) ==
    Reads(hasPermission("attachments.view") \cap OwnerViewers[owner], {"attachment"})
uploadAttachment(owner) ==
    Writes(hasPermission("attachments.upload") \cap OwnerViewers[owner]
           \cap OwnerContributors[owner], {"attachment"})
deleteAttachment(owner) ==
    Writes(hasPermission("attachments.delete") \cap OwnerViewers[owner]
           \cap OwnerContributors[owner], {"attachment"})

attachmentQueryKeys == [all |-> <<"attachments">>, list |-> <<"attachments", "list", "params">>]

\* One table entry for each kind of record: "listAttachments.project", ...
Owners == DOMAIN OwnerViewers
Of(name, owner) == name \o "." \o owner
PerOwner(name, Entry(_)) ==
    [n \in {Of(name, o) : o \in Owners} |-> Entry(CHOOSE o \in Owners : n = Of(name, o))]

AttachmentRequests ==
    PerOwner("listAttachments", listAttachments)
    @@ PerOwner("uploadAttachment", uploadAttachment)
    @@ PerOwner("deleteAttachment", deleteAttachment)

useAttachmentList(owner) == Query(attachmentQueryKeys.list, Of("listAttachments", owner))
useDeleteAttachment(owner) ==
    Mutation(Of("deleteAttachment", owner), OneByOne(<<attachmentQueryKeys.all>>))

\* The uploader sends the file itself; the section then refetches the list it shows.
AttachmentUploader(owner) ==
    Mutation(Of("uploadAttachment", owner), OneByOne(<<attachmentQueryKeys.list>>))

AttachmentQueries == PerOwner("useAttachmentList", useAttachmentList)
AttachmentMutations ==
    PerOwner("useDeleteAttachment", useDeleteAttachment)
    @@ PerOwner("AttachmentUploader", AttachmentUploader)

---------------------------------------------------------------------------
\* The section of a record: the list if the files may be seen, the uploader for those who may
\* change the record (contribute), the deletion behind its own gate.
Section(owner, contribute, remove) ==
    Screen({<<Of("useAttachmentList", owner), hasPermission("attachments.view")>>}, {},
           {<<Of("AttachmentUploader", owner),
              hasPermission("attachments.upload") \cap contribute>>,
            <<Of("useDeleteAttachment", owner), remove>>}, {})

Deleters == hasPermission("attachments.delete")

AttachmentWorkspaceScreen == Section("none", Anyone, Deleters)

=============================================================================
