---------------------------- MODULE AdminScreens ----------------------------
(***************************************************************************)
(* The screens of accounts, roles, AI administration, notifications,       *)
(* reporting and the dashboard, their pages, and the navigation.           *)
(***************************************************************************)
EXTENDS AdminClient

---------------------------------------------------------------------------
\* Accounts.

\* The picker of a person: nothing without the permission to read the directory.
UserDirectoryPicker == Shows(Behind(hasPermission("users.directory"), {"useUserDirectory"}))

\* lib/users: what a user may do to an account, and to its roles.
canEditUser == hasPermission("users.update")
canDeactivateUser == hasPermission("users.delete")
canViewUserRoles == UserReaders \cap RoleReaders

UserBreadcrumbs == Links(Always({"/admin/users"}))
UserDetailScreen ==
    Screen(Always({"useUser", "useUserFormOptions"})
           \cup Behind(canViewUserRoles, {"useUserRoleAssignments"}),
           {"useUser"},
           Behind(canDeactivateUser, {"useDeactivateUser"})
           \cup Behind(canViewUserRoles \cap RoleManagers, {"useReplaceUserRoleAssignments"}),
           Always({"/admin/users"}) \cup Behind(canEditUser, {"/admin/users/u/edit"}))
    ++ UserBreadcrumbs
UserManagementScreen ==
    Screen(Always({"useUsers", "useUserFormOptions"}), {"useUsers"},
           Behind(canDeactivateUser, {"useDeactivateUser"}),
           Always({"/admin/users/u"}) \cup Behind(canEditUser, {"/admin/users/u/edit"})
           \cup Behind(hasPermission("users.create"), {"/admin/users/new"}))
UserCreateScreen ==
    Screen(Always({"useUserFormOptions"}), {}, Always({"useCreateUser"}),
           Always({"/admin/users/u"})) ++ UserBreadcrumbs
UserEditScreen ==
    Screen(Always({"useUser", "useUserFormOptions"}), {"useUser"}, Always({"useUpdateUser"}),
           Always({"/admin/users/u"})) ++ UserBreadcrumbs

---------------------------------------------------------------------------
\* Roles.

RoleBreadcrumbs == Links(Always({"/admin/roles"}))
PermissionListScreen == Shows(Always({"getPermissions"}))
RoleListScreen ==
    Screen(Always({"useRoles"}), {"useRoles"}, Behind(RoleManagers, {"useDeactivateRole"}),
           Always({"/admin/roles/r"})
           \cup Behind(RoleManagers, {"/admin/roles/new", "/admin/roles/r/edit",
                                      "/admin/roles/r/duplicate"}))
RoleDetailScreen ==
    Screen(Always({"useRole", "useRolePermissions"}) \cup Behind(RoleManagers, {"getPermissions"}),
           {"useRole"},
           Behind(RoleManagers, {"useDeactivateRole", "useReplaceRolePermissions"}),
           Always({"/admin/roles"})
           \cup Behind(RoleManagers, {"/admin/roles/r/edit", "/admin/roles/r/duplicate"}))
RoleCreateScreen ==
    Screen({}, {}, Always({"useCreateRole"}), Always({"/admin/roles/r"})) ++ RoleBreadcrumbs
RoleDuplicateScreen ==
    Screen(Always({"useRole"}), {"useRole"}, Always({"useDuplicateRole"}),
           Always({"/admin/roles/r"})) ++ RoleBreadcrumbs
RoleEditScreen ==
    Screen(Always({"useRole"}), {"useRole"}, Always({"useUpdateRole"}),
           Always({"/admin/roles/r"})) ++ RoleBreadcrumbs

---------------------------------------------------------------------------
\* AI administration and monitoring.

AIAdministrationScreen ==
    LET queries == {"aiConfig", "aiPrompts", "aiPolicies", "aiHealth", "aiAudit"} IN
    Screen(Behind(SettingsManagers, queries), queries, Behind(SettingsManagers, {"saveAIConfig"}),
           Behind(SettingsManagers, {"/admin", "/admin/ai/monitoring"}))
AIMonitoringScreen ==
    Screen(Behind(SettingsManagers, {"aiMonitoring"}), {"aiMonitoring"}, {},
           Behind(SettingsManagers, {"/admin/ai", "/admin"}))

---------------------------------------------------------------------------
\* Notifications. The bell is on every page.

NotificationPreview ==
    Screen(Always({"useNotifications"}), {"useNotifications"},
           Always({"useMarkNotificationRead"}), Always({"/notifications"}))
NotificationBell == Shows(Always({"useNotificationUnreadCount"})) ++ NotificationPreview
NotificationCenterScreen ==
    Screen(Always({"useNotifications", "useNotificationUnreadCount"}), {"useNotifications"},
           Always({"useMarkNotificationRead", "useMarkNotificationUnread",
                   "useMarkAllNotificationsRead", "useBulkUpdateNotificationState"}),
           Always({"/settings/notifications"}))
NotificationPreferencesScreen ==
    Screen(Always({"useNotificationPreferences"}), {"useNotificationPreferences"},
           Always({"useUpdateNotificationPreferences"}), Always({"/notifications"}))

---------------------------------------------------------------------------
\* Reporting: every query waits for reporting.view.

MaintenanceViewers ==
    hasPermission("maintenance.view")
getReportingDrillDownVisibility ==
    {<<"/fm-tickets", hasPermission("fm_tickets.view")>>,
     <<"/maintenance/work-orders", MaintenanceViewers>>,
     <<"/inspection/inspections", hasAnyPermission({"inspection.view", "inspection.manage"})>>}

ReportingOverviewScreen ==
    Screen(Behind(Reporters, {"useReportingFilterOptions", "useReportingOverview"}), {}, {},
           Always({"/reporting/ai-insights", "/reporting/ai-operational-insights",
                   "/reporting/ai-attention-center", "/reporting/ai-similar-cases",
                   "/reporting/ai-executive-dashboard"})
           \cup getReportingDrillDownVisibility)
AIRecommendationInsightsScreen ==
    Screen(Behind(Reporters, {"useAIRecommendationInsights"}), {}, {}, Always({"/reporting"}))
AIOperationalInsightsScreen ==
    Screen(Behind(Reporters, {"useAIOperationalInsights"}), {}, {},
           Always({"/reporting/ai-insights", "/reporting"}))
AIAttentionCenterScreen ==
    Screen(Behind(Reporters, {"useAIAttentionCenter"}), {}, {},
           Always({"/reporting/ai-operational-insights", "/reporting"}))
AISimilarCasesScreen ==
    Screen(Behind(Reporters, {"useAISimilarCases"}), {}, {},
           Always({"/reporting", "/reporting/ai-attention-center"}))
ResultsView == Links(Always({"/reporting/ai-similar-cases"}))
ExecutiveAIDashboardScreen ==
    Screen(Behind(Reporters, {"useExecutiveAIDashboard"}), {}, {},
           Always({"/reporting", "/reporting/ai-attention-center", "/reporting/ai-insights"}))
    ++ ResultsView

---------------------------------------------------------------------------
\* Dashboard, administration, profile.

getVisibleDashboardQuickLinks ==
    Behind(hasPermission("settings.view"),
           {"/master-data", "/master-data/tenants", "/master-data/organizations",
            "/master-data/buildings", "/master-data/assets"})
    \cup Behind(Reporters, {"/reporting"})
QuickLinks == Links(getVisibleDashboardQuickLinks)
DashboardPage == Shows(Always({"foundationSummary", "systemStatus"})) ++ QuickLinks

AdminPage == Links(
    Behind(hasPermission("settings.view"), {"/admin/organization", "/admin/assets"})
    \cup Behind(UserReaders, {"/admin/users"}) \cup Behind(RoleReaders, {"/admin/roles"})
    \cup Behind(RoleManagers, {"/admin/permissions"})
    \cup Behind(SettingsManagers, {"/admin/ai", "/admin/ai/monitoring"}))
ProfileSummary == Links(Always({"/settings/notifications"}))

---------------------------------------------------------------------------
\* The pages.

AccountPages ==
    "/admin/users" :> Page(UserReaders, UserManagementScreen)
    @@ "/admin/users/new" :> Page(hasPermission("users.create"), UserCreateScreen)
    @@ "/admin/users/u" :> Page(UserReaders, UserDetailScreen)
    @@ "/admin/users/u/edit" :> Page(canEditUser, UserEditScreen)
    @@ "/admin/roles" :> Page(RoleReaders, RoleListScreen)
    @@ "/admin/roles/new" :> Page(RoleManagers, RoleCreateScreen)
    @@ "/admin/roles/r" :> Page(RoleReaders, RoleDetailScreen)
    @@ "/admin/roles/r/edit" :> Page(RoleManagers, RoleEditScreen)
    @@ "/admin/roles/r/duplicate" :> Page(RoleManagers, RoleDuplicateScreen)
    @@ "/admin/permissions" :> Page(RoleManagers, PermissionListScreen)

OfficePages ==
    "/admin" :> Page(UserReaders \cup RoleReaders \cup RoleManagers
                     \cup hasAnyPermission({"settings.view", "settings.manage"}), AdminPage)
    @@ "/admin/ai" :> Page(SettingsManagers, AIAdministrationScreen)
    @@ "/admin/ai/monitoring" :> Page(SettingsManagers, AIMonitoringScreen)
    @@ "/dashboard" :> Page(Anyone, DashboardPage)
    @@ "/notifications" :> Page(Anyone, NotificationCenterScreen)
    @@ "/profile" :> Page(Anyone, ProfileSummary)
    @@ "/settings/notifications" :> Page(Anyone, NotificationPreferencesScreen)
    @@ "/settings" :> Page(hasPermission("settings.view"), Shows({}))
    @@ "/reporting" :> Page(Reporters, ReportingOverviewScreen)
    @@ "/reporting/ai-insights" :> Page(Reporters, AIRecommendationInsightsScreen)
    @@ "/reporting/ai-operational-insights" :> Page(Reporters, AIOperationalInsightsScreen)
    @@ "/reporting/ai-attention-center" :> Page(Reporters, AIAttentionCenterScreen)
    @@ "/reporting/ai-similar-cases" :> Page(Reporters, AISimilarCasesScreen)
    @@ "/reporting/ai-executive-dashboard" :> Page(Reporters, ExecutiveAIDashboardScreen)

---------------------------------------------------------------------------
\* The navigation (lib/navigation.ts), as an employee requester and as the others see it. My Work
\* is for those in the project workspace.

APP_NAVIGATION ==
    Always({"/dashboard"})
    \cup Behind(hasPermission("fm_tickets.view"), {"/my-requests", "/fm-tickets"})
    \cup Behind(MaintenanceViewers, {"/maintenance"})
    \cup Behind(hasPermission("projects.view"), {"/projects"})
    \cup Behind((hasPermission("projects.view") \cup hasPermission("projects.tasks.view"))
                \cap usesProjectWorkspaceMode, {"/my-work"})
    \cup Behind(hasAnyPermission({"inspection.view", "inspection.manage"}),
                {"/inspection/inspections"})
    \cup Behind(Reporters, {"/reporting"})
    \cup Behind(AttachmentUsers,
                {"/attachments"})
    \cup Behind(hasPermission("settings.view"),
                {"/master-data", "/admin/organization", "/admin/assets", "/settings"}
                \cup {ListRoute(r) : r \in MasterDataResources})
    \cup Behind(UserReaders \cup RoleReaders \cup RoleManagers \cup hasPermission("settings.view"),
                {"/admin"})
    \cup Behind(UserReaders, {"/admin/users"})
    \cup Behind(RoleReaders, {"/admin/roles"})
    \cup Behind(RoleManagers, {"/admin/permissions"})

\* The operational parts are hidden from an employee requester, My Requests from the others.
HIDDEN_FOR_EMPLOYEE_REQUESTER ==
    {"/fm-tickets", "/maintenance", "/projects", "/my-work", "/inspection/inspections",
     "/reporting", "/master-data", "/admin", "/admin/organization", "/admin/assets",
     "/admin/users", "/admin/roles", "/admin/permissions", "/settings"}
    \cup {ListRoute(r) : r \in MasterDataResources}
\* Wrong: the navigation of the others.
filterNavigationForNobody == APP_NAVIGATION

filterNavigationForEmployeeRequester ==
    {<<item[1], item[2] \ (IF item[1] \in HIDDEN_FOR_EMPLOYEE_REQUESTER
                           THEN isEmployeeRequesterMode
                           ELSE IF item[1] = "/my-requests"
                                THEN Anyone \ isEmployeeRequesterMode ELSE {})>> :
        item \in APP_NAVIGATION}

\* What is on every page: the navigation and the bell.
AppShell == Links(filterNavigationForEmployeeRequester) ++ NotificationBell

=============================================================================
