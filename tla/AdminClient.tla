----------------------------- MODULE AdminClient -----------------------------
(***************************************************************************)
(* Accounts, roles, AI administration, notifications, reporting and the    *)
(* dashboard in the client. One user "u" and one role "r" stand for all.   *)
(***************************************************************************)
EXTENDS MasterDataClient

\* Who passes the checks of the account and role services.
RoleReaders == hasPermission("roles.view")
RoleManagers == hasPermission("roles.manage")
UserReaders == hasPermission("users.view")

\* services/api/users.ts. The form's options take what they are allowed to read.
UserRequests == [
    getUsers |-> Reads(UserReaders, {"user"}),
    getUser |-> Reads(UserReaders, {"user"}),
    createUser |-> Writes(hasPermission("users.create"), {"user"}),
    updateUser |-> Writes(hasPermission("users.update"), {"user"}),
    deactivateUser |-> Writes(hasPermission("users.delete"), {"user"}),
    getUserDirectory |-> Reads(hasPermission("users.directory"), {"user"}),
    getUserRoleAssignments |-> Reads(UserReaders \cap RoleReaders, {"userRole", "role"}),
    replaceUserRoleAssignments |-> Writes(RoleManagers, {"userRole"}),
    getUserFormOptions |-> Reads(Anyone, {"tenants", "organizations"})]

\* services/api/rbac.ts.
RoleRequests == [
    getRoles |-> Reads(RoleReaders, {"role"}),
    getRole |-> Reads(RoleReaders, {"role"}),
    createRole |-> Writes(RoleManagers, {"role"}),
    duplicateRole |-> Writes(RoleManagers, {"role", "rolePermission"}),
    updateRole |-> Writes(RoleManagers, {"role"}),
    deactivateRole |-> Writes(RoleManagers, {"role"}),
    getRolePermissions |-> Reads(RoleReaders, {"rolePermission"}),
    replaceRolePermissions |-> Writes(RoleManagers, {"rolePermission"}),
    getPermissions |-> Reads(RoleManagers, {"permission"})]

\* services/api/ai-administration.ts and ai-monitoring.ts.
AIAdminRequests == [
    getAIAdminConfig |-> Reads(SettingsManagers, {"aiConfig"}),
    patchAIAdminConfig |-> Writes(SettingsManagers, {"aiConfig", "aiAudit"}),
    getAIAdminPrompts |-> Reads(SettingsManagers, {"aiPrompt"}),
    getAIAdminPolicies |-> Reads(SettingsManagers, {"aiPolicy"}),
    getAIAdminHealth |-> Reads(SettingsManagers, {"aiConfig"}),
    getAIAdminAudit |-> Reads(SettingsManagers, {"aiAudit"})]
AIMonitoringRequests ==
    [getAIMonitoringOverview |-> Reads(SettingsManagers, {"aiConfig", "analysis"})]

\* services/api/notifications.ts, of the signed-in user's own.
NotificationRequests == [
    getNotifications |-> Reads(Anyone, {"notification"}),
    getNotificationUnreadCount |-> Reads(Anyone, {"notification"}),
    markNotificationRead |-> Writes(Anyone, {"notification"}),
    markNotificationUnread |-> Writes(Anyone, {"notification"}),
    markAllNotificationsRead |-> Writes(Anyone, {"notification"}),
    bulkUpdateNotificationState |-> Writes(Anyone, {"notification"}),
    getNotificationPreferences |-> Reads(Anyone, {"preference"}),
    updateNotificationPreferences |-> Writes(Anyone, {"preference"})]

\* services/api/reporting.ts.
Reporters == hasPermission("reporting.view")
ReportingRequests == [
    getReportingOverview |->
        Reads(Reporters, {"ticket", "workOrder", "inspection", "organizations", "buildings"}),
    getReportingFilterOptions |-> Reads(Reporters, {"organizations", "buildings"}),
    getAIRecommendationInsights |-> Reads(Reporters, {"analysis"}),
    getAIOperationalInsights |-> Reads(Reporters, {"analysis", "ticket"}),
    getAIAttentionCenter |-> Reads(Reporters, {"analysis", "ticket"}),
    getAISimilarCases |-> Reads(Reporters, {"analysis", "ticket"}),
    getExecutiveAIDashboard |-> Reads(Reporters, {"analysis", "ticket"})]

\* services/api/dashboard.ts and health.ts.
DashboardRequests == [
    getFoundationSummary |-> Reads(Anyone, MasterDataResources),
    getBackendHealth |-> Reads(Anyone, {})]

---------------------------------------------------------------------------
\* The keys.

usersQueryKeys == [
    all |-> <<"users">>,
    lists |-> <<"users", "list">>,
    list |-> <<"users", "list", "params">>,
    detail |-> <<"users", "detail", "u">>,
    directory |-> <<"users", "directory", "params">>,
    formOptions |-> <<"users", "form-options">>,
    roles |-> <<"users", "u", "roles">>]

rbacQueryKeys == [
    roleLists |-> <<"rbac", "roles">>,
    roles |-> <<"rbac", "roles", "params">>,
    role |-> <<"rbac", "role", "r">>,
    rolePermissions |-> <<"rbac", "role", "r", "permissions">>,
    permissions |-> <<"rbac", "permissions", "params">>,
    mePermissions |-> <<"rbac", "me", "permissions">>]

notificationQueryKeys == [
    all |-> <<"notifications">>,
    lists |-> <<"notifications", "list">>,
    list |-> <<"notifications", "list", "params">>,
    detail |-> <<"notifications", "detail", "n">>,
    unreadCount |-> <<"notifications", "unread-count">>,
    preferences |-> <<"notifications", "preferences">>]

reportingQueryKeys == [
    overview |-> <<"reporting", "overview", "params">>,
    filterOptions |-> <<"reporting", "filter-options">>,
    aiInsights |-> <<"reporting", "ai-insights", "params">>,
    aiOperationalInsights |-> <<"reporting", "ai-operational-insights", "params">>,
    aiAttentionCenter |-> <<"reporting", "ai-attention-center", "params">>,
    aiSimilarCases |-> <<"reporting", "ai-similar-cases", "params">>,
    aiExecutiveDashboard |-> <<"reporting", "ai-executive-dashboard", "params">>]

dashboardQueryKeys == [
    foundationSummary |-> <<"dashboard", "foundation-summary">>,
    systemStatus |-> <<"dashboard", "system-status">>]

---------------------------------------------------------------------------
\* hooks/use-users.ts and use-rbac.ts.

UserQueries == [
    useUsers |-> Query(usersQueryKeys.list, "getUsers"),
    useUser |-> Query(usersQueryKeys.detail, "getUser"),
    useUserDirectory |-> Query(usersQueryKeys.directory, "getUserDirectory"),
    useUserRoleAssignments |-> Query(usersQueryKeys.roles, "getUserRoleAssignments"),
    useUserFormOptions |-> Query(usersQueryKeys.formOptions, "getUserFormOptions")]

UserMutations ==
    LET k == usersQueryKeys IN [
    useCreateUser |-> Mutation("createUser", OneByOne(<<k.all>>)),
    useUpdateUser |-> MutationPutting("updateUser", {k.detail},
                                      OneByOne(<<k.detail, k.lists, k.directory>>)),
    useDeactivateUser |-> Mutation("deactivateUser", OneByOne(<<k.all, k.detail>>)),
    useReplaceUserRoleAssignments |->
        MutationPutting("replaceUserRoleAssignments", {k.roles}, OneByOne(<<k.roles>>))]

RoleQueries == [
    useRoles |-> Query(rbacQueryKeys.roles, "getRoles"),
    useRole |-> Query(rbacQueryKeys.role, "getRole"),
    useRolePermissions |-> Query(rbacQueryKeys.rolePermissions, "getRolePermissions"),
    getPermissions |-> Query(rbacQueryKeys.permissions, "getPermissions")]

\* A duplicate is a role of its own, with its own key.
RoleMutations ==
    LET k == rbacQueryKeys IN [
    useCreateRole |-> Mutation("createRole", OneByOne(<<k.roleLists>>)),
    useDuplicateRole |-> Mutation("duplicateRole", AllAtOnce({k.roleLists})),
    useUpdateRole |-> MutationPutting("updateRole", {k.role}, AllAtOnce({k.roleLists, k.role})),
    useDeactivateRole |->
        Mutation("deactivateRole",
                 AllAtOnce({k.roleLists, k.role, k.mePermissions, usersQueryKeys.roles})),
    useReplaceRolePermissions |->
        Mutation("replaceRolePermissions",
                 AllAtOnce({k.rolePermissions, k.role, k.mePermissions, usersQueryKeys.roles}))]

\* hooks/use-notifications.ts.
invalidateNotificationCaches ==
    OneByOne(<<notificationQueryKeys.lists, notificationQueryKeys.unreadCount>>)

NotificationQueries == [
    useNotifications |-> Query(notificationQueryKeys.list, "getNotifications"),
    useNotificationUnreadCount |->
        Query(notificationQueryKeys.unreadCount, "getNotificationUnreadCount"),
    useNotificationPreferences |->
        Query(notificationQueryKeys.preferences, "getNotificationPreferences")]

NotificationMutations ==
    LET k == notificationQueryKeys
        ofOne == invalidateNotificationCaches \o OneByOne(<<k.detail>>)
    IN [
    useMarkNotificationRead |-> MutationPutting("markNotificationRead", {k.detail}, ofOne),
    useMarkNotificationUnread |-> MutationPutting("markNotificationUnread", {k.detail}, ofOne),
    useMarkAllNotificationsRead |->
        Mutation("markAllNotificationsRead", invalidateNotificationCaches),
    useBulkUpdateNotificationState |->
        Mutation("bulkUpdateNotificationState", invalidateNotificationCaches),
    useUpdateNotificationPreferences |->
        MutationPutting("updateNotificationPreferences", {k.preferences},
                        OneByOne(<<k.preferences>>))]

\* hooks/use-reporting-overview.ts.
ReportingQueries == [
    useReportingOverview |-> Query(reportingQueryKeys.overview, "getReportingOverview"),
    useReportingFilterOptions |->
        Query(reportingQueryKeys.filterOptions, "getReportingFilterOptions"),
    useAIRecommendationInsights |->
        Query(reportingQueryKeys.aiInsights, "getAIRecommendationInsights"),
    useAIOperationalInsights |->
        Query(reportingQueryKeys.aiOperationalInsights, "getAIOperationalInsights"),
    useAIAttentionCenter |-> Query(reportingQueryKeys.aiAttentionCenter, "getAIAttentionCenter"),
    useAISimilarCases |-> Query(reportingQueryKeys.aiSimilarCases, "getAISimilarCases"),
    useExecutiveAIDashboard |->
        Query(reportingQueryKeys.aiExecutiveDashboard, "getExecutiveAIDashboard")]

\* The queries and the mutation inside the dashboard page and the AI administration screens.
DashboardQueries == [
    foundationSummary |-> Query(dashboardQueryKeys.foundationSummary, "getFoundationSummary"),
    systemStatus |-> Query(dashboardQueryKeys.systemStatus, "getBackendHealth")]
AIAdminQueries == [
    aiConfig |-> Query(<<"admin", "ai", "config">>, "getAIAdminConfig"),
    aiPrompts |-> Query(<<"admin", "ai", "prompts">>, "getAIAdminPrompts"),
    aiPolicies |-> Query(<<"admin", "ai", "policies">>, "getAIAdminPolicies"),
    aiHealth |-> Query(<<"admin", "ai", "health">>, "getAIAdminHealth"),
    aiAudit |-> Query(<<"admin", "ai", "audit">>, "getAIAdminAudit"),
    aiMonitoring |-> Query(<<"admin", "ai", "monitoring">>, "getAIMonitoringOverview")]
AIAdminMutations ==
    [saveAIConfig |-> Mutation("patchAIAdminConfig", OneByOne(<<<<"admin", "ai">>>>))]

=============================================================================
