-------------------------- MODULE MasterDataClient --------------------------
(***************************************************************************)
(* The master data in the client: tenants, organizations, departments,     *)
(* buildings, floors, areas, asset types and assets. Other screens read    *)
(* their lists as options. One record "r" stands for those of a resource.  *)
(***************************************************************************)
EXTENDS ClientTables, TLC

MasterDataResources ==
    {"tenants", "organizations", "departments", "buildings", "floors", "areas", "asset-types",
     "assets"}

\* One table entry for each resource: "list.buildings", ...
For(name, resource) == name \o "." \o resource
ForAll(name, resources) == {For(name, r) : r \in resources}
PerResource(name, Entry(_)) ==
    [n \in ForAll(name, MasterDataResources) |->
        Entry(CHOOSE r \in MasterDataResources : n = For(name, r))]

---------------------------------------------------------------------------
\* services/api/master-data.ts, with the permissions of the master data views.

getList(resource) == Reads(hasPermission("settings.view"), {resource})
getDetail(resource) == Reads(hasPermission("settings.view"), {resource})
createRecord(resource) == Writes(hasPermission("settings.manage"), {resource})
updateRecord(resource) == Writes(hasPermission("settings.manage"), {resource})
\* Deactivation, reactivation, deletion and restoration.
updateMasterDataLifecycle(resource) == Writes(hasPermission("settings.manage"), {resource})

MasterDataRequests ==
    PerResource("getList", getList) @@ PerResource("getDetail", getDetail)
    @@ PerResource("createRecord", createRecord) @@ PerResource("updateRecord", updateRecord)
    @@ PerResource("updateMasterDataLifecycle", updateMasterDataLifecycle)

---------------------------------------------------------------------------
\* The keys, and those a change of a resource invalidates, all at once.

masterDataQueryKeys(resource) == [
    options |-> <<"master-data", resource, "options", "scope">>,
    list |-> <<"master-data", resource, "params">>,
    lifecycleList |-> <<"master-data", resource, "lifecycle", "active", "params", "scope">>,
    detail |-> <<"master-data", resource, "r">>]

getMasterDataInvalidationKeys(resource) ==
    {<<"master-data", resource>>, <<"dashboard", "foundation-summary">>,
     <<"reporting", "overview">>, <<"reporting", "filter-options">>, <<"users", "form-options">>,
     <<"fm-tickets">>, <<"maintenance", "form-options">>, <<"inspection", "form-options">>}

\* The same records are cached as a page of a list, as all pages of it, and by lifecycle.
useNameMapQuery(resource) ==
    Query(masterDataQueryKeys(resource).list, For("getList", resource))
useListResultsQuery(resource) ==
    Query(masterDataQueryKeys(resource).options, For("getList", resource))
useLifecycleQuery(resource) ==
    Query(masterDataQueryKeys(resource).lifecycleList, For("getList", resource))
useRecordQuery(resource) ==
    Query(masterDataQueryKeys(resource).detail, For("getDetail", resource))

MasterDataQueries ==
    PerResource("list", useNameMapQuery) @@ PerResource("options", useListResultsQuery)
    @@ PerResource("lifecycle", useLifecycleQuery) @@ PerResource("record", useRecordQuery)

useCreateMutation(resource) ==
    Mutation(For("createRecord", resource), AllAtOnce(getMasterDataInvalidationKeys(resource)))
useUpdateMutation(resource) ==
    Mutation(For("updateRecord", resource), AllAtOnce(getMasterDataInvalidationKeys(resource)))
useLifecycleMutation(resource) ==
    Mutation(For("updateMasterDataLifecycle", resource),
             AllAtOnce(getMasterDataInvalidationKeys(resource)
                       \cup {masterDataQueryKeys(resource).detail}))

MasterDataMutations ==
    PerResource("create", useCreateMutation) @@ PerResource("update", useUpdateMutation)
    @@ PerResource("changeLifecycle", useLifecycleMutation)

---------------------------------------------------------------------------
\* The screens. The client never takes a user for a global administrator, who alone may create,
\* reactivate, delete or restore a tenant.

SettingsManagers == hasPermission("settings.manage")
canCreateMasterDataResource(resource) == IF resource = "tenants" THEN {} ELSE SettingsManagers

ListRoute(resource) == "/master-data/" \o resource
NewRoute(resource) == ListRoute(resource) \o "/new"
EditRoute(resource) == ListRoute(resource) \o "/r/edit"

\* A tenant can be deactivated, the other resources also deleted and restored.
MasterDataLifecycleScreen(resource) ==
    Screen(Always({For("lifecycle", resource)}), {For("lifecycle", resource)},
           Behind(SettingsManagers, {For("changeLifecycle", resource)}),
           Behind(SettingsManagers, {EditRoute(resource)})
           \cup Behind(canCreateMasterDataResource(resource), {NewRoute(resource)}))

MasterDataLandingContent ==
    Links(Always({ListRoute(r) : r \in MasterDataResources}))

AssetLocationBreadcrumb == Links(Always(
    {"/admin/organization/" \o r : r \in MasterDataResources \ {"departments", "asset-types", "assets"}}))
AssetDetailScreen ==
    LET names == ForAll("list", MasterDataResources \ {"departments", "assets"}) IN
    Screen(Always({"record.assets"} \cup names), {"record.assets"} \cup names, {},
           Always({"/master-data/assets"}) \cup Behind(SettingsManagers, {EditRoute("assets")}))
    ++ AssetLocationBreadcrumb

Structure == MasterDataResources \ {"asset-types", "assets"}
OrganizationStructureCard(resource) ==
    Links(Always({"/admin/organization/" \o resource})
          \cup Behind(canCreateMasterDataResource(resource), {NewRoute(resource)}))
OrganizationHierarchy == Links(Always({"/admin/organization/" \o r : r \in Structure}))
OrganizationManagementScreen ==
    LET cards == {OrganizationStructureCard(r) : r \in Structure} IN
    Screen(Always(ForAll("options", Structure)), ForAll("options", Structure), {},
           UNION {c.links : c \in cards}) ++ OrganizationHierarchy

\* The forms run their queries before the guard; saving goes back to the list.
FormPageLayout(resource, queries, offer) ==
    Shows(Always(queries))
    ++ Inside(SettingsManagers,
              Screen({}, queries, Always({For(offer, resource)}), Always({ListRoute(resource)})))

CreatePage(resource, related) == FormPageLayout(resource, ForAll("options", related), "create")
EditPage(resource, related) ==
    FormPageLayout(resource, {For("record", resource)} \cup ForAll("options", related), "update")

TenantCreatePageContent == Shows({})
TenantEditPageContent == EditPage("tenants", {})
OrganizationCreatePageContent == CreatePage("organizations", {"tenants"})
OrganizationEditPageContent == EditPage("organizations", {"tenants"})
DepartmentCreatePageContent == CreatePage("departments", {"tenants", "organizations"})
DepartmentEditPageContent == EditPage("departments", {"tenants", "organizations"})
BuildingCreatePageContent == CreatePage("buildings", {"tenants", "organizations"})
BuildingEditPageContent == EditPage("buildings", {"tenants", "organizations"})
FloorCreatePageContent == CreatePage("floors", {"tenants", "buildings"})
FloorEditPageContent == EditPage("floors", {"tenants", "buildings"})
AreaCreatePageContent == CreatePage("areas", {"tenants", "buildings", "floors"})
AreaEditPageContent == EditPage("areas", {"tenants", "buildings", "floors"})
AssetTypeCreatePageContent == CreatePage("asset-types", {"tenants"})
AssetTypeEditPageContent == EditPage("asset-types", {"tenants"})
AssetRelated == MasterDataResources \ {"departments", "assets"}
AssetCreatePageContent == CreatePage("assets", AssetRelated)
AssetEditPageContent == EditPage("assets", AssetRelated)

---------------------------------------------------------------------------
\* The pages (app/(app)/master-data, admin/organization and admin/assets).

MasterDataPages ==
    LET viewers == hasPermission("settings.view")
        Lists == "/master-data" :> Page(viewers, MasterDataLandingContent)
            @@ "/master-data/assets/r" :> Page(viewers, AssetDetailScreen)
            @@ "/admin/organization" :> Page(viewers, OrganizationManagementScreen)
            @@ "/admin/assets" :> Page(viewers, MasterDataLifecycleScreen("assets"))
        ReadScreens == [route \in {ListRoute(r) : r \in MasterDataResources} |->
            Page(viewers, MasterDataLifecycleScreen(
                CHOOSE r \in MasterDataResources : route = ListRoute(r)))]
        AdminScreens == [route \in {"/admin/organization/" \o r : r \in Structure} |->
            Page(viewers, MasterDataLifecycleScreen(
                CHOOSE r \in Structure : route = "/admin/organization/" \o r))]
        Form(resource, new, edit) ==
            NewRoute(resource) :> Page(Anyone, new) @@ EditRoute(resource) :> Page(Anyone, edit)
    IN Lists @@ ReadScreens @@ AdminScreens
       @@ Form("tenants", TenantCreatePageContent, TenantEditPageContent)
       @@ Form("organizations", OrganizationCreatePageContent, OrganizationEditPageContent)
       @@ Form("departments", DepartmentCreatePageContent, DepartmentEditPageContent)
       @@ Form("buildings", BuildingCreatePageContent, BuildingEditPageContent)
       @@ Form("floors", FloorCreatePageContent, FloorEditPageContent)
       @@ Form("areas", AreaCreatePageContent, AreaEditPageContent)
       @@ Form("asset-types", AssetTypeCreatePageContent, AssetTypeEditPageContent)
       @@ Form("assets", AssetCreatePageContent, AssetEditPageContent)

=============================================================================
