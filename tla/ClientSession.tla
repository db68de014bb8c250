---------------------------- MODULE ClientSession ----------------------------
(***************************************************************************)
(* The session of one tab: signing in and out, restoring the session when  *)
(* the page loads, the permissions of the user and what the pages show     *)
(* with them. There is one user of each role, named by it. What a user     *)
(* sees is decided by the permissions the client holds, what the server    *)
(* answers by the token it is sent; permission requests and saves outlive  *)
(* the page, and the session, that started them.                           *)
(***************************************************************************)
EXTENDS ClientGates

CONSTANTS Users,      \* the users, one of each of these roles
          Arrivals,   \* those who sign in; the others have a session to restore
          Addresses,  \* the addresses that are typed in
          MaxAsks,    \* bound: permission requests in flight
          MaxSaves    \* bound: saves in flight

NoUser == "nobody"
LoginPage == "/login"

ASSUME UsersAssumption == Users \subseteq Roles /\ Arrivals \subseteq Users
ASSUME AddressesAssumption == Addresses \subseteq DOMAIN Pages
ASSUME BoundsAssumption == MaxAsks \in Nat /\ MaxSaves \in Nat

VARIABLES
    token,       \* whose tokens are stored
    user,        \* the user signed in
    isLoading,   \* the session is being established or ended
    flow,        \* the function of the provider under way, and for whom
    page,        \* the address
    permissions, \* whose permissions the client holds, or NoUser for none
    outdated,    \* they lack a change of roles this user has saved
    permissionsLoading, permissionsError,
    asks,        \* permission requests in flight: whose token, answered or not
    saves,       \* changes of roles in flight
    cache,       \* whose data is in the query cache
    outlived,    \* a permission request has outlived its session
    crossed      \* two permission requests of one user were in flight at once, or the answer of
                 \* a change of roles was lost

held == <<permissions, outdated, permissionsLoading, permissionsError>>
session == <<token, user, isLoading, flow>>
history == <<outlived, crossed>>
vars == <<session, page, held, asks, saves, cache, history>>

UserOrNone == Users \cup {NoUser}
Flows == [name : {"none", "restoring", "signing in", "identifying", "signing out"},
          of : UserOrNone]
NoFlow == [name |-> "none", of |-> NoUser]

\* A permission request is answered with the roles before the last change of them (old) or after.
Asks == [of : UserOrNone, old : BOOLEAN]
Saves == [of : UserOrNone, applied : BOOLEAN]

TypeOK ==
    /\ token \in UserOrNone /\ user \in UserOrNone /\ isLoading \in BOOLEAN
    /\ flow \in Flows /\ page \in DOMAIN Pages \cup {LoginPage}
    /\ permissions \in UserOrNone /\ outdated \in BOOLEAN
    /\ permissionsLoading \in BOOLEAN /\ permissionsError \in BOOLEAN
    /\ asks \in Seq(Asks) /\ Len(asks) <= MaxAsks
    /\ saves \in Seq(Saves) /\ Len(saves) <= MaxSaves
    /\ cache \subseteq Users
    /\ outlived \in BOOLEAN /\ crossed \in BOOLEAN

---------------------------------------------------------------------------
\* What is on the screen.

\* The role whose gates the client applies: without permissions, a role that has none.
gates == IF permissions = NoUser THEN "inspector" ELSE permissions

\* A page without a guard is shown while the permissions load; one with, only once they are held.
PageShown ==
    /\ user # NoUser /\ ~isLoading /\ page # LoginPage
    /\ \/ Pages[page].guard = Anyone
       \/ ~permissionsLoading /\ Enter(page, gates)

\* Nobody is signed in, and the page is left for the login page.
SignedOut ==
    /\ token' = NoUser /\ user' = NoUser /\ isLoading' = FALSE /\ flow' = NoFlow
    /\ page' = LoginPage
    /\ permissions' = NoUser /\ outdated' = FALSE
    /\ permissionsLoading' = FALSE /\ permissionsError' = FALSE
    /\ cache' = {}
    /\ outlived' = (outlived \/ asks # << >>)
    /\ UNCHANGED <<asks, saves, crossed>>

---------------------------------------------------------------------------
\* Permissions.

\* The request carries the token of now; without one there is nothing to ask. Until it is answered
\* the permissions stay what they are.
refreshPermissions(now) ==
    /\ permissionsLoading' = (token # NoUser) /\ permissionsError' = FALSE
    /\ permissions' = IF token = NoUser THEN NoUser ELSE now
    /\ IF token = NoUser
       THEN UNCHANGED <<asks, crossed>>
       ELSE /\ Len(asks) < MaxAsks
            /\ asks' = Append(asks, [of |-> token, old |-> FALSE])
            /\ crossed' = (crossed \/ \E i \in DOMAIN asks : asks[i].of = token)

\* The answer is taken whoever is signed in by now.
ReceivePermissions(i) ==
    /\ asks' = RemoveAt(asks, i)
    /\ permissions' = asks[i].of /\ outdated' = asks[i].old
    /\ permissionsLoading' = FALSE /\ permissionsError' = FALSE
    /\ UNCHANGED <<session, page, saves, cache, history>>

\* Wrong: a failed request leaves the permissions loading.
LosePermissionsLoading(i) ==
    /\ asks' = RemoveAt(asks, i)
    /\ permissions' = NoUser /\ outdated' = FALSE /\ permissionsError' = TRUE
    /\ UNCHANGED <<session, page, permissionsLoading, saves, cache, history>>

LosePermissions(i) ==
    /\ asks' = RemoveAt(asks, i)
    /\ permissions' = NoUser /\ outdated' = FALSE
    /\ permissionsLoading' = FALSE /\ permissionsError' = TRUE
    /\ UNCHANGED <<session, page, saves, cache, history>>

\* The retry button of a guard.
RetryPermissions ==
    /\ user # NoUser /\ ~isLoading /\ page # LoginPage /\ permissionsError
    /\ ~Enter(page, "inspector") \/ Barred(Pages[page], "inspector")
    /\ refreshPermissions(permissions)
    /\ UNCHANGED <<session, page, outdated, saves, cache, outlived>>

---------------------------------------------------------------------------
\* The session.

\* The tab loads an address: what it held is gone, the tokens are not.
Load(route) ==
    /\ route \in (Addresses \cup {page}) \ {LoginPage}
    /\ asks' = << >> /\ saves' = << >> /\ cache' = {}
    /\ permissions' = NoUser /\ outdated' = FALSE
    /\ permissionsLoading' = FALSE /\ permissionsError' = FALSE
    /\ outlived' = FALSE /\ crossed' = FALSE
    /\ user' = NoUser /\ token' = token
    /\ isLoading' = (token # NoUser)
    /\ flow' = IF token = NoUser THEN NoFlow ELSE [name |-> "restoring", of |-> token]
    /\ page' = IF token = NoUser THEN LoginPage ELSE route

\* Somebody signs in on the login page.
login(u) ==
    /\ page = LoginPage /\ user = NoUser /\ ~isLoading
    /\ isLoading' = TRUE /\ flow' = [name |-> "signing in", of |-> u]
    /\ UNCHANGED <<token, user, page, held, asks, saves, cache, history>>

LoginAccepted ==
    /\ flow.name = "signing in"
    /\ token' = flow.of /\ flow' = [flow EXCEPT !.name = "identifying"]
    /\ UNCHANGED <<user, isLoading, page, held, asks, saves, cache, history>>

\* The user is known: their session starts without permissions, which are asked for at once.
\* A sign-in empties the cache.
Identified ==
    /\ flow.name \in {"restoring", "identifying"}
    /\ user' = flow.of /\ isLoading' = FALSE /\ flow' = NoFlow
    /\ page' = IF page = LoginPage THEN "/dashboard" ELSE page
    /\ cache' = IF flow.name = "identifying" THEN {} ELSE cache
    /\ refreshPermissions(NoUser) /\ outdated' = FALSE
    /\ UNCHANGED <<token, saves, outlived>>

\* A refused or lost request while signing in or restoring signs out.
NotIdentified ==
    /\ flow.name \in {"restoring", "signing in", "identifying"}
    /\ SignedOut

logout ==
    /\ user # NoUser /\ ~isLoading
    /\ isLoading' = TRUE /\ flow' = [name |-> "signing out", of |-> user]
    /\ UNCHANGED <<token, user, page, held, asks, saves, cache, history>>

\* Wrong: the cache is kept on signing out.
LoggedOutKeepingCache ==
    /\ flow.name = "signing out"
    /\ token' = NoUser /\ user' = NoUser /\ isLoading' = FALSE /\ flow' = NoFlow
    /\ page' = LoginPage
    /\ permissions' = NoUser /\ outdated' = FALSE
    /\ permissionsLoading' = FALSE /\ permissionsError' = FALSE
    /\ outlived' = (outlived \/ asks # << >>)
    /\ UNCHANGED <<cache, asks, saves, crossed>>

\* Wrong: the permissions are kept on signing out.
LoggedOutKeepingPermissions ==
    /\ flow.name = "signing out"
    /\ token' = NoUser /\ user' = NoUser /\ isLoading' = FALSE /\ flow' = NoFlow
    /\ page' = LoginPage /\ cache' = {}
    /\ outlived' = (outlived \/ asks # << >>)
    /\ UNCHANGED <<held, asks, saves, crossed>>

\* Wrong: a sign-out the server does not confirm ends there.
LoggedOutIfConfirmed ==
    /\ flow.name = "signing out"
    /\ \/ SignedOut
       \/ flow' = NoFlow /\ UNCHANGED <<token, user, isLoading, page, held, cache, asks, saves, history>>

\* The server has revoked the refresh token, or could not be asked: all the same.
LoggedOut == flow.name = "signing out" /\ SignedOut

---------------------------------------------------------------------------
\* The pages.

\* A link of the page, the navigation or the bell.
Follow(route) ==
    /\ PageShown
    /\ route \in LinksOf(page, gates) \cup Names(AppShell.links, gates)
    /\ page' = route
    /\ UNCHANGED <<session, held, asks, saves, cache, history>>

\* An employee requester on a page of the staff's tickets is sent to their own requests.
StaffTicketPages == {"/fm-tickets", "/fm-tickets/new", "/fm-tickets/f", "/fm-tickets/f/edit"}

\* Wrong: the edit page is sent to an edit page of requests, which does not exist.
resolveEmployeeFmTicketRedirectEdit ==
    [route \in StaffTicketPages |-> CASE route = "/fm-tickets" -> "/my-requests"
                                      [] route = "/fm-tickets/new" -> "/my-requests/new"
                                      [] route = "/fm-tickets/f" -> "/my-requests/f"
                                      [] route = "/fm-tickets/f/edit" -> "/my-requests/f/edit"]

resolveEmployeeFmTicketRedirect ==
    [route \in StaffTicketPages |-> CASE route = "/fm-tickets" -> "/my-requests"
                                      [] route = "/fm-tickets/new" -> "/my-requests/new"
                                      [] route = "/fm-tickets/f" -> "/my-requests/f"
                                      [] route = "/fm-tickets/f/edit" -> "/my-requests/f"]

Redirect ==
    /\ user # NoUser /\ ~isLoading /\ ~permissionsLoading /\ ~permissionsError
    /\ gates \in isEmployeeRequesterMode /\ page \in StaffTicketPages
    /\ page' = resolveEmployeeFmTicketRedirect[page]
    /\ UNCHANGED <<session, held, asks, saves, cache, history>>

\* The queries of the page are answered as the user of the token.
FetchPage ==
    /\ PageShown /\ \E q \in ReadsOf(page, gates) : MayRead(q, token)
    /\ cache' = cache \cup {token}
    /\ UNCHANGED <<session, page, held, asks, saves, history>>

\* The screens that change roles and then ask for the permissions again.
RoleScreens == {"/admin/roles", "/admin/roles/r", "/admin/users/u"}
SendSave ==
    /\ PageShown /\ Len(saves) < MaxSaves
    /\ page \in RoleScreens /\ OffersOf(page, gates) # {}
    /\ saves' = Append(saves, [of |-> token, applied |-> FALSE])
    /\ UNCHANGED <<session, page, held, asks, cache, history>>

\* The server applies it: those permission requests it has already answered, the answers being on
\* their way, are out of date.
ApplySave(i) ==
    /\ ~saves[i].applied /\ saves' = [saves EXCEPT ![i].applied = TRUE]
    /\ \E answered \in SUBSET DOMAIN asks :
           asks' = [a \in DOMAIN asks |-> [asks[a] EXCEPT !.old = @ \/ a \in answered]]
    /\ UNCHANGED <<session, page, held, cache, history>>

\* Wrong: the permissions are not asked for again.
ReceiveSaveOnly(i) ==
    /\ saves[i].applied /\ saves' = RemoveAt(saves, i)
    /\ outdated' = (permissions # NoUser)
    /\ UNCHANGED <<session, page, permissions, permissionsLoading, permissionsError, asks, cache,
                   history>>

\* Its answer arrives, wherever the user is by now.
ReceiveSave(i) ==
    /\ saves[i].applied /\ saves' = RemoveAt(saves, i)
    /\ refreshPermissions(permissions) /\ outdated' = (permissions' # NoUser)
    /\ UNCHANGED <<session, page, cache, outlived>>

\* It is refused, or lost: nothing is done about it.
LoseSave(i) ==
    /\ saves' = RemoveAt(saves, i)
    /\ crossed' = (crossed \/ saves[i].applied)
    /\ UNCHANGED <<session, page, held, asks, cache, outlived>>

---------------------------------------------------------------------------
Init ==
    /\ token \in UserOrNone /\ user = NoUser
    /\ isLoading = (token # NoUser)
    /\ flow = IF token = NoUser THEN NoFlow ELSE [name |-> "restoring", of |-> token]
    /\ page = IF token = NoUser THEN LoginPage ELSE "/dashboard"
    /\ permissions = NoUser /\ outdated = FALSE
    /\ permissionsLoading = FALSE /\ permissionsError = FALSE
    /\ asks = << >> /\ saves = << >> /\ cache = {}
    /\ outlived = FALSE /\ crossed = FALSE

AnswerPermissions == \E i \in DOMAIN asks :
    ReceivePermissions(i) \/ LosePermissions(i)
SessionStep == LoginAccepted \/ Identified \/ NotIdentified \/ LoggedOut
Browse == (\E route \in DOMAIN Pages : Follow(route) \/ Load(route)) \/ Redirect \/ FetchPage
Save == \/ SendSave
        \/ \E i \in DOMAIN saves : ApplySave(i) \/ ReceiveSave(i) \/ LoseSave(i)
Next == (\E u \in Arrivals : login(u)) \/ SessionStep \/ logout
        \/ AnswerPermissions \/ RetryPermissions \/ Browse \/ Save

\* Requests are answered or fail.
Fairness == WF_vars(SessionStep) /\ WF_vars(AnswerPermissions)
Spec == Init /\ [][Next]_vars /\ Fairness

---------------------------------------------------------------------------
\* Properties.

\* The permissions held are those of the user whose token the requests carry, unless a permission
\* request has outlived the session that made it: its answer is taken by the next one.
PermissionsOfUser == ~outlived => permissions \in {token, NoUser}

\* The cache holds only answers given to the user signed in.
CacheOfUser == cache \subseteq {user}

\* Once a change of roles by the user is answered and the permissions are asked for again, the
\* permissions held know of it, unless two requests of theirs crossed.
OwnRolesHeld ==
    outdated /\ ~crossed /\ ~outlived =>
        permissionsLoading \/ \E i \in DOMAIN saves : saves[i].applied

\* A page asks only for what the server grants its user.
ReadsGranted == PageShown /\ ~outlived => ReadsGrantedTo(page, gates, token)

\* A page offers only the changes the server lets its user make.
OffersGranted == PageShown /\ ~outlived => OffersGrantedTo(page, gates, token)

\* A link leads to a page that its user may open, and to no form that refuses them.
NoDeadLinks == PageShown /\ ~outlived => LinksOpenTo(page, gates)

\* A session that is being restored, established or ended comes to an end of that.
SessionSettles == isLoading ~> ~isLoading

\* The permissions are held or refused in the end.
PermissionsSettle == permissionsLoading ~> ~permissionsLoading

=============================================================================
