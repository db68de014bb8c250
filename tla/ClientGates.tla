----------------------------- MODULE ClientGates -----------------------------
(***************************************************************************)
(* What a page does for a role: whether it shows its form, what it asks    *)
(* for, the changes it offers and the links it has, as the client's gates  *)
(* decide, beside what the server grants the user who looks at it.         *)
(***************************************************************************)
EXTENDS Client

\* A form whose guard is inside: whoever is refused sees that instead of the form.
Barred(p, r) ==
    "inspector" \in p.guard /\ p.screen.offers # {} /\ Names(p.screen.offers, r) = {}

\* With the gates of g, the page asks only for what the server grants u. Left out are the filters
\* and forms that pick from the master data, which the server keeps from technicians and viewers.
MasterDataPickers ==
    {For("list", res) : res \in MasterDataResources}
    \cup {"useMaintenanceFormOptions", "useInspectionFormOptions"}
ReadsGrantedTo(route, g, u) ==
    ~Barred(Pages[route], g) =>
        \A q \in ReadsOf(route, g) :
            MayRead(q, u) \/ (q \in MasterDataPickers /\ u \in {"technician", "viewer"})

\* It offers only the changes the server lets u make. Left out is the deletion of an inspection's
\* files, offered to whoever may delete attachments, whatever they may do to the inspection.
OffersGrantedTo(route, g, u) ==
    \A m \in OffersOf(route, g) \ {Of("useDeleteAttachment", "inspection")} : MayWrite(m, u)

\* Its links, and those around it, lead to pages that g may open, and to no form that refuses it.
\* Left out are the links of the Gantt chart to the forms of tasks.
GanttLinks == {"/projects/p/tasks/new", "/projects/p/tasks/t/edit"}
LinksOpenTo(route, g) ==
    ~Barred(Pages[route], g) =>
        \A l \in LinksOf(route, g) \cup Names(AppShell.links, g) :
            \/ l \in DOMAIN Pages /\ Enter(l, g) /\ ~Barred(Pages[l], g)
            \/ route = "/projects/p/gantt" /\ l \in GanttLinks

\* The gates that are applied are those of the user, or of a role that has none.
GatesAgree ==
    \A route \in DOMAIN Pages, g \in Roles :
        Enter(route, g) =>
            /\ LinksOpenTo(route, g)
            /\ \A u \in IF g = "inspector" THEN Roles ELSE {g} :
                   ReadsGrantedTo(route, g, u) /\ OffersGrantedTo(route, g, u)

=============================================================================
