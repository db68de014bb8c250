--------------------------- MODULE TicketContract ---------------------------
(***************************************************************************)
(* What the services promise of a ticket and its work order, without locks *)
(* and loaded instances.  Every decision of a requester, of the automatic  *)
(* closure and of the work-order workflow is one step on the rows as they  *)
(* are; only what staff save from an instance loaded earlier may put the   *)
(* ticket in any status, and only a plain save does so without an entry in *)
(* the status history.                                                     *)
(***************************************************************************)
CONSTANT PlainSaves   \* whether clients save tickets without a history entry

VARIABLES
  status,   \* of the ticket
  due,      \* whether the acknowledgement period has run out
  by,       \* author of the newest entry of the status history
  work      \* status of the work order, "none" when there is none

vars == <<status, due, by, work>>

Worked == {"draft", "open", "assigned", "in_progress", "on_hold"}
Decided == {"closed", "cancelled"}
Maintained == Worked \union {"reopened"}

\* A workflow action and the ticket status it stands for.
Stands ==
  [in_progress |-> "in_progress", reopened |-> "in_progress",
   on_hold |-> "on_hold", completed |-> "resolved"]
Targets == DOMAIN Stands \union {"cancelled"}

Init ==
  /\ <<status, by, work>> \in {<<"open", "creation", "none">>,
                               <<"assigned", "staff", "assigned">>}
  /\ due = FALSE

Decide(from, to, author) ==
  /\ status \in from
  /\ status' = to
  /\ by' = author
  /\ due' = (due /\ to \notin Worked)

Cancel ==
  /\ work \notin Maintained
  /\ Decide(Worked \ {"in_progress"}, "cancelled", "requester")
  /\ UNCHANGED work

Acknowledge == Decide({"resolved"}, "closed", "requester") /\ UNCHANGED work
Reopen == Decide({"resolved"}, "in_progress", "requester") /\ UNCHANGED work
AutoClose == due /\ Decide({"resolved"}, "closed", "system") /\ UNCHANGED work

Expire ==
  /\ status \notin Worked /\ ~due
  /\ due' = TRUE
  /\ UNCHANGED <<status, by, work>>

Generate ==
  /\ work = "none" /\ status \in {"assigned", "in_progress"}
  /\ work' = "assigned"
  /\ UNCHANGED <<status, due, by>>

\* A workflow action moves the ticket with the work order, or leaves a ticket
\* that has the status already.
Maintain ==
  /\ work # "none"
  /\ work' \in Targets
  /\ \/ /\ work' \in DOMAIN Stands /\ status # Stands[work']
        /\ Decide(Worked \union {"resolved"}, Stands[work'], "workflow")
     \/ /\ work' \in DOMAIN Stands => status = Stands[work']
        /\ UNCHANGED <<status, due, by>>

\* Assignments and updates save the loaded work order whole.
SaveWorkOrder ==
  /\ work # "none" /\ work' # "none"
  /\ UNCHANGED <<status, due, by>>

\* Staff save the loaded ticket whole.
SaveTicket ==
  /\ by' = "staff" \/ (PlainSaves /\ by' = by)
  /\ status' \in Worked \union Decided \union {"resolved"}
  /\ due' \in BOOLEAN
  /\ due' => status' \notin Worked
  /\ UNCHANGED work

Next ==
  \/ Cancel \/ Acknowledge \/ Reopen \/ AutoClose \/ Expire
  \/ Generate \/ Maintain \/ SaveWorkOrder \/ SaveTicket

Spec == Init /\ [][Next]_vars
=============================================================================
