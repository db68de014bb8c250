--------------------------- MODULE TicketWorkOrder ---------------------------
(***************************************************************************)
(* One FM ticket, the maintenance work order linked to it, and the         *)
(* requests that operate on the two rows at the same time.                 *)
(*                                                                         *)
(* Every request is one database transaction under READ COMMITTED.  The    *)
(* view loads the object without a lock (get_object), the service then     *)
(* takes row locks in the order its statements reach the rows, and all its *)
(* writes become visible together at commit.  Two ways of reaching a row   *)
(* differ in everything that follows:                                      *)
(*   - "reload": SELECT ... FOR UPDATE, the locked row is read again;      *)
(*   - "write":  UPDATE from the instance the view loaded.  Django saves   *)
(*     every column, so the whole stale row is written back.               *)
(*                                                                         *)
(* Rows of other tables are abstracted: the SLA row contributes its lock   *)
(* only, and whether reassign_work_order and unassign_work_order find an   *)
(* active assignment is left open (when they do not, the request fails).   *)
(***************************************************************************)
EXTENDS Naturals, Sequences

CONSTANTS
  Sessions,     \* database sessions (web workers, the beat worker)
  NoSession,    \* the owner of a row nobody has locked
  Requests,     \* the kinds of requests the clients issue
  MaxRequests   \* bound: requests begun in a behaviour

Operations ==
  {"change_status", "assign_ticket", "comment", "update_ticket",
   "requester_cancel", "requester_acknowledge", "requester_reopen",
   "auto_close", "generate",
   "transition", "complete_again", "assign", "reassign", "unassign",
   "update_work_order"}

ASSUME SessionsAssumption == NoSession \notin Sessions
ASSUME RequestsAssumption == Requests \subseteq Operations
ASSUME BoundAssumption == MaxRequests \in Nat

Rows == {"sla", "work_order", "ticket"}

(***************************************************************************)
(* Ticket rows.  resolvedAt abstracts the timestamp by its age: "expired"  *)
(* is at or before the automatic-closure cutoff.  profile abstracts the    *)
(* descriptive columns by what the services ask of them.                   *)
(***************************************************************************)
TicketStatus == {"draft", "open", "assigned", "in_progress", "on_hold",
                 "resolved", "closed", "cancelled"}
Profile == {"unclassified", "classified", "with_asset"}

Ticket == [status     : TicketStatus,
           resolvedAt : {"unset", "recent", "expired"},
           closedAt   : BOOLEAN,
           responded  : BOOLEAN,
           assignee   : BOOLEAN,
           profile    : Profile]

WorkOrderStatus == {"draft", "open", "assigned", "in_progress", "on_hold",
                    "completed", "cancelled", "reopened", "closed"}

\* A ticket without a work order has the status "none" in this column.
WorkOrder == [status      : WorkOrderStatus \union {"none"},
              completedAt : BOOLEAN,
              reason      : BOOLEAN]

NoWorkOrder == [status |-> "none", completedAt |-> FALSE, reason |-> FALSE]

ActiveTicketStatus == {"draft", "open", "assigned", "in_progress", "on_hold"}
TerminalTicketStatus == {"closed", "cancelled"}
RequesterCancellable == {"draft", "open", "assigned", "on_hold"}
ActiveMaintenance == {"draft", "open", "assigned", "in_progress", "on_hold",
                      "reopened"}
TerminalAssignment == {"completed", "cancelled", "closed"}

\* The work-order statuses a status may be followed by.
Transitions ==
  [draft       |-> {"open"},
   open        |-> {"assigned", "cancelled"},
   assigned    |-> {"in_progress", "cancelled"},
   in_progress |-> {"on_hold", "completed", "cancelled"},
   on_hold     |-> {"in_progress"},
   completed   |-> {"reopened"},
   cancelled   |-> {"reopened"},
   reopened    |-> {"assigned"},
   closed      |-> {},
   none        |-> {}]

\* Targets of the workflow endpoints (start, hold, resume, complete, cancel,
\* reopen).  Submit leaves "draft", which no linked work order ever has.
WorkflowTargets == {"in_progress", "on_hold", "completed", "cancelled",
                    "reopened"}

\* The ticket status a work-order status stands for, "none" when unmapped.
MappedTicketStatus(s) ==
  CASE s = "assigned"                  -> "assigned"
    [] s \in {"in_progress", "reopened"} -> "in_progress"
    [] s = "on_hold"                   -> "on_hold"
    [] s = "completed"                 -> "resolved"
    [] OTHER                           -> "none"

-----------------------------------------------------------------------------
(***************************************************************************)
(* Locking.  A plan lists the rows a transaction locks, in order.          *)
(***************************************************************************)
Reload(r) == [row |-> r, mode |-> "reload"]
Write(r)  == [row |-> r, mode |-> "write"]

LockPlan(op) ==
  CASE op = "requester_cancel" -> <<Reload("ticket"), Reload("work_order")>>
    [] op \in {"requester_acknowledge", "requester_reopen", "auto_close",
               "generate"}     -> <<Reload("ticket")>>
    [] op = "transition"       -> <<Write("sla"), Write("work_order"),
                                    Reload("ticket")>>
    [] op \in {"assign", "complete_again"}
                               -> <<Write("work_order"), Write("sla")>>
    [] op \in {"reassign", "unassign", "update_work_order"}
                               -> <<Write("work_order")>>
    [] OTHER                   -> <<Write("ticket")>>

VARIABLES
  ticket,      \* the committed ticket row
  workOrder,   \* the committed work-order row
  logged,      \* newest FmTicketStatusHistory entry: its to_status and author
  locks,       \* row -> the session that holds its lock
  sess,        \* session -> the request it serves
  begun        \* number of requests begun

vars == <<ticket, workOrder, logged, locks, sess, begun>>

Author == {"creation", "staff", "requester", "system", "workflow"}
LogEntry == [to : TicketStatus, by : Author]

\* What a request may carry: the target of a status change, or a profile.
Argument == TicketStatus \union WorkOrderStatus \union Profile \union {"none"}

Session == [op        : Operations \union {"idle"},
            arg       : Argument,
            held      : 0..3,
            ticket    : Ticket,
            workOrder : WorkOrder]

NewTicket == [status |-> "open", resolvedAt |-> "unset", closedAt |-> FALSE,
              responded |-> FALSE, assignee |-> FALSE,
              profile |-> "unclassified"]

Idle == [op |-> "idle", arg |-> "none", held |-> 0,
         ticket |-> NewTicket, workOrder |-> NoWorkOrder]

TypeOK ==
  /\ ticket \in Ticket
  /\ workOrder \in WorkOrder
  /\ logged \in LogEntry
  /\ locks \in [Rows -> Sessions \union {NoSession}]
  /\ sess \in [Sessions -> Session]
  /\ begun \in 0..MaxRequests

\* A ticket as create_ticket leaves it.
Init ==
  /\ \E p \in Profile : ticket = [NewTicket EXCEPT !.profile = p]
  /\ workOrder = NoWorkOrder
  /\ logged = [to |-> "open", by |-> "creation"]
  /\ locks = [r \in Rows |-> NoSession]
  /\ sess = [s \in Sessions |-> Idle]
  /\ begun = 0

\* The rows as assign_ticket and generate_work_order_from_ticket, served one
\* after the other, leave them.
GeneratedInit ==
  /\ ticket = [NewTicket EXCEPT !.status = "assigned", !.assignee = TRUE,
                                !.responded = TRUE, !.profile = "with_asset"]
  /\ workOrder = [NoWorkOrder EXCEPT !.status = "assigned"]
  /\ logged = [to |-> "assigned", by |-> "staff"]
  /\ locks = [r \in Rows |-> NoSession]
  /\ sess = [s \in Sessions |-> Idle]
  /\ begun = 0

-----------------------------------------------------------------------------
(***************************************************************************)
(* What the services compute from the rows they hold.                      *)
(***************************************************************************)
\* Wrong: a ticket that is worked on again keeps its old resolution time.
ChangedKeepingResolution(t, to) ==
  [t EXCEPT !.status     = to,
            !.responded  = @ \/ to \notin {"draft", "open"},
            !.resolvedAt = IF to \in {"resolved", "closed"} /\ @ = "unset"
                           THEN "recent" ELSE @,
            !.closedAt   = to \in TerminalTicketStatus]

\* change_ticket_status: first response, timestamps, status.
ChangedTicket(t, to) ==
  [t EXCEPT !.status     = to,
            !.responded  = @ \/ to \notin {"draft", "open"},
            !.resolvedAt = IF to \in ActiveTicketStatus THEN "unset"
                           ELSE IF to # "cancelled" /\ @ = "unset" THEN "recent"
                           ELSE @,
            !.closedAt   = to \in TerminalTicketStatus]

\* assign_ticket: a draft or open ticket becomes assigned.
AssignedTicket(t) ==
  [t EXCEPT !.assignee = TRUE, !.responded = TRUE,
            !.status = IF @ \in {"draft", "open"} THEN "assigned" ELSE @]

\* _transition_work_order: cancellation reason, completion timestamp, status.
MovedWorkOrder(w, to) ==
  [w EXCEPT !.status      = to,
            !.completedAt = CASE to = "completed" -> TRUE
                              [] to = "reopened"  -> FALSE
                              [] OTHER            -> @,
            !.reason      = CASE to = "cancelled" -> TRUE
                              [] to = "reopened"  -> FALSE
                              [] OTHER            -> @]

\* The part of MaintenanceWorkOrder.clean these columns are subject to; every
\* save runs it on the instance being saved.
CleanWorkOrder(w) ==
  /\ w.completedAt => w.status \in {"completed", "closed"}
  /\ w.status = "cancelled" => w.reason

\* assign / reassign / unassign: the status part of the row.
ReassignedWorkOrder(w) ==
  [w EXCEPT !.status = IF @ \in {"open", "reopened"} THEN "assigned" ELSE @]
UnassignedWorkOrder(w) ==
  [w EXCEPT !.status = IF @ = "assigned" THEN "open" ELSE @]

\* Wrong: synchronisation moves a ticket whatever it has become.
SyncNeverRefused(t, workOrderStatus) == FALSE

\* synchronize_source_ticket_status refuses to move a terminal ticket.
SyncRefused(t, workOrderStatus) ==
  LET target == MappedTicketStatus(workOrderStatus)
  IN  target # "none" /\ t.status \in TerminalTicketStatus /\ t.status # target

\* Wrong: a status no ticket status stands for is applied as well.
SyncedUnmapped(t, workOrderStatus) ==
  IF MappedTicketStatus(workOrderStatus) = t.status THEN t
  ELSE ChangedTicket(t, MappedTicketStatus(workOrderStatus))

\* The ticket row after synchronisation with a work-order status.
SyncedTicket(t, workOrderStatus) ==
  LET target == MappedTicketStatus(workOrderStatus)
  IN  IF target \in {"none", t.status} THEN t ELSE ChangedTicket(t, target)

-----------------------------------------------------------------------------
(***************************************************************************)
(* A request arrives: the view loads both rows without a lock, and the     *)
(* serializer and the checks on the loaded instance let it through.        *)
(***************************************************************************)
LoadedAccepts(op, arg) ==
  CASE op = "change_status"  -> arg \in TicketStatus \ {ticket.status}
    [] op = "assign_ticket"  -> arg = "none" /\ ticket.profile # "unclassified"
    [] op = "update_ticket"  -> arg \in Profile
    [] op = "auto_close"     -> /\ arg = "none"
                                /\ ticket.status = "resolved"
                                /\ ticket.resolvedAt = "expired"
    [] op = "transition"     ->
         arg \in WorkflowTargets \intersect Transitions[workOrder.status]
    [] op = "complete_again" -> arg = "none" /\ workOrder.status = "completed"
    [] op = "assign"         ->
         arg = "none" /\ workOrder.status \in {"open", "reopened"}
    [] op \in {"reassign", "unassign"} ->
         arg = "none" /\ workOrder.status \notin TerminalAssignment \union {"none"}
    [] op = "update_work_order" -> arg = "none" /\ workOrder.status # "none"
    [] OTHER                 -> arg = "none"

Begin(s) ==
  /\ sess[s].op = "idle"
  /\ begun < MaxRequests
  /\ \E op \in Requests, arg \in Argument :
        /\ LoadedAccepts(op, arg)
        /\ sess' = [sess EXCEPT ![s] = [op |-> op, arg |-> arg, held |-> 0,
                                        ticket |-> ticket,
                                        workOrder |-> workOrder]]
  /\ begun' = begun + 1
  /\ UNCHANGED <<ticket, workOrder, logged, locks>>

NextLock(s) == LockPlan(sess[s].op)[sess[s].held + 1]
Waiting(s) == sess[s].op # "idle" /\ sess[s].held < Len(LockPlan(sess[s].op))

\* Wrong: the row is locked, and the loaded instance used all the same.
RereadNothing(lock, r, loaded, committed) == loaded

\* Wrong: the work order is locked, but the one loaded with the ticket used.
RereadTicketOnly(lock, r, loaded, committed) ==
  IF r = "ticket" /\ lock = Reload(r) THEN committed ELSE loaded

\* What a transaction works on once it has the lock.
Reread(lock, r, loaded, committed) ==
  IF lock = Reload(r) THEN committed ELSE loaded

\* The next statement of the transaction gets its row lock.
Acquire(s) ==
  /\ Waiting(s)
  /\ LET next == NextLock(s) IN
       /\ locks[next.row] = NoSession
       /\ locks' = [locks EXCEPT ![next.row] = s]
       /\ sess' = [sess EXCEPT
            ![s].held      = @ + 1,
            ![s].ticket    = Reread(next, "ticket", @, ticket),
            ![s].workOrder = Reread(next, "work_order", @, workOrder)]
  /\ UNCHANGED <<ticket, workOrder, logged, begun>>

\* The transaction ends and its locks are released.
Release(s) ==
  /\ sess' = [sess EXCEPT ![s] = Idle]
  /\ locks' = [r \in Rows |-> IF locks[r] = s THEN NoSession ELSE locks[r]]
  /\ UNCHANGED begun

\* The checks a service makes once it holds its locks.
Accepted(s) ==
  LET q == sess[s]
      to == q.arg
  IN  CASE q.op = "requester_cancel" ->
             /\ q.ticket.status \in RequesterCancellable
             /\ q.workOrder.status \notin ActiveMaintenance
        [] q.op \in {"requester_acknowledge", "requester_reopen"} ->
             q.ticket.status = "resolved"
        [] q.op = "auto_close" ->
             q.ticket.status = "resolved" /\ q.ticket.resolvedAt = "expired"
        [] q.op = "generate" ->
             /\ q.ticket.profile = "with_asset"
             /\ q.ticket.assignee
             /\ q.ticket.status \in {"assigned", "in_progress"}
             /\ workOrder.status = "none"
        [] q.op = "transition" ->
             /\ CleanWorkOrder(MovedWorkOrder(q.workOrder, to))
             /\ ~SyncRefused(q.ticket, to)
        [] q.op = "assign" ->
             CleanWorkOrder(ReassignedWorkOrder(q.workOrder))
        [] q.op = "reassign" ->
             CleanWorkOrder(ReassignedWorkOrder(q.workOrder))
        [] q.op = "unassign" ->
             CleanWorkOrder(UnassignedWorkOrder(q.workOrder))
        [] OTHER -> TRUE

LocksTaken(s) ==
  sess[s].op # "idle" /\ sess[s].held = Len(LockPlan(sess[s].op))

\* Wrong: only the instance the view loaded was checked.
CommitsUnchecked(s, op) == sess[s].op = op /\ LocksTaken(s)

Commits(s, op) == sess[s].op = op /\ LocksTaken(s) /\ Accepted(s)

\* A status-history entry is written with the ticket row.
WriteTicketStatus(t, by) ==
  /\ ticket' = t
  /\ logged' = [to |-> t.status, by |-> by]

-----------------------------------------------------------------------------
(***************************************************************************)
(* Operations on the ticket, by staff: the stale instance is saved.        *)
(***************************************************************************)
ChangeTicketStatus(s) ==
  /\ Commits(s, "change_status")
  /\ WriteTicketStatus(ChangedTicket(sess[s].ticket, sess[s].arg), "staff")
  /\ UNCHANGED workOrder
  /\ Release(s)

AssignTicket(s) ==
  /\ Commits(s, "assign_ticket")
  /\ LET t == AssignedTicket(sess[s].ticket) IN
       IF t.status = sess[s].ticket.status
       THEN ticket' = t /\ UNCHANGED logged
       ELSE WriteTicketStatus(t, "staff")
  /\ UNCHANGED workOrder
  /\ Release(s)

\* add_ticket_comment by somebody other than the requester.
AddTicketComment(s) ==
  /\ Commits(s, "comment")
  /\ ticket' = [sess[s].ticket EXCEPT !.responded = TRUE]
  /\ UNCHANGED <<workOrder, logged>>
  /\ Release(s)

UpdateTicket(s) ==
  /\ Commits(s, "update_ticket")
  /\ ticket' = [sess[s].ticket EXCEPT !.profile = sess[s].arg]
  /\ UNCHANGED <<workOrder, logged>>
  /\ Release(s)

(***************************************************************************)
(* Operations on the locked and reloaded ticket.                           *)
(***************************************************************************)
RequesterCancel(s) ==
  /\ Commits(s, "requester_cancel")
  /\ WriteTicketStatus(ChangedTicket(sess[s].ticket, "cancelled"), "requester")
  /\ UNCHANGED workOrder
  /\ Release(s)

RequesterAcknowledge(s) ==
  /\ Commits(s, "requester_acknowledge")
  /\ WriteTicketStatus(ChangedTicket(sess[s].ticket, "closed"), "requester")
  /\ UNCHANGED workOrder
  /\ Release(s)

RequesterReopen(s) ==
  /\ Commits(s, "requester_reopen")
  /\ WriteTicketStatus(ChangedTicket(sess[s].ticket, "in_progress"), "requester")
  /\ UNCHANGED workOrder
  /\ Release(s)

AutoClose(s) ==
  /\ Commits(s, "auto_close")
  /\ WriteTicketStatus(ChangedTicket(sess[s].ticket, "closed"), "system")
  /\ UNCHANGED workOrder
  /\ Release(s)

\* create_work_order (open) followed by assign_work_order (assigned).
GenerateWorkOrder(s) ==
  /\ Commits(s, "generate")
  /\ workOrder' = [NoWorkOrder EXCEPT !.status = "assigned"]
  /\ UNCHANGED <<ticket, logged>>
  /\ Release(s)

(***************************************************************************)
(* Operations on the work order: the stale instance is saved, and the      *)
(* workflow actions then synchronise the locked, reloaded ticket.          *)
(***************************************************************************)
TransitionWorkOrder(s) ==
  /\ Commits(s, "transition")
  /\ LET t == SyncedTicket(sess[s].ticket, sess[s].arg) IN
       IF t.status = sess[s].ticket.status
       THEN UNCHANGED <<ticket, logged>>
       ELSE WriteTicketStatus(t, "workflow")
  /\ workOrder' = MovedWorkOrder(sess[s].workOrder, sess[s].arg)
  /\ Release(s)

\* complete_work_order on an instance loaded as completed: no transition, and
\* only the completion columns are saved.
CompleteAgain(s) ==
  /\ Commits(s, "complete_again")
  /\ workOrder' = [workOrder EXCEPT !.completedAt = TRUE]
  /\ UNCHANGED <<ticket, logged>>
  /\ Release(s)

\* assign_work_order, reassign_work_order: no synchronisation.
AssignWorkOrder(s) ==
  /\ Commits(s, "assign") \/ Commits(s, "reassign")
  /\ workOrder' = ReassignedWorkOrder(sess[s].workOrder)
  /\ UNCHANGED <<ticket, logged>>
  /\ Release(s)

UnassignWorkOrder(s) ==
  /\ Commits(s, "unassign")
  /\ workOrder' = UnassignedWorkOrder(sess[s].workOrder)
  /\ UNCHANGED <<ticket, logged>>
  /\ Release(s)

\* update_work_order may also blank or fill the cancellation reason.
UpdateWorkOrder(s) ==
  /\ Commits(s, "update_work_order")
  /\ \E filled \in BOOLEAN :
        LET w == [sess[s].workOrder EXCEPT !.reason = filled] IN
          CleanWorkOrder(w) /\ workOrder' = w
  /\ UNCHANGED <<ticket, logged>>
  /\ Release(s)

(***************************************************************************)
(* Transactions that end without an effect.                                *)
(***************************************************************************)
\* Wrong: the closure task goes on to its next ticket in the same transaction.
RefuseWithoutEnd(s) ==
  /\ LocksTaken(s)
  /\ sess[s].op # "auto_close"
  /\ ~Accepted(s) \/ sess[s].op = "update_work_order"
  /\ Release(s)
  /\ UNCHANGED <<ticket, workOrder, logged>>

\* A check on the locked rows fails, and the service raises.
Refuse(s) ==
  /\ LocksTaken(s)
  /\ ~Accepted(s) \/ sess[s].op = "update_work_order"
  /\ Release(s)
  /\ UNCHANGED <<ticket, workOrder, logged>>

\* A notification or a history insert raises, or the connection is lost.
Fail(s) ==
  /\ sess[s].op # "idle"
  /\ Release(s)
  /\ UNCHANGED <<ticket, workOrder, logged>>

WaitsFor(s, t) == Waiting(s) /\ locks[NextLock(s).row] = t
Deadlocked(C) ==
  \A s \in C : (\E t \in C : WaitsFor(s, t)) /\ (\E t \in C : WaitsFor(t, s))

\* PostgreSQL aborts one transaction of a cycle of lock waits.
DeadlockVictim(s) ==
  /\ \E C \in SUBSET Sessions : s \in C /\ Deadlocked(C)
  /\ Release(s)
  /\ UNCHANGED <<ticket, workOrder, logged>>

\* The acknowledgement period of every resolution on record runs out.
PeriodExpires ==
  LET Aged(t) == [t EXCEPT !.resolvedAt = IF @ = "recent" THEN "expired" ELSE @]
  IN  /\ ticket.resolvedAt = "recent"
      /\ ticket' = Aged(ticket)
      /\ sess' = [s \in Sessions |-> [sess[s] EXCEPT !.ticket = Aged(@)]]
      /\ UNCHANGED <<workOrder, logged, locks, begun>>

Commit(s) ==
  \/ ChangeTicketStatus(s) \/ AssignTicket(s) \/ AddTicketComment(s)
  \/ UpdateTicket(s)
  \/ RequesterCancel(s) \/ RequesterAcknowledge(s) \/ RequesterReopen(s)
  \/ AutoClose(s) \/ GenerateWorkOrder(s)
  \/ TransitionWorkOrder(s) \/ CompleteAgain(s)
  \/ AssignWorkOrder(s) \/ UnassignWorkOrder(s) \/ UpdateWorkOrder(s)

Step(s) == Acquire(s) \/ Commit(s) \/ Refuse(s) \/ DeadlockVictim(s)

Next ==
  \/ PeriodExpires
  \/ \E s \in Sessions : Begin(s) \/ Step(s) \/ Fail(s)

\* The server keeps executing the statements of an open transaction, and lock
\* waits are queued, so a session is not passed over for ever.
Fairness == \A s \in Sessions : SF_vars(Step(s))

Spec == (Init \/ GeneratedInit) /\ [][Next]_vars
FairSpec == Spec /\ Fairness

-----------------------------------------------------------------------------
(***************************************************************************)
(* Properties.                                                             *)
(***************************************************************************)
RowConsistent(t) ==
  /\ t.status \in ActiveTicketStatus => t.resolvedAt = "unset"
  /\ t.status \in {"resolved", "closed"} => t.resolvedAt # "unset"
  /\ t.closedAt <=> t.status \in TerminalTicketStatus
  /\ t.status \notin {"draft", "open"} => t.responded

\* Whatever stale instance is saved last, the timestamps of the committed
\* ticket still belong to its status: change_ticket_status, assign_ticket and
\* the plain saves never combine the columns of two versions of the row.
TicketRowConsistent == RowConsistent(ticket)

Locked(s, r) ==
  \E i \in 1..sess[s].held : LockPlan(sess[s].op)[i].row = r
Reloaded(s, r) ==
  \E i \in 1..sess[s].held : LockPlan(sess[s].op)[i] = Reload(r)

\* A row lock belongs to the transaction that took it, and to no other
\* transaction, until that transaction ends.
LocksMatchPlans ==
  \A s \in Sessions, r \in Rows : locks[r] = s <=> Locked(s, r)

\* select_for_update: what a service read under the row lock is still the
\* committed row when it decides, whatever the other sessions did meanwhile.
LockedViewIsCurrent ==
  \A s \in Sessions :
    /\ Reloaded(s, "ticket") => sess[s].ticket = ticket
    /\ Reloaded(s, "work_order") => sess[s].workOrder = workOrder

\* A requester never cancels a ticket whose work order is, at that moment, in
\* active maintenance execution (requester_cancel_ticket, FO-077).
RequesterCancelExcludesExecution ==
  [][\A s \in Sessions : RequesterCancel(s) =>
        /\ ticket.status \in RequesterCancellable
        /\ workOrder.status \notin ActiveMaintenance]_vars

\* Acknowledgement, reopening and automatic closure exclude one another: each
\* moves a ticket that is resolved when it commits, the automatic one only
\* when the period of the current resolution has run out (FO-063, FO-078).
ResolutionDecidedOnce ==
  [][\A s \in Sessions :
       /\ RequesterAcknowledge(s) \/ RequesterReopen(s) =>
             ticket.status = "resolved"
       /\ AutoClose(s) =>
             ticket.status = "resolved" /\ ticket.resolvedAt = "expired"]_vars

\* A workflow action leaves the ticket in the status its own target stands
\* for, and never moves a closed or cancelled ticket (FO-062), although the
\* work order it writes may be stale.
SynchronizedTogether ==
  [][\A s \in Sessions : TransitionWorkOrder(s) =>
        /\ MappedTicketStatus(workOrder'.status) \in {"none", ticket'.status}
        /\ ticket.status \in TerminalTicketStatus => UNCHANGED ticket]_vars

\* A work order is generated at most once per ticket, and from a ticket that
\* is classified, assigned and not yet decided when the row appears.
GeneratedFromReadyTicket ==
  [][\A s \in Sessions : GenerateWorkOrder(s) =>
        /\ workOrder.status = "none"
        /\ ticket.status \in {"assigned", "in_progress"}
        /\ ticket.assignee
        /\ ticket.profile = "with_asset"]_vars

\* Repeated runs of the automatic closure close a ticket at most once: its
\* newest recorded change is not already an automatic closure (FO-063).
AutoClosedOnce ==
  [][\A s \in Sessions :
        AutoClose(s) => logged # [to |-> "closed", by |-> "system"]]_vars

\* Requests that save the loaded ticket and write no history entry of what
\* that makes of its status.
Unlogged == {"assign_ticket", "comment", "update_ticket"}

\* Whatever overlaps, the decisions made under a lock and the workflow actions
\* take effect one at a time, each on the committed rows: locking and reading
\* again hide every interleaving but the stale saves of staff.
Contract == INSTANCE TicketContract WITH
  PlainSaves <- Requests \intersect Unlogged # {},
  status <- ticket.status,
  due <- ticket.resolvedAt = "expired",
  by <- logged.by,
  work <- workOrder.status
ImplementsContract == Contract!Spec

\* Locks are taken in an order that excludes a cycle of waiting transactions
\* (the locking contract of requester_workflow.py).
NoDeadlock == \A C \in SUBSET Sessions : Deadlocked(C) => C = {}

\* Every request is answered: no transaction waits for ever, since a cycle of
\* waits loses a member and every other wait ends with a commit or a rollback.
RequestsAreAnswered ==
  \A s \in Sessions : sess[s].op # "idle" ~> sess[s].op = "idle"
=============================================================================
