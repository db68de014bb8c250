------------------------ MODULE TicketWorkOrder_proofs ------------------------
(***************************************************************************)
(* Invariants of TicketWorkOrder for any number of sessions and requests.  *)
(*                                                                         *)
(* LockedViewIsCurrent is not inductive alone: that nobody rewrites a row  *)
(* another transaction has reloaded rests on every writer holding the row  *)
(* lock, hence on locks and plans agreeing (LocksMatchPlans), and on the   *)
(* one plan that reloads the work order having locked the ticket before    *)
(* it, since a work order is created under the lock of its ticket.         *)
(***************************************************************************)
EXTENDS TicketWorkOrder, TLAPS

\* What the view has checked of a request, and how far it can be.
RequestOK(q) ==
  /\ q.held <= Len(LockPlan(q.op))
  /\ q.op = "idle" => q.held = 0
  /\ q.op = "change_status" => q.arg \in TicketStatus
  /\ q.op = "update_ticket" => q.arg \in Profile
  /\ q.op = "transition" => q.arg \in WorkflowTargets

RequestsOK ==
  \A s \in Sessions : RequestOK(sess[s]) /\ RowConsistent(sess[s].ticket)

IInv ==
  /\ TypeOK
  /\ LocksMatchPlans
  /\ LockedViewIsCurrent
  /\ TicketRowConsistent
  /\ RequestsOK

-----------------------------------------------------------------------------
(***************************************************************************)
(* Lock plans.                                                             *)
(***************************************************************************)
\* A plan has one to three entries and names no row twice.
LEMMA PlanShape ==
  ASSUME NEW op \in Operations \union {"idle"}
  PROVE  /\ Len(LockPlan(op)) \in 1..3
         /\ \A i \in 1..Len(LockPlan(op)) :
              LockPlan(op)[i] \in [row : Rows, mode : {"reload", "write"}]
         /\ \A i, j \in 1..Len(LockPlan(op)) :
              LockPlan(op)[i].row = LockPlan(op)[j].row => i = j
  BY DEF LockPlan, Reload, Write, Operations, Rows

\* Only requester_cancel reloads a work order, and it does so after the ticket.
LEMMA WorkOrderReloadedUnderTicket ==
  ASSUME NEW op \in Operations \union {"idle"},
         NEW i \in 1..Len(LockPlan(op)),
         LockPlan(op)[i] = Reload("work_order")
  PROVE  i = 2 /\ LockPlan(op)[1] = Reload("ticket")
  BY DEF LockPlan, Reload, Write, Operations

\* What a session has reloaded it has locked.
LEMMA ReloadedIsLocked ==
  ASSUME NEW s, NEW r, Reloaded(s, r)
  PROVE  Locked(s, r)
  BY DEF Reloaded, Locked, Reload

\* Two sessions never hold the same row.
LEMMA LocksExclusive ==
  ASSUME LocksMatchPlans, NEW s \in Sessions, NEW t \in Sessions,
         NEW r \in Rows, Locked(s, r), Locked(t, r)
  PROVE  s = t
  BY DEF LocksMatchPlans

-----------------------------------------------------------------------------
(***************************************************************************)
(* What the services write.                                                *)
(***************************************************************************)
LEMMA ChangedTicketConsistent ==
  ASSUME NEW t \in Ticket, RowConsistent(t), NEW to \in TicketStatus
  PROVE  /\ ChangedTicket(t, to) \in Ticket
         /\ ChangedTicket(t, to).status = to
         /\ RowConsistent(ChangedTicket(t, to))
<1> DEFINE c == ChangedTicket(t, to)
<1>1. DOMAIN c = DOMAIN t /\ c.status = to /\ c.assignee = t.assignee
      /\ c.profile = t.profile
  BY DEF ChangedTicket, Ticket
<1>2. c.resolvedAt = IF to \in ActiveTicketStatus THEN "unset"
                     ELSE IF to # "cancelled" /\ t.resolvedAt = "unset"
                     THEN "recent" ELSE t.resolvedAt
  BY DEF ChangedTicket, Ticket
<1>3. c.responded = (t.responded \/ to \notin {"draft", "open"})
      /\ c.closedAt = (to \in TerminalTicketStatus)
  BY Zenon DEF ChangedTicket, Ticket
<1>4. c \in Ticket
  <2>1. c.responded \in BOOLEAN /\ c.closedAt \in BOOLEAN
    BY <1>3
  <2>2. c.resolvedAt \in {"unset", "recent", "expired"}
    BY <1>2 DEF Ticket
  <2>3. ASSUME NEW k \in BOOLEAN, NEW b \in BOOLEAN,
               NEW r \in {"unset", "recent", "expired"}
        PROVE  [t EXCEPT !.status = to, !.responded = b, !.resolvedAt = r,
                         !.closedAt = k] \in Ticket
    BY DEF Ticket
  <2>4. c = [t EXCEPT !.status = to, !.responded = c.responded,
                      !.resolvedAt = c.resolvedAt, !.closedAt = c.closedAt]
    BY <1>2, <1>3, Zenon DEF ChangedTicket
  <2> HIDE DEF c
  <2> QED
    BY <2>1, <2>2, <2>3, <2>4
<1>5. RowConsistent(c)
  BY <1>1, <1>2, <1>3 DEF RowConsistent, TicketStatus, Ticket,
     ActiveTicketStatus, TerminalTicketStatus
<1> QED
  BY <1>1, <1>4, <1>5

LEMMA AssignedTicketConsistent ==
  ASSUME NEW t \in Ticket, RowConsistent(t)
  PROVE  /\ AssignedTicket(t) \in Ticket
         /\ RowConsistent(AssignedTicket(t))
  BY DEF AssignedTicket, RowConsistent, Ticket, TicketStatus,
         ActiveTicketStatus, TerminalTicketStatus

LEMMA MappedStatusType ==
  ASSUME NEW w
  PROVE  /\ MappedTicketStatus(w) \in TicketStatus \union {"none"}
         /\ MappedTicketStatus(w) \notin TerminalTicketStatus
  BY DEF MappedTicketStatus, TicketStatus, TerminalTicketStatus

LEMMA SyncedTicketConsistent ==
  ASSUME NEW t \in Ticket, RowConsistent(t), NEW w
  PROVE  /\ SyncedTicket(t, w) \in Ticket
         /\ RowConsistent(SyncedTicket(t, w))
         /\ MappedTicketStatus(w) \in {"none", SyncedTicket(t, w).status}
  BY MappedStatusType, ChangedTicketConsistent DEF SyncedTicket

LEMMA WorkOrderWritesTyped ==
  ASSUME NEW w \in WorkOrder
  PROVE  /\ \A to \in WorkflowTargets : MovedWorkOrder(w, to) \in WorkOrder
         /\ ReassignedWorkOrder(w) \in WorkOrder
         /\ UnassignedWorkOrder(w) \in WorkOrder
  BY DEF MovedWorkOrder, ReassignedWorkOrder, UnassignedWorkOrder, WorkOrder,
         WorkOrderStatus, WorkflowTargets

-----------------------------------------------------------------------------
(***************************************************************************)
(* Steps.                                                                  *)
(***************************************************************************)
\* A transaction that ends preserves the invariant when it wrote only rows it
\* had locked, a new work order being covered by the lock of its ticket.
LEMMA ReleasePreserves ==
  ASSUME IInv, NEW s \in Sessions, Release(s),
         ticket' \in Ticket, RowConsistent(ticket'),
         ticket' = ticket \/ Locked(s, "ticket"),
         workOrder' \in WorkOrder,
         workOrder' = workOrder \/ Locked(s, "work_order") \/ Locked(s, "ticket"),
         logged' \in LogEntry
  PROVE  IInv'
<1> USE DEF IInv
<1>1. sess \in [Sessions -> Session] /\ locks \in [Rows -> Sessions \union {NoSession}]
  BY DEF TypeOK
<1>2. Idle \in Session /\ RequestOK(Idle) /\ RowConsistent(Idle.ticket)
  BY PlanShape DEF Idle, Session, NewTicket, NoWorkOrder, Ticket, WorkOrder,
     Argument, RequestOK, RowConsistent, TicketStatus, ActiveTicketStatus,
     TerminalTicketStatus, Profile
<1>3. \A t \in Sessions : sess'[t] = IF t = s THEN Idle ELSE sess[t]
  BY <1>1 DEF Release
<1>4. \A t \in Sessions : \A r :
        /\ Locked(t, r)' <=> (t # s /\ Locked(t, r))
        /\ Reloaded(t, r)' <=> (t # s /\ Reloaded(t, r))
  BY <1>3 DEF Locked, Reloaded, Idle
<1>5. TypeOK'
  BY <1>1, <1>2 DEF Release, TypeOK
<1>6. LocksMatchPlans'
  BY <1>1, <1>4, SessionsAssumption DEF Release, LocksMatchPlans
<1>7. ASSUME NEW t \in Sessions, Reloaded(t, "ticket")'
      PROVE  sess'[t].ticket = ticket'
  <2>1. t # s /\ Reloaded(t, "ticket") /\ Locked(t, "ticket")
    BY <1>4, <1>7, ReloadedIsLocked
  <2>2. ~Locked(s, "ticket")
    BY <2>1, LocksExclusive DEF Rows
  <2> QED
    BY <1>3, <2>1, <2>2 DEF LockedViewIsCurrent
<1>8. ASSUME NEW t \in Sessions, Reloaded(t, "work_order")'
      PROVE  sess'[t].workOrder = workOrder'
  <2>1. t # s /\ Reloaded(t, "work_order") /\ Locked(t, "work_order")
    BY <1>4, <1>8, ReloadedIsLocked
  <2>2. Locked(t, "ticket")
    <3>1. sess[t].held \in 0..3 /\ sess[t].op \in Operations \union {"idle"}
      BY <1>1 DEF Session
    <3>2. RequestOK(sess[t])
      BY DEF RequestsOK
    <3>3. PICK i \in 1..sess[t].held : LockPlan(sess[t].op)[i] = Reload("work_order")
      BY <2>1 DEF Reloaded
    <3>4. i \in 1..Len(LockPlan(sess[t].op))
      BY <3>1, <3>2, <3>3, PlanShape DEF RequestOK
    <3>5. i = 2 /\ LockPlan(sess[t].op)[1] = Reload("ticket")
      BY <3>1, <3>3, <3>4, WorkOrderReloadedUnderTicket
    <3> QED
      BY <3>1, <3>3, <3>5 DEF Locked, Reload
  <2>3. ~Locked(s, "ticket") /\ ~Locked(s, "work_order")
    BY <2>1, <2>2, LocksExclusive DEF Rows
  <2> QED
    BY <1>3, <2>1, <2>3 DEF LockedViewIsCurrent
<1>9. LockedViewIsCurrent'
  BY <1>7, <1>8 DEF LockedViewIsCurrent
<1>10. TicketRowConsistent' /\ RequestsOK'
  BY <1>2, <1>3 DEF TicketRowConsistent, RequestsOK
<1> QED
  BY <1>5, <1>6, <1>9, <1>10

LEMMA BeginPreserves ==
  ASSUME IInv, NEW s \in Sessions, Begin(s)
  PROVE  IInv'
<1> USE DEF IInv
<1>1. sess \in [Sessions -> Session] /\ ticket \in Ticket /\ workOrder \in WorkOrder
  BY DEF TypeOK
<1>2. PICK op \in Requests, arg \in Argument :
        /\ LoadedAccepts(op, arg)
        /\ sess' = [sess EXCEPT ![s] = [op |-> op, arg |-> arg, held |-> 0,
                                        ticket |-> ticket,
                                        workOrder |-> workOrder]]
  BY DEF Begin
<1> DEFINE q == [op |-> op, arg |-> arg, held |-> 0, ticket |-> ticket,
                 workOrder |-> workOrder]
<1>3. op \in Operations /\ op # "idle"
  BY RequestsAssumption DEF Operations
<1>4. q \in Session
  BY <1>1, <1>3 DEF Session
<1>5. RequestOK(q) /\ RowConsistent(q.ticket)
  <2>1. Len(LockPlan(op)) \in 1..3
    BY <1>3, PlanShape
  <2>2. op = "change_status" => arg \in TicketStatus
    BY <1>2 DEF LoadedAccepts
  <2>3. op = "update_ticket" => arg \in Profile
    BY <1>2 DEF LoadedAccepts
  <2>4. op = "transition" => arg \in WorkflowTargets
    BY <1>2 DEF LoadedAccepts
  <2> QED
    BY <1>3, <2>1, <2>2, <2>3, <2>4 DEF RequestOK, TicketRowConsistent
<1>6. \A t \in Sessions : sess'[t] = IF t = s THEN q ELSE sess[t]
  BY <1>1, <1>2
<1>7. \A t \in Sessions : \A r :
        /\ Locked(t, r)' <=> (t # s /\ Locked(t, r))
        /\ Reloaded(t, r)' <=> (t # s /\ Reloaded(t, r))
  BY <1>6 DEF Locked, Reloaded
<1>8. \A r : ~Locked(s, r) /\ ~Reloaded(s, r)
  BY <1>1 DEF Begin, RequestsOK, RequestOK, Locked, Reloaded
<1>9. TypeOK'
  BY <1>1, <1>2, <1>4, BoundAssumption DEF TypeOK, Begin
<1>10. LocksMatchPlans'
  BY <1>7, <1>8 DEF Begin, LocksMatchPlans
<1>11. LockedViewIsCurrent'
  BY <1>6, <1>7 DEF Begin, LockedViewIsCurrent
<1>12. TicketRowConsistent' /\ RequestsOK'
  BY <1>5, <1>6 DEF Begin, TicketRowConsistent, RequestsOK
<1> QED
  BY <1>9, <1>10, <1>11, <1>12

LEMMA AcquirePreserves ==
  ASSUME IInv, NEW s \in Sessions, Acquire(s)
  PROVE  IInv'
<1> USE DEF IInv
<1> DEFINE plan == LockPlan(sess[s].op)
           n == sess[s].held + 1
           next == plan[n]
           q == [sess[s] EXCEPT
                   !.held      = @ + 1,
                   !.ticket    = IF next = Reload("ticket") THEN ticket ELSE @,
                   !.workOrder = IF next = Reload("work_order") THEN workOrder
                                 ELSE @]
<1>1. sess \in [Sessions -> Session] /\ ticket \in Ticket /\ workOrder \in WorkOrder
      /\ locks \in [Rows -> Sessions \union {NoSession}]
  BY DEF TypeOK
<1>2. /\ sess[s].op \in Operations \union {"idle"} /\ sess[s].op # "idle"
      /\ sess[s].held \in 0..3 /\ n \in 1..Len(plan) /\ n \in 1..3
  <2>1. sess[s].op \in Operations \union {"idle"} /\ sess[s].held \in 0..3
    BY <1>1 DEF Session
  <2>2. sess[s].op # "idle" /\ sess[s].held < Len(plan)
    BY DEF Acquire, Reread, Waiting
  <2>3. Len(plan) \in 1..3
    BY <2>1, PlanShape
  <2>4. \A h \in 0..3, l \in 1..3 : h < l => h + 1 \in 1..l /\ h + 1 \in 1..3
    OBVIOUS
  <2>5. n \in 1..Len(plan) /\ n \in 1..3
    BY <2>1, <2>2, <2>3, <2>4, Zenon
  <2> QED
    BY <2>1, <2>2, <2>5
<1>3. next.row \in Rows /\ locks[next.row] = NoSession
  <2>1. next.row \in Rows
    BY <1>2, PlanShape
  <2> QED
    BY <2>1 DEF Acquire, Reread, NextLock
<1>4. sess' = [sess EXCEPT ![s] = q] /\ locks' = [locks EXCEPT ![next.row] = s]
      /\ UNCHANGED <<ticket, workOrder, logged, begun>>
  BY <1>1 DEF Acquire, Reread, NextLock
<1>5. /\ q \in Session /\ q.op = sess[s].op /\ q.arg = sess[s].arg /\ q.held = n
      /\ q.ticket = IF next = Reload("ticket") THEN ticket ELSE sess[s].ticket
      /\ q.workOrder = IF next = Reload("work_order") THEN workOrder
                       ELSE sess[s].workOrder
  <2> DEFINE t == IF next = Reload("ticket") THEN ticket ELSE sess[s].ticket
             w == IF next = Reload("work_order") THEN workOrder
                  ELSE sess[s].workOrder
  <2>2. t \in Ticket /\ w \in WorkOrder /\ n \in 0..3
    BY <1>1, <1>2 DEF Session
  <2>3. q = [sess[s] EXCEPT !.held = n, !.ticket = t, !.workOrder = w]
    OBVIOUS
  <2> HIDE DEF q, t, w, n
  <2>4. /\ q \in Session /\ q.op = sess[s].op /\ q.arg = sess[s].arg
        /\ q.held = n /\ q.ticket = t /\ q.workOrder = w
    <3>1. sess[s] \in Session
      BY <1>1
    <3> QED
      BY ONLY <2>2, <2>3, <3>1 DEF Session
  <2> QED
    BY <2>4 DEF t, w
<1>6. \A t \in Sessions : sess'[t] = IF t = s THEN q ELSE sess[t]
  <2> HIDE DEF q
  <2> QED
    BY <1>1, <1>4
<1> HIDE DEF q
<1>7. \A t \in Sessions \ {s} : \A r :
        /\ Locked(t, r)' <=> Locked(t, r)
        /\ Reloaded(t, r)' <=> Reloaded(t, r)
  BY <1>6 DEF Locked, Reloaded
<1>8. \A r : /\ Locked(s, r)' <=> (Locked(s, r) \/ next.row = r)
             /\ Reloaded(s, r)' <=> (Reloaded(s, r) \/ next = Reload(r))
  <2>1. 1..n = 1..sess[s].held \union {n}
    BY <1>2
  <2>2. sess'[s].held = n /\ LockPlan(sess'[s].op) = plan
    BY <1>5, <1>6
  <2> QED
    BY <2>1, <2>2 DEF Locked, Reloaded
<1>9. \A t \in Sessions : ~Locked(t, next.row)
  BY <1>3, SessionsAssumption DEF LocksMatchPlans
<1>10. TypeOK'
  BY <1>1, <1>3, <1>4, <1>5 DEF TypeOK
<1>11. LocksMatchPlans'
  BY <1>1, <1>3, <1>4, <1>7, <1>8, <1>9, SessionsAssumption DEF LocksMatchPlans
<1>12. LockedViewIsCurrent'
  <2>1. ASSUME NEW t \in Sessions \ {s}
        PROVE  /\ Reloaded(t, "ticket")' => sess'[t].ticket = ticket'
               /\ Reloaded(t, "work_order")' => sess'[t].workOrder = workOrder'
    BY <1>4, <1>6, <1>7 DEF LockedViewIsCurrent
  <2>2. /\ Reloaded(s, "ticket")' => sess'[s].ticket = ticket'
        /\ Reloaded(s, "work_order")' => sess'[s].workOrder = workOrder'
    BY <1>4, <1>5, <1>6, <1>8 DEF LockedViewIsCurrent
  <2> QED
    BY <2>1, <2>2 DEF LockedViewIsCurrent
<1>13. TicketRowConsistent' /\ RequestsOK'
  BY <1>2, <1>4, <1>5, <1>6 DEF TicketRowConsistent, RequestsOK, RequestOK
<1> QED
  BY <1>10, <1>11, <1>12, <1>13

LEMMA PeriodExpiresPreserves ==
  ASSUME IInv, PeriodExpires
  PROVE  IInv'
<1> USE DEF IInv
<1> DEFINE Aged(t) == [t EXCEPT !.resolvedAt = IF @ = "recent" THEN "expired"
                                               ELSE @]
<1>1. sess \in [Sessions -> Session] /\ ticket \in Ticket
  BY DEF TypeOK
<1>2. ASSUME NEW t \in Ticket
      PROVE  Aged(t) \in Ticket /\ (RowConsistent(t) => RowConsistent(Aged(t)))
  BY DEF Ticket, RowConsistent, TicketStatus, ActiveTicketStatus
<1>3. /\ ticket' = Aged(ticket)
      /\ sess' = [s \in Sessions |-> [sess[s] EXCEPT !.ticket = Aged(@)]]
      /\ UNCHANGED <<workOrder, logged, locks, begun>>
  BY DEF PeriodExpires
<1> HIDE DEF Aged
<1>4. ASSUME NEW s \in Sessions
      PROVE  /\ sess'[s] \in Session /\ sess'[s].op = sess[s].op
             /\ sess'[s].arg = sess[s].arg /\ sess'[s].held = sess[s].held
             /\ sess'[s].ticket = Aged(sess[s].ticket)
             /\ sess'[s].workOrder = sess[s].workOrder
  BY <1>1, <1>2, <1>3 DEF Session
<1>5. \A s \in Sessions : \A r :
        /\ Locked(s, r)' <=> Locked(s, r)
        /\ Reloaded(s, r)' <=> Reloaded(s, r)
  BY <1>4 DEF Locked, Reloaded
<1>6. TypeOK'
  <2>1. sess' \in [Sessions -> Session]
    BY <1>3, <1>4
  <2> QED
    BY <1>1, <1>2, <1>3, <2>1 DEF TypeOK
<1>7. LocksMatchPlans' /\ LockedViewIsCurrent'
  BY <1>3, <1>4, <1>5 DEF LocksMatchPlans, LockedViewIsCurrent
<1>8. TicketRowConsistent' /\ RequestsOK'
  <2>1. \A s \in Sessions : sess[s].ticket \in Ticket
    BY <1>1 DEF Session
  <2> QED
    BY <1>1, <1>2, <1>3, <1>4, <2>1 DEF TicketRowConsistent, RequestsOK, RequestOK
<1> QED
  BY <1>6, <1>7, <1>8

TicketWriters == {"change_status", "assign_ticket", "comment", "update_ticket"}
TicketDeciders == {"requester_cancel", "requester_acknowledge",
                   "requester_reopen", "auto_close", "generate", "transition"}
WorkOrderWriters == {"transition", "complete_again", "assign", "reassign",
                     "unassign", "update_work_order"}

\* A commit ends its transaction.
LEMMA CommitReleases == \A s \in Sessions : Commit(s) => Release(s)
BY DEF Commit, ChangeTicketStatus, AssignTicket, AddTicketComment, UpdateTicket,
   RequesterCancel, RequesterAcknowledge, RequesterReopen, AutoClose,
   GenerateWorkOrder, TransitionWorkOrder, CompleteAgain, AssignWorkOrder,
   UnassignWorkOrder, UpdateWorkOrder

\* What a transaction that is about to commit has locked and reloaded.
LEMMA CommitHolds ==
  ASSUME IInv, NEW s \in Sessions, LocksTaken(s)
  PROVE  /\ sess[s].op \in TicketWriters \union TicketDeciders =>
              Locked(s, "ticket")
         /\ sess[s].op \in WorkOrderWriters => Locked(s, "work_order")
         /\ sess[s].op \in TicketDeciders => sess[s].ticket = ticket
         /\ sess[s].op = "requester_cancel" => sess[s].workOrder = workOrder
<1> DEFINE op == sess[s].op
           plan == LockPlan(op)
<1>1. sess[s].held = Len(plan)
  BY DEF LocksTaken
<1>2. op \in TicketWriters => plan = <<Write("ticket")>>
  BY DEF TicketWriters, LockPlan
<1>3. op = "requester_cancel" => plan = <<Reload("ticket"), Reload("work_order")>>
  BY DEF LockPlan
<1>4. op \in TicketDeciders \ {"requester_cancel", "transition"} =>
        plan = <<Reload("ticket")>>
  BY DEF TicketDeciders, LockPlan
<1>5. op = "transition" =>
        plan = <<Write("sla"), Write("work_order"), Reload("ticket")>>
  BY DEF LockPlan
<1>6. op \in WorkOrderWriters \ {"transition"} =>
        Len(plan) \in 1..3 /\ plan[1] = Write("work_order")
  BY DEF WorkOrderWriters, LockPlan
<1> HIDE DEF plan
<1>7. op \in TicketWriters \union TicketDeciders =>
        \E i \in 1..Len(plan) : plan[i].row = "ticket"
  BY <1>2, <1>3, <1>4, <1>5 DEF Reload, Write, TicketDeciders
<1>8. op \in WorkOrderWriters =>
        \E i \in 1..Len(plan) : plan[i].row = "work_order"
  BY <1>5, <1>6 DEF Write, WorkOrderWriters
<1>9. op \in TicketDeciders => \E i \in 1..Len(plan) : plan[i] = Reload("ticket")
  BY <1>3, <1>4, <1>5 DEF TicketDeciders
<1>10. op = "requester_cancel" =>
        \E i \in 1..Len(plan) : plan[i] = Reload("work_order")
  <2>1. op = "requester_cancel" => Len(plan) = 2 /\ plan[2] = Reload("work_order")
    BY <1>3
  <2> QED
    BY <2>1
<1> QED
  BY <1>1, <1>7, <1>8, <1>9, <1>10
     DEF plan, Locked, Reloaded, IInv, LockedViewIsCurrent

\* A staff operation on the ticket saves the instance the view loaded.
LEMMA TicketWritePreserves ==
  ASSUME IInv, NEW s \in Sessions,
         \/ ChangeTicketStatus(s) \/ AssignTicket(s)
         \/ AddTicketComment(s) \/ UpdateTicket(s)
  PROVE  IInv'
<1>1. /\ sess[s].ticket \in Ticket /\ RowConsistent(sess[s].ticket)
      /\ RequestOK(sess[s]) /\ workOrder \in WorkOrder /\ logged \in LogEntry
  BY DEF IInv, TypeOK, Session, RequestsOK
<1>2. Locked(s, "ticket") /\ Release(s) /\ workOrder' = workOrder
  BY CommitHolds DEF ChangeTicketStatus, AssignTicket, AddTicketComment,
     UpdateTicket, Commits, TicketWriters
<1>3. ticket' \in Ticket /\ RowConsistent(ticket') /\ logged' \in LogEntry
  <2>1. CASE ChangeTicketStatus(s)
    <3>1. sess[s].arg \in TicketStatus
      BY <1>1, <2>1 DEF ChangeTicketStatus, Commits, RequestOK
    <3> QED
      BY <1>1, <2>1, <3>1, ChangedTicketConsistent
         DEF ChangeTicketStatus, WriteTicketStatus, LogEntry, Author
  <2>2. CASE AssignTicket(s)
    <3>1. /\ ticket' = AssignedTicket(sess[s].ticket)
          /\ \/ logged' = logged
             \/ logged' = [to |-> ticket'.status, by |-> "staff"]
      BY <2>2 DEF AssignTicket, WriteTicketStatus
    <3>2. ticket' \in Ticket /\ RowConsistent(ticket')
      BY <1>1, <3>1, AssignedTicketConsistent
    <3>3. ticket'.status \in TicketStatus
      BY <3>2 DEF Ticket
    <3> QED
      BY <1>1, <3>1, <3>2, <3>3 DEF LogEntry, Author
  <2>3. CASE AddTicketComment(s)
    BY <1>1, <2>3 DEF AddTicketComment, Ticket, RowConsistent
  <2>4. CASE UpdateTicket(s)
    <3>1. sess[s].arg \in Profile
      BY <1>1, <2>4 DEF UpdateTicket, Commits, RequestOK
    <3> QED
      BY <1>1, <2>4, <3>1 DEF UpdateTicket, Ticket, RowConsistent
  <2> QED
    BY <2>1, <2>2, <2>3, <2>4
<1> QED
  BY <1>1, <1>2, <1>3, ReleasePreserves

\* A requester decision, an automatic closure or a generated work order.
LEMMA DecisionPreserves ==
  ASSUME IInv, NEW s \in Sessions,
         \/ RequesterCancel(s) \/ RequesterAcknowledge(s) \/ RequesterReopen(s)
         \/ AutoClose(s) \/ GenerateWorkOrder(s)
  PROVE  IInv'
<1>1. /\ sess[s].ticket \in Ticket /\ RowConsistent(sess[s].ticket)
      /\ workOrder \in WorkOrder /\ logged \in LogEntry
      /\ ticket \in Ticket /\ RowConsistent(ticket)
  BY DEF IInv, TypeOK, Session, RequestsOK, TicketRowConsistent
<1>2. Locked(s, "ticket") /\ Release(s)
  BY CommitHolds DEF RequesterCancel, RequesterAcknowledge, RequesterReopen,
     AutoClose, GenerateWorkOrder, Commits, TicketDeciders
<1>3. CASE GenerateWorkOrder(s)
  <2>1. workOrder' \in WorkOrder
    BY <1>3 DEF GenerateWorkOrder, NoWorkOrder, WorkOrder, WorkOrderStatus
  <2>2. ticket' = ticket /\ logged' = logged
    BY <1>3 DEF GenerateWorkOrder
  <2> QED
    BY <1>1, <1>2, <2>1, <2>2, ReleasePreserves
<1>4. CASE ~GenerateWorkOrder(s)
  <2>1. PICK to \in TicketStatus, by \in Author :
          WriteTicketStatus(ChangedTicket(sess[s].ticket, to), by)
    BY <1>4 DEF RequesterCancel, RequesterAcknowledge, RequesterReopen,
       AutoClose, TicketStatus, Author
  <2>2. ticket' \in Ticket /\ RowConsistent(ticket') /\ logged' \in LogEntry
    BY <1>1, <2>1, ChangedTicketConsistent DEF WriteTicketStatus, LogEntry
  <2>3. workOrder' = workOrder
    BY <1>4 DEF RequesterCancel, RequesterAcknowledge, RequesterReopen, AutoClose
  <2> QED
    BY <1>1, <1>2, <2>2, <2>3, ReleasePreserves
<1> QED
  BY <1>3, <1>4

\* A workflow action, an assignment or an update of the work order.
LEMMA WorkOrderWritePreserves ==
  ASSUME IInv, NEW s \in Sessions,
         \/ TransitionWorkOrder(s) \/ CompleteAgain(s) \/ AssignWorkOrder(s)
         \/ UnassignWorkOrder(s) \/ UpdateWorkOrder(s)
  PROVE  IInv'
<1>1. /\ sess[s].ticket \in Ticket /\ RowConsistent(sess[s].ticket)
      /\ sess[s].workOrder \in WorkOrder /\ RequestOK(sess[s])
      /\ workOrder \in WorkOrder /\ logged \in LogEntry
      /\ ticket \in Ticket /\ RowConsistent(ticket)
  BY DEF IInv, TypeOK, Session, RequestsOK, TicketRowConsistent
<1>2. Locked(s, "work_order") /\ Release(s)
  BY CommitHolds DEF TransitionWorkOrder, CompleteAgain, AssignWorkOrder,
     UnassignWorkOrder, UpdateWorkOrder, Commits, WorkOrderWriters
<1>3. CASE TransitionWorkOrder(s)
  <2> DEFINE t == SyncedTicket(sess[s].ticket, sess[s].arg)
  <2>1. sess[s].op = "transition" /\ LocksTaken(s)
        /\ workOrder' = MovedWorkOrder(sess[s].workOrder, sess[s].arg)
    BY <1>3 DEF TransitionWorkOrder, Commits
  <2>2. sess[s].arg \in WorkflowTargets
    BY <1>1, <2>1 DEF RequestOK
  <2>3. workOrder' \in WorkOrder
    BY <1>1, <2>1, <2>2, WorkOrderWritesTyped
  <2>4. Locked(s, "ticket")
    BY <2>1, CommitHolds DEF TicketDeciders
  <2>5. t \in Ticket /\ RowConsistent(t) /\ t.status \in TicketStatus
    <3>1. t \in Ticket /\ RowConsistent(t)
      BY <1>1, SyncedTicketConsistent
    <3> QED
      BY <3>1 DEF Ticket
  <2>6. \/ ticket' = ticket /\ logged' = logged
        \/ ticket' = t /\ logged' = [to |-> t.status, by |-> "workflow"]
    BY <1>3 DEF TransitionWorkOrder, WriteTicketStatus
  <2> HIDE DEF t
  <2>7. ticket' \in Ticket /\ RowConsistent(ticket') /\ logged' \in LogEntry
    BY <1>1, <2>5, <2>6 DEF LogEntry, Author
  <2> QED
    BY <1>2, <2>3, <2>4, <2>7, ReleasePreserves
<1>4. CASE ~TransitionWorkOrder(s)
  <2>1. ticket' = ticket /\ logged' = logged
    BY <1>4 DEF CompleteAgain, AssignWorkOrder, UnassignWorkOrder, UpdateWorkOrder
  <2>2. workOrder' \in WorkOrder
    <3>1. CASE CompleteAgain(s)
      BY <1>1, <3>1 DEF CompleteAgain, WorkOrder
    <3>2. CASE AssignWorkOrder(s) \/ UnassignWorkOrder(s)
      BY <1>1, <3>2, WorkOrderWritesTyped DEF AssignWorkOrder, UnassignWorkOrder
    <3>3. CASE UpdateWorkOrder(s)
      BY <1>1, <3>3 DEF UpdateWorkOrder, WorkOrder
    <3> QED
      BY <1>4, <3>1, <3>2, <3>3
  <2> QED
    BY <1>1, <1>2, <2>1, <2>2, ReleasePreserves
<1> QED
  BY <1>3, <1>4

-----------------------------------------------------------------------------
(***************************************************************************)
(* Theorems.                                                               *)
(***************************************************************************)
LEMMA InitIInv ==
  ASSUME Init \/ GeneratedInit
  PROVE  IInv
<1>1. NewTicket \in Ticket /\ RowConsistent(NewTicket)
      /\ ticket \in Ticket /\ RowConsistent(ticket)
  <2>1. NewTicket \in Ticket /\ RowConsistent(NewTicket)
    BY DEF NewTicket, Ticket, RowConsistent, TicketStatus, Profile,
       ActiveTicketStatus, TerminalTicketStatus
  <2>2. CASE Init
    BY <2>1, <2>2 DEF Init, NewTicket, Ticket, RowConsistent, TicketStatus, Profile,
       ActiveTicketStatus, TerminalTicketStatus
  <2>3. CASE GeneratedInit
    BY <2>3 DEF GeneratedInit, NewTicket, Ticket, RowConsistent, TicketStatus, Profile,
       ActiveTicketStatus, TerminalTicketStatus
  <2> QED
    BY <2>1, <2>2, <2>3
<1>2. NoWorkOrder \in WorkOrder /\ workOrder \in WorkOrder
  <2>1. NoWorkOrder \in WorkOrder
    BY DEF NoWorkOrder, WorkOrder, WorkOrderStatus
  <2>2. [NoWorkOrder EXCEPT !.status = "assigned"] \in WorkOrder
    BY <2>1 DEF WorkOrder, WorkOrderStatus
  <2> QED
    BY <2>1, <2>2 DEF Init, GeneratedInit
<1>3. /\ locks = [r \in Rows |-> NoSession] /\ sess = [s \in Sessions |-> Idle]
      /\ begun = 0 /\ logged \in LogEntry
  BY DEF Init, GeneratedInit, LogEntry, Author, TicketStatus
<1>4. Idle \in Session /\ RequestOK(Idle) /\ RowConsistent(Idle.ticket)
  BY <1>1, <1>2, PlanShape DEF Idle, Session, Argument, RequestOK
<1>5. TypeOK
  BY <1>1, <1>2, <1>3, <1>4, BoundAssumption DEF TypeOK
<1>6. \A s \in Sessions : \A r : ~Locked(s, r) /\ ~Reloaded(s, r)
  BY <1>3 DEF Idle, Locked, Reloaded
<1>7. LocksMatchPlans /\ LockedViewIsCurrent
  BY <1>3, <1>6, SessionsAssumption DEF LocksMatchPlans, LockedViewIsCurrent
<1>8. TicketRowConsistent /\ RequestsOK
  BY <1>1, <1>3, <1>4 DEF TicketRowConsistent, RequestsOK
<1> QED
  BY <1>5, <1>7, <1>8 DEF IInv

\* Every step preserves the invariant, one case per kind of step.
LEMMA NextIInv ==
  ASSUME IInv, [Next]_vars
  PROVE  IInv'
<1>1. CASE UNCHANGED vars
  BY <1>1 DEF vars, IInv, TypeOK, LocksMatchPlans, LockedViewIsCurrent,
     TicketRowConsistent, RequestsOK, Locked, Reloaded
<1>2. CASE PeriodExpires
  BY <1>2, PeriodExpiresPreserves
<1>3. ASSUME NEW s \in Sessions, Begin(s)
      PROVE  IInv'
  BY <1>3, BeginPreserves
<1>4. ASSUME NEW s \in Sessions, Acquire(s)
      PROVE  IInv'
  BY <1>4, AcquirePreserves
<1>5. ASSUME NEW s \in Sessions, Commit(s)
      PROVE  IInv'
  BY <1>5, TicketWritePreserves, DecisionPreserves, WorkOrderWritePreserves
     DEF Commit
<1>6. ASSUME NEW s \in Sessions, Refuse(s) \/ Fail(s) \/ DeadlockVictim(s)
      PROVE  IInv'
  <2>1. Release(s) /\ UNCHANGED <<ticket, workOrder, logged>>
    BY <1>6 DEF Refuse, Fail, DeadlockVictim
  <2>2. ticket \in Ticket /\ RowConsistent(ticket) /\ workOrder \in WorkOrder
        /\ logged \in LogEntry
    BY DEF IInv, TypeOK, TicketRowConsistent
  <2> QED
    BY <2>1, <2>2, ReleasePreserves
<1> QED
  BY <1>1, <1>2, <1>3, <1>4, <1>5, <1>6 DEF Next, Step

\* The inductive invariant holds throughout.
THEOREM InductiveInvariant == Spec => []IInv
  BY InitIInv, NextIInv, PTL DEF Spec

\* Rows, locks and requests keep their types (type correctness).
THEOREM TypeCorrect == Spec => []TypeOK
  BY InductiveInvariant, PTL DEF IInv

\* What select_for_update returned is the committed row until the transaction
\* ends, for any number of concurrent sessions.
THEOREM LockedViews == Spec => []LockedViewIsCurrent
  BY InductiveInvariant, PTL DEF IInv

\* No interleaving of stale saves leaves a ticket whose timestamps belong to
\* another status than the one it has.
THEOREM ConsistentTicket == Spec => []TicketRowConsistent
  BY InductiveInvariant, PTL DEF IInv

\* A ticket a requester cancels is cancellable, and its work order is not in
\* active maintenance execution, when the cancellation commits.
THEOREM CancelExcludesExecution == Spec => RequesterCancelExcludesExecution
<1>1. ASSUME IInv, NEW s \in Sessions, RequesterCancel(s)
      PROVE  /\ ticket.status \in RequesterCancellable
             /\ workOrder.status \notin ActiveMaintenance
  BY <1>1, CommitHolds
     DEF RequesterCancel, Commits, Accepted, TicketDeciders
<1>2. IInv => \A s \in Sessions : RequesterCancel(s) =>
        /\ ticket.status \in RequesterCancellable
        /\ workOrder.status \notin ActiveMaintenance
  BY <1>1
<1> QED
  BY <1>2, InductiveInvariant, PTL DEF RequesterCancelExcludesExecution

\* Acknowledgement, requester reopening and automatic closure act on a ticket
\* that is resolved when they commit.
THEOREM OneDecision == Spec => ResolutionDecidedOnce
<1>1. ASSUME IInv, NEW s \in Sessions
      PROVE  /\ RequesterAcknowledge(s) \/ RequesterReopen(s) =>
                  ticket.status = "resolved"
             /\ AutoClose(s) =>
                  ticket.status = "resolved" /\ ticket.resolvedAt = "expired"
  BY <1>1, CommitHolds
     DEF RequesterAcknowledge, RequesterReopen, AutoClose, Commits, Accepted,
         TicketDeciders
<1>2. IInv => \A s \in Sessions :
       /\ RequesterAcknowledge(s) \/ RequesterReopen(s) =>
             ticket.status = "resolved"
       /\ AutoClose(s) =>
             ticket.status = "resolved" /\ ticket.resolvedAt = "expired"
  BY <1>1
<1> QED
  BY <1>2, InductiveInvariant, PTL DEF ResolutionDecidedOnce

\* A workflow action leaves work order and ticket in statuses that agree, and
\* does not touch a closed or cancelled ticket.
THEOREM Synchronized == Spec => SynchronizedTogether
<1>1. ASSUME IInv, NEW s \in Sessions, TransitionWorkOrder(s)
      PROVE  /\ MappedTicketStatus(workOrder'.status) \in {"none", ticket'.status}
             /\ ticket.status \in TerminalTicketStatus => UNCHANGED ticket
  <2> DEFINE to == sess[s].arg
             t == SyncedTicket(ticket, to)
  <2>1. /\ sess[s].ticket = ticket /\ ticket \in Ticket /\ RowConsistent(ticket)
        /\ sess[s].workOrder \in WorkOrder
    BY <1>1, CommitHolds DEF TransitionWorkOrder, Commits, TicketDeciders, IInv,
       TypeOK, Session, TicketRowConsistent
  <2>2. /\ IF t.status = ticket.status THEN ticket' = ticket ELSE ticket' = t
        /\ workOrder' = MovedWorkOrder(sess[s].workOrder, to)
        /\ ~SyncRefused(ticket, to)
    BY <1>1, <2>1 DEF TransitionWorkOrder, WriteTicketStatus, Commits, Accepted
  <2>3. workOrder'.status = to
    BY <2>1, <2>2 DEF MovedWorkOrder, WorkOrder
  <2>4. MappedTicketStatus(to) \in {"none", t.status}
    BY <2>1, SyncedTicketConsistent
  <2>5. ticket'.status = t.status
    BY <2>2
  <2>6. ticket.status \in TerminalTicketStatus =>
          MappedTicketStatus(to) \in {"none", ticket.status}
    BY <2>2 DEF SyncRefused
  <2>7. ticket.status \in TerminalTicketStatus => t = ticket
    BY <2>6 DEF SyncedTicket
  <2> QED
    BY <2>2, <2>3, <2>4, <2>5, <2>7
<1>2. IInv => \A s \in Sessions : TransitionWorkOrder(s) =>
        /\ MappedTicketStatus(workOrder'.status) \in {"none", ticket'.status}
        /\ ticket.status \in TerminalTicketStatus => UNCHANGED ticket
  BY <1>1
<1> QED
  BY <1>2, InductiveInvariant, PTL DEF SynchronizedTogether

\* A work order is generated once per ticket, from a ticket that is ready.
THEOREM GeneratedOnce == Spec => GeneratedFromReadyTicket
<1>1. ASSUME IInv, NEW s \in Sessions, GenerateWorkOrder(s)
      PROVE  /\ workOrder.status = "none"
             /\ ticket.status \in {"assigned", "in_progress"}
             /\ ticket.assignee
             /\ ticket.profile = "with_asset"
  BY <1>1, CommitHolds
     DEF GenerateWorkOrder, Commits, Accepted, TicketDeciders
<1>2. IInv => \A s \in Sessions : GenerateWorkOrder(s) =>
        /\ workOrder.status = "none"
        /\ ticket.status \in {"assigned", "in_progress"}
        /\ ticket.assignee
        /\ ticket.profile = "with_asset"
  BY <1>1
<1> QED
  BY <1>2, InductiveInvariant, PTL DEF GeneratedFromReadyTicket
-----------------------------------------------------------------------------
(***************************************************************************)
(* The automatic closure.  What keeps it from closing a ticket twice is    *)
(* that the newest entry of the status history names the status the ticket *)
(* has.  The requests that save the loaded instance and write no entry can *)
(* break that (the run ticket_stale_comment shows it), so it is stated of  *)
(* the others.                                                             *)
(***************************************************************************)
RequestsServed == \A s \in Sessions : sess[s].op \in Requests \union {"idle"}
StatusOnRecord == logged.to = ticket.status

LEMMA ServedInit == Init \/ GeneratedInit => RequestsServed /\ StatusOnRecord
<1>1. Init => RequestsServed /\ StatusOnRecord
  BY DEF Init, Idle, NewTicket, RequestsServed, StatusOnRecord
<1>2. GeneratedInit => RequestsServed /\ StatusOnRecord
  <2>1. GeneratedInit => ticket.status = "assigned"
    BY DEF GeneratedInit, NewTicket
  <2> QED
    BY <2>1 DEF GeneratedInit, Idle, RequestsServed, StatusOnRecord
<1> QED
  BY <1>1, <1>2

\* Requests that have begun are the clients'.
LEMMA ServedNext ==
  ASSUME IInv, RequestsServed, [Next]_vars
  PROVE  RequestsServed'
<1>1. sess \in [Sessions -> Session]
  BY DEF IInv, TypeOK
<1>2. ASSUME NEW s \in Sessions, Release(s)
      PROVE  RequestsServed'
  BY <1>1, <1>2 DEF Release, Idle, RequestsServed
<1>3. CASE UNCHANGED vars
  BY <1>3 DEF vars, RequestsServed
<1>4. CASE PeriodExpires
  <2>1. \A s \in Sessions : sess'[s].op = sess[s].op
    BY <1>1, <1>4 DEF PeriodExpires, Session
  <2> QED
    BY <2>1 DEF RequestsServed
<1>5. ASSUME NEW s \in Sessions, Begin(s)
      PROVE  RequestsServed'
  BY <1>1, <1>5 DEF Begin, RequestsServed
<1>6. ASSUME NEW s \in Sessions, Acquire(s)
      PROVE  RequestsServed'
  <2>1. \A t \in Sessions : sess'[t].op = sess[t].op
    BY <1>1, <1>6 DEF Acquire, Session
  <2> QED
    BY <2>1 DEF RequestsServed
<1>7. ASSUME NEW s \in Sessions,
             Commit(s) \/ Refuse(s) \/ Fail(s) \/ DeadlockVictim(s)
      PROVE  RequestsServed'
  BY <1>2, <1>7, CommitReleases DEF Refuse, Fail, DeadlockVictim
<1> QED
  BY <1>3, <1>4, <1>5, <1>6, <1>7 DEF Next, Step

\* A commit that changes the status writes the entry.
LEMMA RecordNext ==
  ASSUME IInv, RequestsServed, StatusOnRecord, [Next]_vars,
         Requests \intersect Unlogged = {}
  PROVE  StatusOnRecord'
<1>1. ASSUME NEW t, NEW by, WriteTicketStatus(t, by)
      PROVE  StatusOnRecord'
  BY <1>1 DEF WriteTicketStatus, StatusOnRecord
<1>2. CASE UNCHANGED <<ticket, logged>>
  BY <1>2 DEF StatusOnRecord
<1>3. CASE PeriodExpires
  <2>1. ticket \in Ticket
    BY DEF IInv, TypeOK
  <2>2. ticket'.status = ticket.status /\ logged' = logged
    BY <1>3, <2>1 DEF PeriodExpires, Ticket
  <2> QED
    BY <2>2 DEF StatusOnRecord
<1>4. ASSUME NEW s \in Sessions, Commit(s)
      PROVE  StatusOnRecord'
  <2>1. sess[s].op \notin Unlogged
    BY DEF RequestsServed, Unlogged, Operations
  <2>2. ~AssignTicket(s) /\ ~AddTicketComment(s) /\ ~UpdateTicket(s)
    BY <2>1 DEF AssignTicket, AddTicketComment, UpdateTicket, Commits, Unlogged
  <2>3. CASE ChangeTicketStatus(s) \/ RequesterCancel(s) \/ RequesterAcknowledge(s)
             \/ RequesterReopen(s) \/ AutoClose(s)
    BY <1>1, <2>3 DEF ChangeTicketStatus, RequesterCancel, RequesterAcknowledge,
       RequesterReopen, AutoClose
  <2>4. CASE TransitionWorkOrder(s)
    BY <1>1, <1>2, <2>4 DEF TransitionWorkOrder
  <2>5. CASE GenerateWorkOrder(s) \/ CompleteAgain(s) \/ AssignWorkOrder(s)
             \/ UnassignWorkOrder(s) \/ UpdateWorkOrder(s)
    BY <1>2, <2>5 DEF GenerateWorkOrder, CompleteAgain, AssignWorkOrder, UnassignWorkOrder,
       UpdateWorkOrder
  <2> QED
    BY <1>4, <2>2, <2>3, <2>4, <2>5 DEF Commit
<1> QED
  BY <1>2, <1>3, <1>4 DEF Next, Step, vars, Begin, Acquire, Refuse, Fail, DeadlockVictim

\* Among requests that record the status they write, overlapping and repeated
\* runs of the automatic closure close a ticket once, in any number of sessions.
THEOREM ClosedOnce ==
  ASSUME Requests \intersect Unlogged = {}
  PROVE  Spec => AutoClosedOnce
<1>1. Init \/ GeneratedInit => IInv /\ RequestsServed /\ StatusOnRecord
  BY InitIInv, ServedInit
<1>2. IInv /\ RequestsServed /\ StatusOnRecord /\ [Next]_vars =>
        IInv' /\ RequestsServed' /\ StatusOnRecord'
  BY NextIInv, ServedNext, RecordNext
<1>3. IInv /\ StatusOnRecord => \A s \in Sessions :
        AutoClose(s) => logged # [to |-> "closed", by |-> "system"]
  <2>1. ASSUME IInv, StatusOnRecord, NEW s \in Sessions, AutoClose(s)
        PROVE  logged.to = "resolved"
    BY <2>1, CommitHolds DEF AutoClose, Commits, Accepted, TicketDeciders, StatusOnRecord
  <2> QED
    BY <2>1
<1> QED
  BY <1>1, <1>2, <1>3, PTL DEF Spec, AutoClosedOnce
-----------------------------------------------------------------------------
(***************************************************************************)
(* Deadlocks.  The detector has nothing to do while all plans in use lock  *)
(* the rows in one order.                                                  *)
(***************************************************************************)
OrderedBy(rank) ==
  \A op \in Requests : \A i, j \in 1..Len(LockPlan(op)) :
    i < j => rank[LockPlan(op)[i].row] < rank[LockPlan(op)[j].row]

\* Who waits in a cycle holds only rows before the one it waits for, so the
\* holder of a row waits for a later one.
LEMMA HolderWaitsFurther ==
  ASSUME IInv, RequestsServed, NEW rank \in [Rows -> 1..3], OrderedBy(rank),
         NEW s \in Sessions, Waiting(s), NEW t \in Sessions, Waiting(t),
         WaitsFor(s, t)
  PROVE  /\ NextLock(s).row \in Rows /\ NextLock(t).row \in Rows
         /\ rank[NextLock(s).row] < rank[NextLock(t).row]
<1>1. ASSUME NEW u \in Sessions, Waiting(u)
      PROVE  /\ sess[u].op \in Requests /\ sess[u].held \in 0..3
             /\ sess[u].held + 1 \in 1..Len(LockPlan(sess[u].op))
             /\ Len(LockPlan(sess[u].op)) \in 1..3
             /\ NextLock(u).row \in Rows
  <2>1. sess[u].op \in Requests /\ sess[u].held \in 0..3
        /\ sess[u].op \in Operations \union {"idle"}
    BY <1>1 DEF Waiting, RequestsServed, IInv, TypeOK, Session
  <2>2. Len(LockPlan(sess[u].op)) \in 1..3
    BY <2>1, PlanShape
  <2>3. sess[u].held + 1 \in 1..Len(LockPlan(sess[u].op))
    BY <1>1, <2>1, <2>2 DEF Waiting
  <2>4. NextLock(u) \in [row : Rows, mode : {"reload", "write"}]
    BY <2>1, <2>3, PlanShape DEF NextLock
  <2> QED
    BY <2>1, <2>2, <2>3, <2>4
<1>2. Locked(t, NextLock(s).row)
  BY <1>1 DEF WaitsFor, IInv, LocksMatchPlans
<1>3. PICK i \in 1..sess[t].held : LockPlan(sess[t].op)[i].row = NextLock(s).row
  BY <1>2 DEF Locked
<1>4. i \in 1..Len(LockPlan(sess[t].op)) /\ i < sess[t].held + 1
  BY <1>1, <1>3
<1> QED
  BY <1>1, <1>3, <1>4 DEF OrderedBy, NextLock

\* With plans in one order no set of sessions waits in a cycle: nobody in it can
\* wait for the last row, hence nobody for the last but one, hence nobody.
LEMMA OrderedExcludesCycles ==
  ASSUME IInv, RequestsServed, NEW rank \in [Rows -> 1..3], OrderedBy(rank)
  PROVE  NoDeadlock
<1> SUFFICES ASSUME NEW C \in SUBSET Sessions, Deadlocked(C), NEW s \in C
             PROVE  FALSE
  BY DEF NoDeadlock
<1> DEFINE at(u) == rank[NextLock(u).row]
<1>1. ASSUME NEW u \in C
      PROVE  at(u) \in 1..3 /\ \E t \in C : at(u) < at(t)
  <2>1. PICK t \in C : WaitsFor(u, t)
    BY DEF Deadlocked
  <2>2. Waiting(u) /\ Waiting(t)
    BY <2>1 DEF Deadlocked, WaitsFor
  <2> QED
    BY <2>1, <2>2, HolderWaitsFurther
<1> HIDE DEF at
<1>2. \A u \in C : at(u) \notin {3}
  BY <1>1
<1>3. \A u \in C : at(u) \notin {2, 3}
  BY <1>1, <1>2
<1>4. \A u \in C : at(u) \notin {1, 2, 3}
  BY <1>1, <1>3
<1> QED
  BY <1>1, <1>4

\* The one pair of orders that meets is a transition's with a requester
\* cancellation's (the other way round on ticket and work order) or an
\* assignment's or repeated completion's (on work order and SLA).
LEMMA OrderWithoutTransition ==
  ASSUME \/ "transition" \notin Requests
         \/ Requests \intersect {"requester_cancel", "assign", "complete_again"} = {}
  PROVE  \E rank \in [Rows -> 1..3] : OrderedBy(rank)
<1>1. CASE "transition" \notin Requests
  <2> DEFINE rank == [r \in Rows |-> CASE r = "ticket" -> 1
                                      [] r = "work_order" -> 2
                                      [] r = "sla" -> 3]
  <2>1. rank \in [Rows -> 1..3] /\ rank["ticket"] = 1 /\ rank["work_order"] = 2
        /\ rank["sla"] = 3
    BY DEF Rows
  <2> HIDE DEF rank
  <2>2. OrderedBy(rank)
    BY <1>1, <2>1, RequestsAssumption DEF OrderedBy, LockPlan, Reload, Write, Operations
  <2> QED
    BY <2>1, <2>2
<1>2. CASE Requests \intersect {"requester_cancel", "assign", "complete_again"} = {}
  <2> DEFINE rank == [r \in Rows |-> CASE r = "sla" -> 1
                                      [] r = "work_order" -> 2
                                      [] r = "ticket" -> 3]
  <2>1. rank \in [Rows -> 1..3] /\ rank["ticket"] = 3 /\ rank["work_order"] = 2
        /\ rank["sla"] = 1
    BY DEF Rows
  <2> HIDE DEF rank
  <2>2. OrderedBy(rank)
    BY <1>2, <2>1, RequestsAssumption DEF OrderedBy, LockPlan, Reload, Write, Operations
  <2> QED
    BY <2>1, <2>2
<1> QED
  BY <1>1, <1>2

\* Every deadlock on these rows has a work-order transition in play: without
\* transitions, or without the three operations that lock in another order
\* than they do, no transactions ever wait for one another in a cycle, however
\* many sessions there are.
THEOREM DeadlocksNeedTransitions ==
  ASSUME \/ "transition" \notin Requests
         \/ Requests \intersect {"requester_cancel", "assign", "complete_again"} = {}
  PROVE  Spec => []NoDeadlock
<1>1. Init \/ GeneratedInit => IInv /\ RequestsServed
  BY InitIInv, ServedInit
<1>2. IInv /\ RequestsServed /\ [Next]_vars => IInv' /\ RequestsServed'
  BY NextIInv, ServedNext
<1>3. IInv /\ RequestsServed => NoDeadlock
  BY OrderedExcludesCycles, OrderWithoutTransition
<1> QED
  BY <1>1, <1>2, <1>3, PTL DEF Spec
=============================================================================
