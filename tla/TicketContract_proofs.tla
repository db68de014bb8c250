------------------------ MODULE TicketContract_proofs ------------------------
(***************************************************************************)
(* TicketWorkOrder implements TicketContract, for any number of sessions   *)
(* and whatever requests the clients issue.  A transaction stutters until  *)
(* it commits; a commit under a reloaded row is an atomic decision because *)
(* LockedViewIsCurrent holds then, and the columns the contract does not   *)
(* show follow the status because TicketRowConsistent does.  One fact is   *)
(* needed besides the inductive invariant: a request that saves a work     *)
(* order has loaded one, and a work order is never removed.                *)
(***************************************************************************)
EXTENDS TicketWorkOrder_proofs

Linked(q) ==
  q.op \in WorkOrderWriters =>
    q.workOrder.status # "none" /\ workOrder.status # "none"
LinkedServed == \A s \in Sessions : Linked(sess[s])

-----------------------------------------------------------------------------
(***************************************************************************)
(* A request that saves a work order has one.                              *)
(***************************************************************************)
\* What the work-order services write is a work order.
LEMMA WrittenLinked ==
  ASSUME NEW w \in WorkOrder, w.status # "none"
  PROVE  /\ \A to \in WorkflowTargets : MovedWorkOrder(w, to).status = to
         /\ ReassignedWorkOrder(w).status # "none"
         /\ UnassignedWorkOrder(w).status # "none"
  BY DEF MovedWorkOrder, ReassignedWorkOrder, UnassignedWorkOrder, WorkOrder

\* The work order of a ticket is never removed.
LEMMA WorkOrderStays ==
  ASSUME IInv, LinkedServed, [Next]_vars, workOrder.status # "none"
  PROVE  workOrder'.status # "none"
<1>1. workOrder \in WorkOrder /\ sess \in [Sessions -> Session]
  BY DEF IInv, TypeOK
<1>2. CASE UNCHANGED workOrder
  BY <1>2
<1>3. ASSUME NEW s \in Sessions, Commit(s), ~UNCHANGED workOrder
      PROVE  workOrder'.status # "none"
  <2>1. sess[s].workOrder \in WorkOrder /\ RequestOK(sess[s])
    BY <1>1 DEF IInv, RequestsOK, Session
  <2>2. CASE GenerateWorkOrder(s)
    BY <2>2 DEF GenerateWorkOrder, NoWorkOrder
  <2>3. CASE CompleteAgain(s)
    BY <1>1, <2>3 DEF CompleteAgain, WorkOrder
  <2>4. CASE TransitionWorkOrder(s) \/ AssignWorkOrder(s) \/ UnassignWorkOrder(s)
             \/ UpdateWorkOrder(s)
    <3>1. sess[s].workOrder.status # "none"
      BY <2>4 DEF LinkedServed, Linked, WorkOrderWriters, TransitionWorkOrder,
         AssignWorkOrder, UnassignWorkOrder, UpdateWorkOrder, Commits
    <3>2. CASE TransitionWorkOrder(s)
      <4>1. sess[s].arg \in WorkflowTargets
        BY <2>1, <3>2 DEF TransitionWorkOrder, Commits, RequestOK
      <4> QED
        BY <2>1, <3>1, <3>2, <4>1, WrittenLinked DEF TransitionWorkOrder, WorkflowTargets
    <3>3. CASE AssignWorkOrder(s) \/ UnassignWorkOrder(s)
      BY <2>1, <3>1, <3>3, WrittenLinked DEF AssignWorkOrder, UnassignWorkOrder
    <3>4. CASE UpdateWorkOrder(s)
      BY <2>1, <3>1, <3>4 DEF UpdateWorkOrder, WorkOrder
    <3> QED
      BY <2>4, <3>2, <3>3, <3>4
  <2> QED
    BY <1>3, <2>2, <2>3, <2>4
       DEF Commit, ChangeTicketStatus, AssignTicket, AddTicketComment, UpdateTicket,
           RequesterCancel, RequesterAcknowledge, RequesterReopen, AutoClose
<1> QED
  BY <1>2, <1>3
     DEF Next, Step, vars, PeriodExpires, Begin, Acquire, Refuse, Fail, DeadlockVictim

LEMMA LinkedNext ==
  ASSUME IInv, LinkedServed, [Next]_vars
  PROVE  LinkedServed'
<1>1. sess \in [Sessions -> Session] /\ workOrder \in WorkOrder
  BY DEF IInv, TypeOK
<1>2. workOrder.status # "none" => workOrder'.status # "none"
  BY WorkOrderStays
<1>3. ASSUME \A s \in Sessions :
               \/ sess'[s].op = sess[s].op /\ sess'[s].workOrder = sess[s].workOrder
               \/ sess'[s].op = "idle"
      PROVE  LinkedServed'
  BY <1>2, <1>3 DEF LinkedServed, Linked, WorkOrderWriters
<1>4. CASE UNCHANGED vars
  BY <1>3, <1>4 DEF vars
<1>5. CASE PeriodExpires
  <2>1. \A s \in Sessions :
          sess'[s].op = sess[s].op /\ sess'[s].workOrder = sess[s].workOrder
    BY <1>1, <1>5 DEF PeriodExpires, Session
  <2> QED
    BY <1>3, <2>1
<1>6. ASSUME NEW s \in Sessions, Begin(s)
      PROVE  LinkedServed'
  <2>1. PICK op \in Requests, arg \in Argument :
          /\ LoadedAccepts(op, arg)
          /\ sess' = [sess EXCEPT ![s] = [op |-> op, arg |-> arg, held |-> 0,
                                          ticket |-> ticket,
                                          workOrder |-> workOrder]]
    BY <1>6 DEF Begin
  <2>2. op \in WorkOrderWriters => workOrder.status # "none"
    BY <2>1 DEF LoadedAccepts, WorkOrderWriters, Transitions
  <2>3. workOrder' = workOrder
    BY <1>6 DEF Begin
  <2> QED
    BY <1>1, <2>1, <2>2, <2>3 DEF LinkedServed, Linked
<1>7. ASSUME NEW s \in Sessions, Acquire(s)
      PROVE  LinkedServed'
  <2>1. workOrder' = workOrder /\ \A t \in Sessions : sess'[t].op = sess[t].op
    BY <1>1, <1>7 DEF Acquire, Session
  <2>2. ASSUME NEW t \in Sessions, sess[t].op \in WorkOrderWriters
        PROVE  sess'[t].workOrder \in {sess[t].workOrder, workOrder}
    BY <1>1, <1>7, <2>2 DEF Acquire, Reread, Session
  <2> QED
    BY <2>1, <2>2 DEF LinkedServed, Linked
<1>8. ASSUME NEW s \in Sessions,
             Commit(s) \/ Refuse(s) \/ Fail(s) \/ DeadlockVictim(s)
      PROVE  LinkedServed'
  <2>1. Release(s)
    BY <1>8, CommitReleases DEF Refuse, Fail, DeadlockVictim
  <2> QED
    BY <1>1, <1>3, <2>1 DEF Release, Idle
<1> QED
  BY <1>4, <1>5, <1>6, <1>7, <1>8 DEF Next, Step

-----------------------------------------------------------------------------
(***************************************************************************)
(* The abstract vocabulary and the services'.                              *)
(***************************************************************************)
LEMMA Vocabulary ==
  /\ Contract!Worked = ActiveTicketStatus
  /\ Contract!Decided = TerminalTicketStatus
  /\ Contract!Maintained = ActiveMaintenance
  /\ Contract!Targets = WorkflowTargets
  /\ Contract!Worked \ {"in_progress"} = RequesterCancellable
  BY DEF Contract!Worked, Contract!Decided, Contract!Maintained, Contract!Targets,
     Contract!Stands, ActiveTicketStatus, TerminalTicketStatus, ActiveMaintenance,
     WorkflowTargets, RequesterCancellable

LEMMA StandsForMapped ==
  ASSUME NEW to \in WorkflowTargets
  PROVE  /\ to \in DOMAIN Contract!Stands <=> MappedTicketStatus(to) # "none"
         /\ to \in DOMAIN Contract!Stands =>
              Contract!Stands[to] = MappedTicketStatus(to)
  BY DEF WorkflowTargets, MappedTicketStatus, Contract!Stands

\* A status change of the committed ticket is a decision of the contract.
LEMMA ChangeIsDecision ==
  ASSUME ticket \in Ticket, RowConsistent(ticket),
         NEW to \in TicketStatus, NEW author,
         WriteTicketStatus(ChangedTicket(ticket, to), author),
         NEW from, ticket.status \in from,
         to \in TerminalTicketStatus \/ to \in ActiveTicketStatus
           \/ ticket.status \in ActiveTicketStatus
  PROVE  Contract!Decide(from, to, author)
<1>1. ticket'.status = to /\ logged'.by = author
  BY ChangedTicketConsistent DEF WriteTicketStatus
<1>2. ticket'.resolvedAt = IF to \in ActiveTicketStatus THEN "unset"
                           ELSE IF to # "cancelled" /\ ticket.resolvedAt = "unset"
                           THEN "recent" ELSE ticket.resolvedAt
  BY DEF WriteTicketStatus, ChangedTicket, Ticket
<1>3. (ticket'.resolvedAt = "expired") =
        (ticket.resolvedAt = "expired" /\ to \notin ActiveTicketStatus)
  BY <1>2
<1> QED
  BY <1>1, <1>3, Vocabulary DEF Contract!Decide

-----------------------------------------------------------------------------
(***************************************************************************)
(* Every step is a step of the contract or leaves what it shows unchanged. *)
(***************************************************************************)
\* Staff saves.
LEMMA SaveIsContract ==
  ASSUME IInv, IInv', RequestsServed, NEW s \in Sessions,
         \/ ChangeTicketStatus(s) \/ AssignTicket(s)
         \/ AddTicketComment(s) \/ UpdateTicket(s)
  PROVE  Contract!Next
<1>1. ticket' \in Ticket /\ RowConsistent(ticket')
  BY DEF IInv, TypeOK, TicketRowConsistent
<1>2. ticket'.status \in Contract!Worked \union Contract!Decided \union {"resolved"}
  BY <1>1 DEF Ticket, TicketStatus, Contract!Worked, Contract!Decided
<1>3. ticket'.resolvedAt = "expired" => ticket'.status \notin Contract!Worked
  BY <1>1, Vocabulary DEF RowConsistent
<1>4. workOrder' = workOrder
  BY DEF ChangeTicketStatus, AssignTicket, AddTicketComment, UpdateTicket
<1>5. \/ logged'.by = "staff"
      \/ Requests \intersect Unlogged # {} /\ logged'.by = logged.by
  <2>1. CASE ChangeTicketStatus(s)
    BY <2>1 DEF ChangeTicketStatus, WriteTicketStatus
  <2>2. CASE ~ChangeTicketStatus(s)
    <3>1. sess[s].op \in Requests \intersect Unlogged
      BY <2>2 DEF AssignTicket, AddTicketComment, UpdateTicket, Commits, Unlogged,
         RequestsServed
    <3>2. logged' = logged \/ logged'.by = "staff"
      BY <2>2 DEF AssignTicket, AddTicketComment, UpdateTicket, WriteTicketStatus
    <3> QED
      BY <3>1, <3>2
  <2> QED
    BY <2>1, <2>2
<1> QED
  BY <1>2, <1>3, <1>4, <1>5 DEF Contract!Next, Contract!SaveTicket

\* The decisions made on the reloaded ticket.
LEMMA DecisionIsContract ==
  ASSUME IInv, NEW s \in Sessions,
         \/ RequesterCancel(s) \/ RequesterAcknowledge(s) \/ RequesterReopen(s)
         \/ AutoClose(s) \/ GenerateWorkOrder(s)
  PROVE  Contract!Next
<1>1. ticket \in Ticket /\ RowConsistent(ticket) /\ sess[s].ticket = ticket
  BY CommitHolds DEF IInv, TypeOK, TicketRowConsistent, RequesterCancel,
     RequesterAcknowledge, RequesterReopen, AutoClose, GenerateWorkOrder, Commits,
     TicketDeciders
<1>2. {"cancelled", "closed"} = TerminalTicketStatus
      /\ "in_progress" \in ActiveTicketStatus
      /\ {"cancelled", "closed", "in_progress"} \subseteq TicketStatus
  BY DEF TerminalTicketStatus, ActiveTicketStatus, TicketStatus
<1>3. CASE RequesterCancel(s)
  <2>1. /\ ticket.status \in RequesterCancellable
        /\ workOrder.status \notin ActiveMaintenance
        /\ workOrder' = workOrder
        /\ WriteTicketStatus(ChangedTicket(ticket, "cancelled"), "requester")
    BY <1>1, <1>3, CommitHolds DEF RequesterCancel, Commits, Accepted
  <2>2. Contract!Decide(RequesterCancellable, "cancelled", "requester")
    BY <1>1, <1>2, <2>1, ChangeIsDecision
  <2> QED
    BY <2>1, <2>2, Vocabulary DEF Contract!Next, Contract!Cancel
<1>4. CASE RequesterAcknowledge(s)
  <2>1. /\ ticket.status \in {"resolved"} /\ workOrder' = workOrder
        /\ WriteTicketStatus(ChangedTicket(ticket, "closed"), "requester")
    BY <1>1, <1>4 DEF RequesterAcknowledge, Commits, Accepted
  <2>2. Contract!Decide({"resolved"}, "closed", "requester")
    BY <1>1, <1>2, <2>1, ChangeIsDecision
  <2> QED
    BY <2>1, <2>2 DEF Contract!Next, Contract!Acknowledge
<1>5. CASE RequesterReopen(s)
  <2>1. /\ ticket.status \in {"resolved"} /\ workOrder' = workOrder
        /\ WriteTicketStatus(ChangedTicket(ticket, "in_progress"), "requester")
    BY <1>1, <1>5 DEF RequesterReopen, Commits, Accepted
  <2>2. Contract!Decide({"resolved"}, "in_progress", "requester")
    BY <1>1, <1>2, <2>1, ChangeIsDecision
  <2> QED
    BY <2>1, <2>2 DEF Contract!Next, Contract!Reopen
<1>6. CASE AutoClose(s)
  <2>1. /\ ticket.status \in {"resolved"} /\ ticket.resolvedAt = "expired"
        /\ workOrder' = workOrder
        /\ WriteTicketStatus(ChangedTicket(ticket, "closed"), "system")
    BY <1>1, <1>6 DEF AutoClose, Commits, Accepted
  <2>2. Contract!Decide({"resolved"}, "closed", "system")
    BY <1>1, <1>2, <2>1, ChangeIsDecision
  <2> QED
    BY <2>1, <2>2 DEF Contract!Next, Contract!AutoClose
<1>7. CASE GenerateWorkOrder(s)
  <2>1. /\ ticket.status \in {"assigned", "in_progress"} /\ workOrder.status = "none"
        /\ ticket' = ticket /\ logged' = logged
    BY <1>1, <1>7 DEF GenerateWorkOrder, Commits, Accepted
  <2>2. workOrder'.status = "assigned"
    BY <1>7 DEF GenerateWorkOrder, NoWorkOrder
  <2> QED
    BY <2>1, <2>2 DEF Contract!Next, Contract!Generate
<1> QED
  BY <1>3, <1>4, <1>5, <1>6, <1>7

\* A workflow action moves the ticket as its target says.
LEMMA TransitionIsContract ==
  ASSUME IInv, LinkedServed, NEW s \in Sessions, TransitionWorkOrder(s)
  PROVE  Contract!Next
<1> DEFINE to == sess[s].arg
           target == MappedTicketStatus(to)
<1>1. /\ ticket \in Ticket /\ RowConsistent(ticket) /\ sess[s].ticket = ticket
      /\ sess[s].workOrder \in WorkOrder /\ to \in WorkflowTargets
      /\ workOrder.status # "none" /\ sess[s].workOrder.status # "none"
  BY CommitHolds DEF IInv, TypeOK, Session, TicketRowConsistent, RequestsOK, RequestOK,
     LinkedServed, Linked, TransitionWorkOrder, Commits, TicketDeciders, WorkOrderWriters
<1>2. workOrder'.status = to
  BY <1>1, WrittenLinked DEF TransitionWorkOrder
<1>3. CASE target \in {"none", ticket.status}
  <2>1. ticket' = ticket /\ logged' = logged
    BY <1>1, <1>3 DEF TransitionWorkOrder, SyncedTicket
  <2>2. to \in DOMAIN Contract!Stands => ticket.status = Contract!Stands[to]
    BY <1>1, <1>3, StandsForMapped
  <2> QED
    BY <1>1, <1>2, <2>1, <2>2, Vocabulary DEF Contract!Next, Contract!Maintain
<1>4. CASE target \notin {"none", ticket.status}
  <2>1. target \in TicketStatus /\ target \notin TerminalTicketStatus
    BY <1>4, MappedStatusType
  <2>2. WriteTicketStatus(ChangedTicket(ticket, target), "workflow")
    <3>1. ChangedTicket(ticket, target).status # ticket.status
      BY <1>1, <1>4, <2>1, ChangedTicketConsistent
    <3> QED
      BY <1>1, <1>4, <3>1 DEF TransitionWorkOrder, SyncedTicket
  <2>3. ticket.status \notin TerminalTicketStatus
    BY <1>1, <1>4 DEF TransitionWorkOrder, Commits, Accepted, SyncRefused
  <2>4. ticket.status \in Contract!Worked \union {"resolved"}
    BY <1>1, <2>3 DEF Ticket, TicketStatus, TerminalTicketStatus, Contract!Worked
  <2>5. target \in ActiveTicketStatus \/ ticket.status \in ActiveTicketStatus
    BY <1>4, <2>1, <2>4, Vocabulary DEF TicketStatus, TerminalTicketStatus,
       ActiveTicketStatus
  <2>6. Contract!Decide(Contract!Worked \union {"resolved"}, target, "workflow")
    BY <1>1, <2>1, <2>2, <2>4, <2>5, ChangeIsDecision
  <2>7. to \in DOMAIN Contract!Stands /\ target = Contract!Stands[to]
    BY <1>1, <1>4, StandsForMapped
  <2> QED
    BY <1>1, <1>2, <1>4, <2>6, <2>7, Vocabulary DEF Contract!Next, Contract!Maintain
<1> QED
  BY <1>3, <1>4

\* The other operations on the work order leave the ticket alone.
LEMMA WorkOrderSaveIsContract ==
  ASSUME IInv, LinkedServed, [Next]_vars, NEW s \in Sessions,
         CompleteAgain(s) \/ AssignWorkOrder(s) \/ UnassignWorkOrder(s)
           \/ UpdateWorkOrder(s)
  PROVE  Contract!Next
<1>1. workOrder.status # "none"
  BY DEF LinkedServed, Linked, WorkOrderWriters, CompleteAgain, AssignWorkOrder,
     UnassignWorkOrder, UpdateWorkOrder, Commits
<1>2. workOrder'.status # "none"
  BY <1>1, WorkOrderStays
<1>3. ticket' = ticket /\ logged' = logged
  BY DEF CompleteAgain, AssignWorkOrder, UnassignWorkOrder, UpdateWorkOrder
<1> QED
  BY <1>1, <1>2, <1>3 DEF Contract!Next, Contract!SaveWorkOrder

LEMMA StepIsContract ==
  ASSUME IInv, IInv', RequestsServed, LinkedServed, [Next]_vars
  PROVE  [Contract!Next]_(Contract!vars)
<1>1. CASE UNCHANGED <<ticket, workOrder, logged>>
  BY <1>1 DEF Contract!vars
<1>2. CASE PeriodExpires
  <2>1. ticket \in Ticket /\ RowConsistent(ticket)
    BY DEF IInv, TypeOK, TicketRowConsistent
  <2>2. /\ ticket.resolvedAt = "recent" /\ ticket'.resolvedAt = "expired"
        /\ ticket'.status = ticket.status
        /\ workOrder' = workOrder /\ logged' = logged
    BY <1>2, <2>1 DEF PeriodExpires, Ticket
  <2>3. ticket.status \notin Contract!Worked
    BY <2>1, <2>2, Vocabulary DEF RowConsistent
  <2> QED
    BY <2>2, <2>3 DEF Contract!Next, Contract!Expire
<1>3. ASSUME NEW s \in Sessions, Commit(s)
      PROVE  Contract!Next
  BY <1>3, SaveIsContract, DecisionIsContract, TransitionIsContract,
     WorkOrderSaveIsContract DEF Commit
<1> QED
  BY <1>1, <1>2, <1>3
     DEF Next, Step, vars, Begin, Acquire, Refuse, Fail, DeadlockVictim

LEMMA InitIsContract ==
  ASSUME Init \/ GeneratedInit
  PROVE  Contract!Init /\ LinkedServed
<1>1. ticket.resolvedAt = "unset"
  BY DEF Init, GeneratedInit, NewTicket
<1>2. \/ ticket.status = "open" /\ logged.by = "creation" /\ workOrder.status = "none"
      \/ ticket.status = "assigned" /\ logged.by = "staff" /\ workOrder.status = "assigned"
  <2>1. CASE Init
    BY <2>1 DEF Init, NewTicket, NoWorkOrder
  <2>2. CASE GeneratedInit
    BY <2>2 DEF GeneratedInit, NewTicket, NoWorkOrder
  <2> QED
    BY <2>1, <2>2
<1>3. LinkedServed
  BY DEF Init, GeneratedInit, Idle, WorkOrderWriters, LinkedServed, Linked
<1> QED
  BY <1>1, <1>2, <1>3 DEF Contract!Init

\* Whatever the clients issue and however their transactions interleave, fail
\* and deadlock, requester decisions, automatic closures, generated work orders
\* and workflow actions take effect one at a time on the committed rows, and
\* only a save of staff puts a ticket where no decision would.
THEOREM RequestsImplementContract == Spec => ImplementsContract
<1>1. Init \/ GeneratedInit => IInv /\ RequestsServed /\ LinkedServed /\ Contract!Init
  BY InitIInv, ServedInit, InitIsContract
<1>2. IInv /\ RequestsServed /\ LinkedServed /\ [Next]_vars =>
        /\ IInv' /\ RequestsServed' /\ LinkedServed'
        /\ [Contract!Next]_(Contract!vars)
  BY NextIInv, ServedNext, LinkedNext, StepIsContract
<1> QED
  BY <1>1, <1>2, PTL DEF Spec, ImplementsContract, Contract!Spec
=============================================================================
