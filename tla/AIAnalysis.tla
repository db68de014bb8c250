------------------------------ MODULE AIAnalysis ------------------------------
(***************************************************************************)
(* The image-analysis pipeline of one FM ticket: requests that queue an    *)
(* analysis, the Celery broker, the workers that call the provider, and    *)
(* the human review of what they find.                                     *)
(*                                                                         *)
(* queue_ticket_image_analysis publishes its message before its            *)
(* transaction commits, so a worker may look for the row too early.  A     *)
(* worker acknowledges a message as it starts on it, so a crash loses it;  *)
(* a message held back too long (a retry's countdown) is delivered twice.  *)
(***************************************************************************)
EXTENDS Naturals

CONSTANTS
  Analyses,         \* analysis rows of the ticket that can be created
  Clients,          \* web requests that queue an analysis at the same time
  Workers,          \* Celery worker slots
  Results,          \* what the provider may answer
  None,             \* no analysis, no result
  MaxAttempts,      \* FACILITYOPS_AI_MAX_ATTEMPTS, or an administrator's value
  MaxCrashes,       \* bound: workers that crash in a behaviour
  MaxRedeliveries   \* bound: messages delivered twice in a behaviour

ASSUME NoneAssumption == None \notin Analyses /\ None \notin Results
ASSUME AttemptsAssumption == MaxAttempts \in 1..10
ASSUME BoundsAssumption == MaxCrashes \in Nat /\ MaxRedeliveries \in Nat

\* max_retries of the Celery task.
MaxRetries == 2

Message == [analysis : Analyses, retries : 0..MaxRetries]

\* Rows no transaction but the creating one can see, and rows it gave up.
Invisible == {"absent", "uncommitted", "rolled_back"}
Active == {"queued", "processing"}
Settled == {"completed", "failed"}

Row == [status   : Invisible \union Active \union Settled,
        attempts : 0..(MaxRetries + 1),
        result   : Results \union {None},
        reviewed : Results \union {None}]

Job == [phase : {"idle", "calling", "retrying"}, message : Message \union {None}]

VARIABLES
  row,           \* AITicketAnalysis rows
  creating,      \* client -> the row of its open transaction
  broker,        \* message -> copies waiting for delivery
  job,           \* worker -> the message it works on
  lost,          \* analyses a message of which was dropped
  crashes, redeliveries

vars == <<row, creating, broker, job, lost, crashes, redeliveries>>

TypeOK ==
  /\ row \in [Analyses -> Row]
  /\ creating \in [Clients -> Analyses \union {None}]
  /\ broker \in [Message -> Nat]
  /\ job \in [Workers -> Job]
  /\ lost \subseteq Analyses
  /\ crashes \in 0..MaxCrashes
  /\ redeliveries \in 0..MaxRedeliveries

AbsentRow == [status |-> "absent", attempts |-> 0, result |-> None,
              reviewed |-> None]
IdleJob == [phase |-> "idle", message |-> None]

Init ==
  /\ row = [a \in Analyses |-> AbsentRow]
  /\ creating = [c \in Clients |-> None]
  /\ broker = [m \in Message |-> 0]
  /\ job = [w \in Workers |-> IdleJob]
  /\ lost = {}
  /\ crashes = 0
  /\ redeliveries = 0

SetStatus(a, status) == row' = [row EXCEPT ![a].status = status]
Publish(m) == broker' = [broker EXCEPT ![m] = @ + 1]

-----------------------------------------------------------------------------
(***************************************************************************)
(* queue_ticket_image_analysis.  When it finds an active analysis it       *)
(* returns that one and changes nothing.                                   *)
(***************************************************************************)
QueueAnalysis(c) ==
  /\ creating[c] = None
  /\ \A a \in Analyses : row[a].status \notin Active
  /\ \E a \in Analyses :
        /\ row[a].status = "absent"
        /\ SetStatus(a, "uncommitted")
        /\ Publish([analysis |-> a, retries |-> 0])
        /\ creating' = [creating EXCEPT ![c] = a]
  /\ UNCHANGED <<job, lost, crashes, redeliveries>>

CommitAnalysis(c) ==
  /\ creating[c] # None
  /\ SetStatus(creating[c], "queued")
  /\ creating' = [creating EXCEPT ![c] = None]
  /\ UNCHANGED <<broker, job, lost, crashes, redeliveries>>

RollBackAnalysis(c) ==
  /\ creating[c] # None
  /\ SetStatus(creating[c], "rolled_back")
  /\ creating' = [creating EXCEPT ![c] = None]
  /\ UNCHANGED <<broker, job, lost, crashes, redeliveries>>

-----------------------------------------------------------------------------
(***************************************************************************)
(* process_fm_ticket_ai_analysis, as far as the provider call.             *)
(***************************************************************************)
Take(w, m) ==
  /\ job[w].phase = "idle"
  /\ broker[m] > 0
  /\ broker' = [broker EXCEPT ![m] = @ - 1]

\* The row is not visible (yet): "not_found", and the message is gone.
ReceiveNotFound(w) ==
  /\ \E m \in Message :
        /\ Take(w, m)
        /\ row[m.analysis].status \in Invisible
        /\ lost' = lost \union {m.analysis}
  /\ UNCHANGED <<row, creating, job, crashes, redeliveries>>

ReceiveCompleted(w) ==
  /\ \E m \in Message : Take(w, m) /\ row[m.analysis].status = "completed"
  /\ UNCHANGED <<row, creating, job, lost, crashes, redeliveries>>

Attempt(m) == m.retries + 1

Larger(i, j) == IF i > j THEN i ELSE j

\* Wrong: every delivery counts as one more attempt.
StartCountingDeliveries(w) ==
  /\ \E m \in Message :
        /\ Take(w, m)
        /\ row[m.analysis].status \in Active \union {"failed"}
        /\ row' = [row EXCEPT ![m.analysis].status   = "processing",
                              ![m.analysis].attempts = @ + 1]
        /\ job' = [job EXCEPT ![w] = [phase |-> "calling", message |-> m]]
  /\ UNCHANGED <<creating, lost, crashes, redeliveries>>

StartProcessing(w) ==
  /\ \E m \in Message :
        /\ Take(w, m)
        /\ row[m.analysis].status \in Active \union {"failed"}
        /\ row' = [row EXCEPT
             ![m.analysis].status   = "processing",
             ![m.analysis].attempts = Larger(@, Attempt(m))]
        /\ job' = [job EXCEPT ![w] = [phase |-> "calling", message |-> m]]
  /\ UNCHANGED <<creating, lost, crashes, redeliveries>>

(***************************************************************************)
(* The provider has answered: the row is locked and looked at again.       *)
(***************************************************************************)
Finish(w) == job' = [job EXCEPT ![w] = IdleJob]

\* Another delivery of the same analysis has completed it meanwhile.
AlreadyCompleted(w) ==
  /\ job[w].phase = "calling"
  /\ row[job[w].message.analysis].status = "completed"
  /\ Finish(w)
  /\ UNCHANGED <<row, creating, broker, lost, crashes, redeliveries>>

Complete(w) ==
  /\ job[w].phase = "calling"
  /\ LET a == job[w].message.analysis IN
       /\ row[a].status # "completed"
       /\ \E r \in Results :
            row' = [row EXCEPT ![a].status = "completed", ![a].result = r]
  /\ Finish(w)
  /\ UNCHANGED <<creating, broker, lost, crashes, redeliveries>>

\* Wrong: the row is not looked at again before it is marked as failed.
GiveUpUnseen(w) ==
  /\ job[w].phase = "calling"
  /\ LET m == job[w].message IN
       row' = [row EXCEPT ![m.analysis].status   = "failed",
                          ![m.analysis].attempts = Attempt(m)]
  /\ Finish(w)
  /\ UNCHANGED <<creating, broker, lost, crashes, redeliveries>>

\* _fail_or_retry with an error that is not retryable, or on the last attempt.
GiveUp(w) ==
  /\ job[w].phase = "calling"
  /\ LET m == job[w].message IN
       /\ row[m.analysis].status # "completed"
       /\ row' = [row EXCEPT ![m.analysis].status   = "failed",
                             ![m.analysis].attempts = Attempt(m)]
  /\ Finish(w)
  /\ UNCHANGED <<creating, broker, lost, crashes, redeliveries>>

\* Wrong: a transient error is always worth another attempt.
AskForRetryAlways(w) ==
  /\ job[w].phase = "calling"
  /\ LET m == job[w].message IN
       /\ row[m.analysis].status # "completed"
       /\ row' = [row EXCEPT ![m.analysis].status   = "processing",
                             ![m.analysis].attempts = Attempt(m)]
  /\ job' = [job EXCEPT ![w].phase = "retrying"]
  /\ UNCHANGED <<creating, broker, lost, crashes, redeliveries>>

\* _fail_or_retry with a transient error: the row stays in processing.
AskForRetry(w) ==
  /\ job[w].phase = "calling"
  /\ LET m == job[w].message IN
       /\ row[m.analysis].status # "completed"
       /\ Attempt(m) < MaxAttempts
       /\ row' = [row EXCEPT ![m.analysis].status   = "processing",
                             ![m.analysis].attempts = Attempt(m)]
  /\ job' = [job EXCEPT ![w].phase = "retrying"]
  /\ UNCHANGED <<creating, broker, lost, crashes, redeliveries>>

\* Wrong: one retry too few.
RetryOnceLess(w) ==
  /\ job[w].phase = "retrying"
  /\ LET m == job[w].message IN
       IF m.retries + 1 < MaxRetries
       THEN Publish([m EXCEPT !.retries = @ + 1])
       ELSE UNCHANGED broker
  /\ Finish(w)
  /\ UNCHANGED <<row, creating, lost, crashes, redeliveries>>

\* Celery's autoretry_for: publish the next attempt, or give the task up.
Retry(w) ==
  /\ job[w].phase = "retrying"
  /\ LET m == job[w].message IN
       IF m.retries < MaxRetries
       THEN Publish([m EXCEPT !.retries = @ + 1])
       ELSE UNCHANGED broker
  /\ Finish(w)
  /\ UNCHANGED <<row, creating, lost, crashes, redeliveries>>

-----------------------------------------------------------------------------
(***************************************************************************)
(* Failures, and the review.                                               *)
(***************************************************************************)
Crash(w) ==
  /\ job[w].phase # "idle"
  /\ crashes < MaxCrashes
  /\ crashes' = crashes + 1
  /\ lost' = lost \union {job[w].message.analysis}
  /\ Finish(w)
  /\ UNCHANGED <<row, creating, broker, redeliveries>>

Redeliver ==
  /\ redeliveries < MaxRedeliveries
  /\ redeliveries' = redeliveries + 1
  /\ \E m \in Message : broker[m] > 0 /\ Publish(m)
  /\ UNCHANGED <<row, creating, job, lost, crashes>>

\* record_recommendation_decision keeps the recommendation it was made on.
Review(a) ==
  /\ row[a].status = "completed"
  /\ row' = [row EXCEPT ![a].reviewed = row[a].result]
  /\ UNCHANGED <<creating, broker, job, lost, crashes, redeliveries>>

EndCreation(c) == CommitAnalysis(c) \/ RollBackAnalysis(c)
Receive(w) == ReceiveNotFound(w) \/ ReceiveCompleted(w) \/ StartProcessing(w)
Answer(w) == AlreadyCompleted(w) \/ Complete(w) \/ GiveUp(w) \/ AskForRetry(w)

Next ==
  \/ \E c \in Clients : QueueAnalysis(c) \/ EndCreation(c)
  \/ \E w \in Workers : Receive(w) \/ Answer(w) \/ Retry(w) \/ Crash(w)
  \/ Redeliver
  \/ \E a \in Analyses : Review(a)

\* Transactions end, workers take what is waiting, a provider call ends
\* within its timeout, and Celery publishes the retry it was asked for.
Fairness ==
  /\ \A c \in Clients : WF_vars(EndCreation(c))
  /\ \A w \in Workers : WF_vars(Receive(w)) /\ WF_vars(Answer(w))
                        /\ WF_vars(Retry(w))

Spec == Init /\ [][Next]_vars
FairSpec == Spec /\ Fairness

-----------------------------------------------------------------------------
(***************************************************************************)
(* Properties.                                                             *)
(***************************************************************************)
\* A message of the analysis waits for delivery, or a worker has it in hand.
Carried(a) ==
  \/ \E m \in Message : m.analysis = a /\ broker[m] > 0
  \/ \E w \in Workers :
        job[w].phase # "idle" /\ job[w].message.analysis = a

\* Retries neither stop early nor leave a row behind: unless a message was
\* dropped, an analysis in progress still has somebody to finish it.
ActiveIsCarried ==
  \A a \in Analyses : row[a].status \in Active /\ a \notin lost => Carried(a)

\* Whatever crashes and early deliveries do, an analysis in progress still has
\* somebody to finish it; a ticket whose analysis has not is never analysed,
\* since the queue service returns the analysis in progress.
NeverStuck == \A a \in Analyses : row[a].status \in Active => Carried(a)

\* A ticket has one analysis in progress at most (FO-097).
OneActivePerTicket ==
  \A a, b \in Analyses :
    row[a].status \in Active /\ row[b].status \in Active => a = b

\* Deliveries that come late or twice, and workers that answer out of order,
\* never take a completed analysis back or change what was reviewed.
Contract == INSTANCE AnalysisContract WITH
  status <- [a \in Analyses |-> IF row[a].status \in Invisible THEN "absent"
                                ELSE row[a].status],
  result <- [a \in Analyses |-> row[a].result],
  reviewed <- [a \in Analyses |-> row[a].reviewed]
ImplementsContract == Contract!Spec

\* An analysis that is queued ends, unless a message of it was dropped.
AnalysesSettle ==
  \A a \in Analyses :
    row[a].status \in Active ~> (row[a].status \in Settled \/ a \in lost)
=============================================================================
