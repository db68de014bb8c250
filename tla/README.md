# FacilityOps: TLA+ models, checks and proofs

The repository is a Django application (PostgreSQL, Celery on Redis) with a
TypeScript client. People report facility problems as FM tickets, staff turn a
ticket into a maintenance work order, and the two are kept in step; images of a
ticket are analysed by an AI provider in the background. Around that core are
inspections, projects, master data, accounts, attachments, notifications and
reports. Paths below are relative to `src/backend/apps/`, those of the client to
`src/frontend/`.

## 1. Inventory

### The server

What makes the code hard is the same almost everywhere. The database runs at
READ COMMITTED and requests are not wrapped in a transaction
(`ATOMIC_REQUESTS` is off). A view loads an object without a lock, a
serializer checks that instance, and a service saves it: Django writes every
column back, so a service that does not lock and reload the row overwrites
whatever was committed since the load. Some services lock
(`select_for_update`), most do not, and they lock in different orders.

| part | state | operations | interacts with | hard behaviour | what makes it correct |
|---|---|---|---|---|---|
| FM ticket lifecycle `fm_tickets/services.py` | `FmTicket`, comments, history, escalations | create, update, comment, change status, assign, escalate | everything below | stale full saves; comment, update and escalation outside a transaction | timestamps belong to the status; no decision is undone |
| Requester workflow `requester_workflow.py` | ticket, linked work order | cancel, acknowledge, reopen | work-order workflow | check-then-act across two rows, lock order | no cancellation of active execution; one decision per resolution; no deadlock |
| Automatic closure `auto_closure.py` | ticket | hourly batch, one transaction per ticket | requester workflow, staff | candidates go stale, overlapping runs, batch limit | closes once, only what is resolved and expired; later tickets are not starved |
| Work-order generation `work_order_service.py` | ticket, work order, assignment | generate | maintenance | double click, retry, number allocation | at most one work order per ticket, from a ready ticket |
| Work-order workflow `maintenance/work_order_workflow_service.py` | work order, completion, SLA | submit, start, hold, resume, complete, cancel, reopen, update | ticket synchronisation, SLA | stale instance against the transition table | ticket and work order agree; rows stay savable |
| Ticket synchronisation `maintenance/ticket_sync_service.py` | ticket | synchronise | workflow | two rows in one transaction, terminal tickets | both or none |
| Assignment `maintenance/work_order_assignment_service.py` | `MaintenanceAssignment`, work order | assign, reassign, unassign | workflow | two at once | one active assignment |
| SLA and escalation `maintenance/work_order_sla_service.py`, `work_order_escalation_service.py` | SLA row, escalations | recalculate, check, acknowledge, resolve | beat task, workflow | lost update, duplicate escalation | first response is kept; one active escalation per type |
| AI analysis `fm_tickets/ai_queue_service.py`, `ai_processing_service.py`, `tasks.py` | `AITicketAnalysis`, broker, workers | queue, process, retry, review | Celery, provider | early, lost, late and repeated messages, crashes | every analysis settles; a result is never taken back; one in progress |
| Projects `projects/` | project, tasks, dependencies, snapshots | task and dependency edits, recalculation, completion | tickets, work orders through links | graph check without a lock, stale totals | acyclic; nothing starts before its predecessors; totals match |
| Master data `master_data/lifecycle.py` | tenant ... asset hierarchy | delete, restore, deactivate | all | lock order, check before insert | no live child under a deleted parent |
| Inspections `inspection/services/` | inspection, items, corrective actions, SLA | status workflow, assignment, escalations | notifications | stale instance, duplicates | transition table followed |
| Accounts, access control | users, roles, assignments | assign, deactivate | all | deactivation against assignment | no live assignment of a dead role |
| Attachments | row and stored object | upload, delete | all | two stores | no orphan, no dangling row |
| Notifications | notifications, preferences | create, read, bulk | all | written in the caller's transaction | failure rolls the caller back |
| Dashboard, reporting, core | none of their own | queries | all | - | - |

### The client

The client is a Next.js application in which everything a person sees is kept in
the browser: tokens in storage, the permissions of the user and the answers of
the server in memory. Its difficulty is not in any component but between them:
several requests are in flight at once, answers arrive after the page, or the
session, that asked for them, and some ninety screens repeat in their own words
who may do what.

| part | state | operations | interacts with | hard behaviour | what makes it correct |
|---|---|---|---|---|---|
| Requests, queries, mutations `services/api/`, `hooks/`, `components/providers/query-provider.tsx` | query cache | query, mutate, put an answer, invalidate sets of keys one after the other | server, screens | a change is answered while what it concerns is being fetched, closed, failing, retried or fresh for 30 s | the user sees their own changes; a screen never goes back |
| Screens and gates `features/`, `app/`, `components/auth/`, `lib/navigation/` | - | read, offer, link, guard | permissions, server's gates | a hundred gates in the client against a hundred on the server, for six roles | no refused request, control or link is shown |
| Session `components/providers/auth-provider.tsx`, `lib/auth/` | tokens, user, permissions, flags | sign in, restore, identify, sign out, refresh permissions | cache, screens, roles | requests outlive the session; roles change while permissions load | permissions and cache are of the user signed in |
| Intake `features/my-requests/`, `features/fm-tickets/components/ticket-form-pages.tsx`, `components/attachments/` | staged photos, guard, outcome | create, upload one by one, queue the analysis, retry | tickets, attachments, analysis | any of the calls fails, or is carried out and its answer lost | one ticket, its photos on it, the person told the truth |
| Review `features/fm-tickets/components/ticket-ai-analysis-status.tsx` | view of the analysis, selection | poll, accept, modify, ignore, fill the form | analysis | another reviewer; a reload that fails; effects at every rendering | the decision recorded is the one shown and the one made |
| Landing pages, layout, validation of forms | - | - | - | - | - |

`PROJECT.json` lists the parts with their status and, under `hazards`, the
places where this goes wrong in ways a unit test hardly reaches.

## 2. Modules

### TicketWorkOrder, TicketContract

One ticket, its work order and every operation on the two rows, issued by
`Sessions`. It composes five parts of the code, because they meet in two rows
and in the order of their locks.

* `ticket`, `workOrder` are the committed rows, reduced to the columns the
  services decide on. `resolvedAt` is kept as an age (`unset`, `recent`,
  `expired`), the classification columns as a `profile`.
* `sess[s]` is an open request: the operation, its argument, the two instances
  the view loaded, and how many locks it has. `locks` holds the row locks.
* `Begin` is `get_object` and the serializer. `Acquire` is the next statement
  that locks a row: it reloads the row for `select_for_update`, and leaves the
  loaded instance alone when the statement is the `UPDATE` of a `save()`.
  `LockPlan` lists the locks of each operation in the order its statements
  reach them.
* One action per operation is its commit: all its writes at once, since no
  other session sees them before. `Refuse` is a check that fails on the locked
  rows, `Fail` any exception (a history insert, a notification), and
  `DeadlockVictim` is PostgreSQL's way out of a cycle of waits.
* `PeriodExpires` lets the acknowledgement period run out.

Abstracted: other columns, permissions, notes, the history table except its
newest entry (`logged`), the assignment rows (whether a reassignment finds an
active one is left open, so it may always fail). The SLA row contributes only
its lock. `submit` has no action, because a work order linked to a ticket is
never in draft. Behaviours start as `create_ticket` leaves the rows (`Init`) or as assignment
and generation, served one after the other, leave them (`GeneratedInit`).

`TicketContract` is what the operations promise without sessions, locks and loaded
instances: cancellation, acknowledgement, reopening, automatic closure, generation and
workflow actions are one step each, on the rows as they are. What it leaves open is what the
code leaves open: staff save a ticket or a work order they loaded earlier, in any status (`SaveTicket`,
`SaveWorkOrder`), and some of these saves leave no entry in the history (`PlainSaves`, true
when a request in `Unlogged` is in use). `ImplementsContract` maps the committed rows, the age of
the resolution and the author of the newest entry.

### AIAnalysis, AnalysisContract

`AIAnalysis` is the analysis pipeline of one ticket: `row` are the analysis
rows, `creating` the open transactions of the requests that queue one,
`broker` the bag of messages, `job` what each worker has in hand. A message is
published before its transaction ends (`QueueAnalysis`, then `CommitAnalysis`
or `RollBackAnalysis`). A worker claims the row (`StartProcessing`), calls the
provider, and then locks and looks at the row again (`AlreadyCompleted`,
`Complete`, `GiveUp`, `AskForRetry`); `Retry` is Celery's `autoretry_for`.
`Crash` loses a message (Celery acknowledges early), `Redeliver` is the
visibility timeout of the Redis transport. `lost` remembers the analyses a
message of which was dropped. Attachments, the content of results and metrics
are left out.

`AnalysisContract` is what the pipeline promises: queued, then processing, then
completed or failed; only a late delivery takes a failed analysis up again, a
completed one keeps its result for good, and a review records the result it was
made on. `ImplementsContract` maps rows no other transaction can see to
`absent`.

### Tables of the client: Access, ClientTables, ProjectClient, AttachmentClient, MasterDataClient, AdminClient, TicketClient, OperationsClient

What the client sends, caches and refetches is data spread over some forty
files, and is kept as data: functions from the name of a request, query or
mutation in the source to a record of what it is.

* A request (`services/api/*.ts`) has the kinds of records it reads or changes
  (`what`) and its gate, the roles the server's view lets through (`gate`).
* A query (`hooks/*.ts`) has the request it makes and its key.
* A mutation has its request, the keys its answer is put under (`puts`), and the
  sets of keys it then invalidates, in the order of the awaited calls (`then`).

A gate is a set of roles: `Access` has the permission codes the seed command
gives each role and `hasPermission(code)`, the roles that have one, so that
`canView && canUpdate` in the client is an intersection, `||` a union, and a gate
of the client can be compared with the server's. Parameters of a key (ids, filters) are
left out except where two keys differ by them: there is one record of each kind.

### Screens: ProjectScreens, AdminScreens, TicketScreens, OperationsScreens; Client

A page has a guard and a screen: the queries it `reads` and those it `needs`
before it shows a control, the mutations it `offers` and the addresses it
`links` to, each with the roles for which the component shows it. A screen is
put together from those of its components, as in the source. `Client` is the
union of all tables; it says which mutations concern which queries (`Concerns`:
they share a kind of record), which keys a set of keys reaches (`Reaches`, prefix
matching as TanStack Query does it), and from these the plan by which a mutation
treats a query (`PlanOf`).

`ClientGates` says of a page and a role what the page reads, offers and links to, beside what
the server grants its user (`ReadsGrantedTo`, `OffersGrantedTo`, `LinksOpenTo`), and of all pages
and roles that the two agree (`GatesAgree`). `ClientAgreement` assumes that they do: a closed formula
over the tables, which TLC evaluates in the run `ClientCache.cfg`.

### QueryCache

One cached query, one mutation that concerns it, and other users. The records
on the server are a version number: the question is only what is older than what.
`Open`, `Close`, `Age` and `Collect` are what happens to the screen and its data;
`ServeFetch`, `LoseFetch`, `ReceiveFetch`, `RetryFetch`, `GiveUpFetch` a fetch with its
one retry; `SendChange` to `Resolve` the mutation: its answer is put in the cache
if the plan says so, then each set of keys is invalidated and, where the query is among
them, the invalidation waits for its refetch. An invalidation of a query
that is being fetched cancels the fetch only if there is data already; otherwise
it joins the fetch (`missed`), which may have been answered before the change.

### ClientSession

One tab and one user of every role. Tokens, user, permissions and the flags of
`auth-provider.tsx` are variables; `flow` is the asynchronous function of the
provider that is under way. Requests for permissions (`asks`) and changes of
roles (`saves`) are in flight independently of the page and of the session:
an answer is taken by whoever is signed in. `PageShown` is the guard of the
page, `Redirect` the one of an employee's requests, `Follow` any link the screen
shows, `Load` a reload or a typed address. What a screen reads, offers and links
to depends on the permissions the client holds (`gates`), what the server answers
on the token.

### TicketIntake

A concern from the form to the reviewed recommendation. `stage` is where the
person is in the submission, `call` the one request of it that is under way:
`Serve` carries it out, `Fail` refuses it or loses the answer of one carried out.
The requester's form and the staff's differ as they do in the source (a guard, a `try` of
its own around the queueing).

On the page of the request photos are added in batches. `uploadQueued` takes the files in the
uploader's queue, or one that is tried again, `late` is the one being uploaded, `batch` those that
follow and `uploadedIds` those that are done; when all have been tried `onUploaded` asks once for
the analysis of all that were uploaded (`requeue`). It is the callback of the rendering in which
the batch was started, so what it tests is `wasQueueingAi`, taken then, not what holds when it is
called.

A reviewer meets the panel of the analysis on the ticket's page and on its edit form (`at`). Both
show what the client has loaded last (`seen`), polled while active and otherwise reloaded
when old or invalidated (`Reload`). `sent` holds the decisions under way. The buttons are disabled
only while the panel that is mounted has one (`isPending`): leaving it does not end its decision
but leaves it without a panel (`mine`), and the next panel can send another. Decisions are
carried out and answered in any order. The answer to one sent from the ticket's page opens the edit form
with the class in its address, wherever the reviewer is by then (`OpenFilled`); the answer to one
sent from an edit form fills that form if it is still there (`FillForm`).

The server's side is reduced to what the client can tell apart: how
many tickets, photos on each, analyses of each; how an analysis is processed is the
business of `AIAnalysis`. History variables say why there may be more tickets
than one (`excused`), which photos the requester was told about (`accounted`), which were passed
over (`skipped`), which analyses a panel has shown as decided (`shown`) and on which two decisions of the
reviewer were under way at once (`crossed`).

### MC modules, definitions marked "Wrong"

The MC modules add restrictions of the starting states, symmetry and instances for TLC.
`MCClientCache` derives the plans it runs from the tables: all pairs of a
change and a query it concerns that some role has on one page or on two. The
pairs that no invalidation reaches are listed in `LeftToStaleTime` and left out of
the run: there the screen is up to thirty seconds behind, by `staleTime`. The
table is itself a result: it says where the client relies on that (a project's
page after changes of its parts, pickers and form options, reporting, a work
order's ticket and a ticket's work order). All other pairs are reached: one that
is not makes `OwnChangeShown` fail.

Definitions whose comment starts with "Wrong:" are plausible mistakes in the
definition that follows (a reload forgotten, a check dropped, one retry too
few). They are used by no action; putting one in place of its definition makes
the property listed with it under `mutants` fail, which shows that the property
depends on that piece of code.

## 3. Runs

| run | what it asks | bounds |
|---|---|---|
| `TicketRaces.cfg` | Do all fifteen operations, two at a time and with stale instances, keep the row consistent and the locked decisions current, and implement `TicketContract`? Holds. | 2 sessions, 4 requests, from a new, fully described ticket or one with a fresh work order |
| `TicketAnswered.cfg` | With the services that lock and reload only: do they implement `TicketContract` without plain saves, does automatic closure close once, and does every request end? Holds. | 2 sessions, 6 requests |
| `TicketDeadlock.cfg` | Is the locking contract of `requester_workflow.py` kept? Violated: see findings. | 2 sessions, 2 requests |
| `TicketStaleComment.cfg` | Does it still close once when somebody comments? Violated. | 2 sessions, 5 requests |
| `AIAnalysis.cfg` | Does the pipeline implement its contract and settle every analysis? Holds. | 2 analyses, 1 client, 2 workers, 2 results, 3 attempts, 1 crash, 1 redelivery |
| `AnalysisDuplicated.cfg` | One analysis in progress per ticket? Violated with two clients. | 2 clients, 1 worker |
| `AnalysisDeliveredEarly.cfg` | Is every analysis in progress carried by somebody? Violated without any crash. | 1 client, 1 worker |
| `AnalysisRetriesExhausted.cfg` | The same for retries, when four attempts are configured. Violated. | 1 client, 1 worker, 4 attempts |
| `ClientCache.cfg` | Under every plan by which the client treats a query its change concerns: are own changes shown, does a screen never go back, are invalidations missed only where nobody looks, does every change and every screen settle? Holds. | 25 distinct plans, versions 0 to 2 |
| `ClientSession.cfg` | Are permissions and cache those of the user, do screens read, offer and link to what the server grants, does every session settle? Holds, with the exceptions named in the properties. | 6 users, 2 of them signing in, 3 typed addresses, all pages by links, 2 permission requests, 1 change of roles in flight |
| `TicketIntake.cfg` | One ticket per concern, photos together, the person told the truth, decisions recorded as made; does every submission and every panel settle? Holds. | 2 photos, 2 tickets, 2 analyses, 2 classes, 2 decisions under way; both forms, with and without review |
| `ModifiedAsChosen.cfg` | Is a modification recorded with what the reviewer chose? Violated. | the same |

Why the bounds are enough: the locks make every conflict one between a request
that has loaded and one that commits, so two sessions show every pair of
operations, and a third only repeats a pair. Four requests let a history such as
resolve, reopen, stale save, close run on top of a generated work order; the
second starting state saves two more. In the pipeline three attempts exhaust
Celery's retries, one redelivery puts two workers on one row, and a second
analysis is queued only after the first has settled. Bounds are constants
(`MaxRequests`, `MaxCrashes`, `MaxRedeliveries`) that occur in one guard each; the
theorems below do not depend on their values. Deadlock checking is off because
every bounded run comes to an end.

In the client, versions 0 to 2 are the state before, one change of the user and
one of somebody else in either order, or two of the user; a further one only
repeats. The plans are those of the tables, without repetition. Two permission
requests in flight are what it takes for one to outlive a session or to cross
another, one change of roles what it takes to make them out of date. All pages are
reached by links; typed addresses are one with a guard of each kind. Two photos
show an upload that fails next to one that succeeds, two tickets a repeated
submission, two analyses the one queued later from the page of the request.
A concern is bound to what it is about (`MCConcerns`): those with two photos are not
reviewed, and have batches of one and of two started at any time of the request before; the staff's
with one photo and one analysis is reviewed on both pages with two decisions under way (`MaxSent`), which is
what it takes for one to be answered after the other; the requester's with one photo starts on the
page of its ticket and is reviewed on the edit form while a second analysis is asked for. The
review does not look at photos, nor the uploads at decisions.

Fairness. `TicketWorkOrder!Fairness` is strong fairness of the steps of a
session: PostgreSQL queues waiters of a row lock, so a session that can get the
lock again and again gets it, and its deadlock detector ends a cycle of waits.
Nothing is assumed of new requests, of the clock or of failures.
`AIAnalysis!Fairness` is weak fairness of ending a transaction, of a worker
taking waiting messages, of the provider call ending (it has a timeout) and of
Celery publishing a retry; nothing is assumed of crashes, redelivery, new
requests or reviews. In the client's modules a request is answered or fails
(the HTTP client has a timeout) and the code that awaits it goes on; in `TicketIntake`
a panel that polls is answered in the end. Nothing is assumed of the person, of
other users or of the analysis.

### What the violated properties show

1. `NoDeadlock`: the docstring of `requester_workflow.py` promises an order,
   ticket before work order, that avoids deadlocks with status changes. A
   transition saves the work order and locks the ticket afterwards.
2. `AutoClosedOnce`: `add_ticket_comment` saves the whole instance it was given.
   A comment written while the closure commits makes the ticket resolved again.
3. `OneActivePerTicket`: the check for an analysis in progress is not under a
   lock, and no constraint backs it.
4. `NeverStuck`: the message is published before the commit; the worker finds no
   row and drops it. The analysis stays queued and blocks every later one.
5. `ActiveIsCarried` with four attempts: the service asks for a retry that
   `max_retries=2` does not give.
6. `ModifiedAsChosen`: an effect sets the reviewer's selection back to what is
   recommended whenever the recommendation object changes, and the object is built anew
   at every rendering. What the reviewer picks is gone at once, and the decision is
   recorded as modified with the recommended values.

### Exceptions the properties of the client name

* Technicians and viewers meet filters and forms that pick from the master data,
  which the server keeps from them: their lists are shown, their edit forms of
  tickets, work orders and inspections never load (`MasterDataPickers`).
* The deletion of an inspection's files is offered to whoever may delete attachments
  and refused to a facility manager (`OffersGranted`).
* The Gantt chart links technicians and viewers to forms of tasks that
  refuse them (`GanttLinks`).
* A permission request that outlives its session gives the next user the gates of
  the previous one until the next refresh (`outlived`); the server still answers by the token.
* An invalidation joins the first fetch of a query without data (`missed`): the screen that
  opens then may be one change behind for `staleTime`.
* The staff form repeats a creation after a failed queueing, or when it is
  submitted again while the page changes (`excused`); a batch of photos started while
  an analysis is being asked for is passed over silently, even if it ends after that request
  has (`skipped`).
* A reviewer who goes from the ticket's page to the edit form with a decision under way, and
  sends another from there, has the later answer fill the form, whichever of the two is on record, and also
  when what is on record is that the recommendation was ignored (`crossed`). The promise holds for every
  other analysis, and `ShownDecisionStands` for these too.

## 4. Proofs

`TicketWorkOrder_proofs` proves, for any set of sessions, any set of
request kinds and any bound, every invariant and action property of
`TicketRaces.cfg`. The inductive invariant is

    IInv == TypeOK /\ LocksMatchPlans /\ LockedViewIsCurrent
            /\ TicketRowConsistent /\ RequestsOK

`LockedViewIsCurrent` is not inductive alone: a step of another session must not
write a row this one has reloaded, which needs `LocksMatchPlans` (a lock belongs
to the session whose plan says so, hence to one session) and the shape of the
plans (a commit writes only rows it has locked; the work order is reloaded only
under the ticket lock). `TicketRowConsistent` is not inductive alone either: a
stale instance is saved, so every instance a session holds must itself be
consistent, and its argument must fit its operation (`RequestsOK`). Given
`IInv`, each action property follows from the checks on reloaded rows, which are
the committed ones.

Two results there have a premise on the requests in use, and a run that shows it is needed.
* `ClosedOnce`: `AutoClosedOnce` holds if no client issues a request in `Unlogged` (assignment,
  comment, update: they save the loaded ticket and record no status). Then the newest entry of the
  history names the status of the row (`StatusOnRecord`), and an automatic closure of a resolved
  ticket cannot follow one. `TicketStaleComment.cfg` shows what a comment does.
* `DeadlocksNeedTransitions`: `NoDeadlock` holds without work-order transitions, and with them if
  nobody cancels, assigns or completes again. The plans in use then lock the rows in one order, so
  the holder of a row waits only for a later one (`HolderWaitsFurther`), and no set of sessions
  can wait for itself. `TicketDeadlock.cfg` shows a transition meet a cancellation.

`TicketContract_proofs` proves `RequestsImplementContract`, with no premise: every step is a step of
`TicketContract` or leaves what it shows alone. A commit on a reloaded row is a decision on the
committed one because of `LockedViewIsCurrent`; whether the period of a resolution is over follows
the status because of `TicketRowConsistent`. It needs two facts besides `IInv`: requests under way are
the clients' (`RequestsServed`, for what counts as a plain save), and a request that saves
a work order has loaded one, which is never removed (`LinkedServed`).

`AIAnalysis_proofs` proves for any number of analyses, clients, workers, crashes
and redeliveries
* `PipelineInvariant`: types, `JobsStarted` (a worker answers only for a row taken into
  processing) and `CreationsDisjoint` (a transaction creates a row of its own);
* `PipelineImplementsContract`: every step is a step of `AnalysisContract` or
  leaves it alone. `JobsStarted` is what excludes a late answer for a row the
  contract does not know yet;
* `RetriesCarryTheAnalysis`: if `MaxAttempts <= MaxRetries + 1`, a row in progress
  has a message or a worker unless one was dropped. The strengthening includes
  rows still uncommitted, and that a retry is only asked for below the bound.
  `AnalysisRetriesExhausted.cfg` shows that the hypothesis is needed.

`QueryCache_proofs` proves its type invariant and all its safety properties, for any
plans and any number of changes. `OwnChangeShown` speaks of a screen at rest;
`FreshOnceReached` says the same of every moment after an invalidation has reached the
query: data older than the user's change is marked stale, and an answer on its way is
not older. It is proved from the premise `AllReached` (every plan reaches the query with some
set of keys), and `ShownOnlyGoesForward` from `PutsReachFirst` too (a put
answer is invalidated with the first set): without the second, an answer of a
fetch begun before may replace a newer one that was put. The plans of the client fulfil
both; the run checks the same properties on those plans, and a table in which one of the
two is missing makes it fail (the mutants of the two properties are such tables).

`ClientSession_proofs` proves for any users, addresses and number of requests that the
permissions held are of the user, that the cache is of the user, and that a change of one's own
roles is known once its answer is in. The strengthening says that requests in flight
carry the token of now (`AsksOfToken`), which holds because a token only changes
while nobody is signed in (`Who`), and that a request answered before a change of roles was
applied is known by the change's own answer being still to come (`OldAsksOfSave`). Types
need that the requests in flight stay within their bounds and that the address is a page
(`Bounded`): every link a page shows, every redirection and every typed address is one.
`ReadsAreGranted`, `OffersAreGranted` and `LinksOpen` join two halves. That a page is shown
only to a role its guard lets in, with the gates of the user whose token is sent or
of a role that has none (`ShownByGates`), is the result of the sessions and is proved. That with such
gates the page asks, offers and links to what is granted compares two tables, entry by entry:
`GatesAgree`, assumed by `ClientAgreement` and evaluated by TLC for every page and role. The
provers see no tables (built from `:>` and `@@`), and TLC no unbounded sessions.

`TicketIntake_proofs` proves for any concerns, photos and classes, and any
number of submissions, that a concern becomes more tickets only for a counted
reason, that photos shown as uploaded are on the ticket the form leads to, and that
who is told of an analysis, or of its failure, is told what is so. The strengthening says when a
submission has no ticket yet (`Counted`), which ticket it has (`Placed`), that one
photo is uploaded at a time and what the server took is attached (`OneAtATime`), that the
requester's guard holds from the submission to the new page (`RequesterGuarded`), and that
a ticket has no analysis before its form asks for one (`AnalysesOfTickets`).

`TicketReview_proofs` goes on from there with `ReviewInv`, for the rest of the types and for what
happens after the submission.
* `PhotosAreAccounted`: where each photo of the ticket is at every stage of a requester's concern
  (`PhotosAccounted`); at rest this is the property, before that the photo may also be waiting in its
  batch, or uploaded with the batch not yet tried. A batch that was started with no analysis being asked
  for finds none when it ends, and leaves nothing to the next (`Batch`); without that its follow-up
  could overwrite another. An analysis asked for from the page is created then, because nothing
  takes its place (`Room`).
* `DecisionsStand`: what a panel has shown is decided on record, for good (`Decided`), is not
  shown undecided again, on either page (`Panel`), and so no decision is sent for it (`Sending`).
* `FormFilledAsRecorded`: a decision carried out is on record until its answer is in (`Sending`),
  or another reviewer, or a second decision of the same one, has taken its place; two under way
  on one analysis are known to have crossed (`Crossing`), so only what the property names takes it.

Assumptions on constants: no session is `NoSession`, requests are known
operations, `None` is neither an analysis nor a result, `MaxAttempts` is between
1 and 10 (what the administration service accepts), a plan has at least one set of keys,
users are roles, typed addresses are pages, the gates of the client and the server agree
(`GatesAgree`), the pages the client sends its user to exist, concerns have photos at hand, the recommended class is
one of the classes, bounds are natural numbers.

Proved are all safety invariants and action properties of the passing runs, and both refinements.
Only model-checked: the liveness properties (`RequestsAreAnswered`, `AnalysesSettle`,
`ChangeResolves`, `ScreenSettles`, `SessionSettles`, `PermissionsSettle`, `SubmitSettles`,
`AnalysisShown`), out of the prover's reach; `GatesAgree` and the pages
of `PagesAssumption`, closed formulas.

## 5. Not modelled

On the server: tenancy and validation of content decide who may issue a request,
not what requests do to each other; permissions are in the tables of the client as
gates. Dashboards, reports and the AI statistics only read. Providers are an external
call that answers, fails or times out. The services of projects, master data, inspections,
accounts, attachments and notifications are represented by their gates and kinds of records only;
their races are listed under `hazards` without a property, and planned.

In the client: wording, layout, validation of forms, filters and sorting, the geometry of the
Gantt chart, landing pages. The tables have one record of each kind, so that
gates which depend on who owns a record (a requester's own tickets, an assignee's task)
are those of the role. `ClientSession` has one tab: tokens shared by tabs, and the answer of
a mutation that arrives after the sign-out and is put in the emptied cache,
are listed as a hazard. In `TicketIntake` the requester stays on the page while a batch is
uploaded, a request that failed is not carried out later, and the edit form is reached by links and by
decisions, not by the browser's history; saving the form is an update of the ticket like any other.

## 6. Plan

In order, most important first; all modules parameterised by their sets, without
recursive operators where a proof is intended.

1. `TicketWorkOrder`, `TicketContract` - done, and proved but for liveness.
2. `AIAnalysis`, `AnalysisContract` - done, and proved but for liveness.
3. The client's tables, `QueryCache`, `ClientSession`, `TicketIntake` - done, and proved but for
   liveness. Left to model: late answers of mutations after a sign-out. Left to prove: an abstract
   contract of the intake (concern, ticket, analysed photos, decision) that both forms implement.
4. `WorkOrderAssignment`: assignment rows, two reassignments at once, a repeated
   completion on a reopened row (an unsavable row), and the transition table
   under stale instances. Properties: one active assignment where the code
   locks, and the divergence where it does not.
5. `SlaEscalation`: SLA recalculation, first response, the beat task against
   acknowledge and resolve. Properties: the first response is kept, one active
   escalation per type, a resolved escalation stays resolved.
6. `AutoClosureBatch`: several tickets, the limit, tickets that fail. Liveness:
   an eligible ticket is closed unless it fails itself or the limit is taken up.
7. `ProjectTasks`: dependencies, readiness gate, progress roll-up and completion.
   Properties: acyclic when additions are serial; totals follow the tasks.
   Theorem: the reachability check keeps the graph acyclic.
8. `MasterDataLifecycle`: delete and restore over two levels with their locks.
   Theorem: no live child under a deleted parent between delete and restore.
9. `NumberAllocation`, the services of inspections, role assignment, attachments.

Runs of 4 to 8 stay at two sessions and two or three rows. Theorems planned:
type and row invariants of 4 and 5, the batch as an implementation of repeated
`AutoClose`, acyclicity in 7, hierarchy in 8.
