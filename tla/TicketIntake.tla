---------------------------- MODULE TicketIntake ----------------------------
(***************************************************************************)
(* A concern from the form to the reviewed recommendation, as the client   *)
(* drives it: the form creates a ticket, uploads the staged photos to it   *)
(* one after the other and asks for their analysis; on the page of the     *)
(* request more photos are uploaded and queued, batch after batch; the     *)
(* panel on the ticket's page and on its edit form polls the analysis, and *)
(* a reviewer accepts, modifies or ignores what it recommends and goes     *)
(* from one to the other meanwhile. Requesters and staff have each a form  *)
(* of their own. Every request may be refused, or carried out and its      *)
(* answer lost.                                                            *)
(*                                                                         *)
(* A pair of category and priority is a class; a photo is a file.          *)
(***************************************************************************)
EXTENDS Naturals, Sequences, FiniteSets

CONSTANTS Photos,       \* the files at hand
          Concerns,     \* what is looked at: whose form ("requester", "staff"), the files at
                        \* hand, the pages on which a reviewer looks at the ticket
                        \* meanwhile, how many decisions of theirs may be under way at
                        \* once, and whether the start is the form or the ticket's page
          Classes,      \* the pairs of category and priority
          Recommended,  \* the one the analysis recommends
          MaxTickets,   \* bound: tickets created from one concern
          MaxAnalyses,  \* bound: analyses of a ticket
          MaxSent       \* bound: decisions of the reviewer under way at once

NoPhoto == "no photo"
NoClass == "no class"

ASSUME ConcernsAssumption ==
    Concerns \subseteq [form : {"requester", "staff"}, photos : SUBSET Photos,
                  reviewed : SUBSET {"ticket", "form"}, decisions : 0 .. MaxSent,
                  start : {"filling", "page"}]
ASSUME NamesAssumption == NoPhoto \notin Photos /\ NoClass \notin Classes
ASSUME RecommendedAssumption == Recommended \in Classes
ASSUME BoundsAssumption ==
    MaxTickets \in Nat \ {0} /\ MaxAnalyses \in Nat \ {0} /\ MaxSent \in Nat \ {0}

VARIABLES
    concern,    \* the one looked at
    stage,      \* where the person is: the form, a step of its submission, the new ticket's page
    guard,      \* the requester's form is being, or has been, submitted
    photo,      \* the state of each photo in the form
    targets,    \* the photos this submission has still to upload
    uploaded,   \* those it has uploaded
    call,       \* the request of this step: "none", "sent", "done" (on the server) or "failed"
    current,    \* the ticket of this submission, 0 for none
    told,       \* what the person has been told of the submission
    late,       \* the photo being uploaded on the request's page
    lateCall,   \* the request that uploads it
    batch,      \* the photos of its batch that have still to be tried
    uploadedIds,    \* those that are uploaded
    wasQueueingAi,  \* an analysis was being asked for when the batch was started
    requeue,    \* the request for the analysis of a batch
    tickets,    \* how many tickets there are of this concern
    attached,   \* the photos attached to each
    analyses,   \* the analyses of each, oldest first
    at,         \* where the reviewer is: the ticket's page, its edit form or elsewhere
    seen,       \* the analysis the reviewer's panels show, as the client has loaded it last
    choice,     \* the class in the panel's selection
    sent,       \* the reviewer's decisions under way
    filled,     \* the class put in the edit form
    applied,    \* it was put there by the panel of the form itself
    excused,    \* why there may be more tickets than one
    accounted,  \* photos the requester was told are not, or not yet, analysed
    skipped,    \* photos of a batch that was started while an analysis was being asked for
    shown,      \* analyses a panel has shown as decided
    crossed     \* analyses two decisions of the reviewer on which were under way at once

submission == <<concern, stage, guard, photo, targets, uploaded, call, current, told>>
uploader == <<late, lateCall, batch, uploadedIds, wasQueueingAi>>
followUp == <<uploader, requeue>>
server == <<tickets, attached, analyses>>
review == <<at, seen, choice, sent, filled, applied>>
history == <<excused, accounted, skipped, shown, crossed>>
vars == <<submission, followUp, server, review, history>>

form == concern.form

Tickets == 1 .. MaxTickets
Slots == 1 .. MaxSent
PhotoStatuses == {"absent", "rejected", "queued", "uploading", "success", "error"}
Calls == {"none", "sent", "done", "failed"}
Decisions == {"accepted", "modified", "ignored"}
Analysis == [status : {"queued", "processing", "completed", "failed"}, photos : SUBSET Photos,
             decision : Decisions \cup {"none"}, final : Classes \cup {NoClass},
             chosen : Classes \cup {NoClass}, by : {"nobody", "reviewer", "another"}]

\* What a panel shows: nothing, or the analysis the client has loaded.
Nothing == [n |-> 0, status |-> "nothing", decided |-> FALSE]
Views == [n : 0 .. MaxAnalyses, decided : BOOLEAN,
          status : {"nothing", "queued", "processing", "completed", "failed"}]

Idle == [phase |-> "none", photos |-> {}]

\* A decision of the reviewer: on which analysis, sent from which page, whether by the panel that
\* is mounted now, and the analyses that had been shown as decided by then.
Sent == [phase : {"none", "sent", "done"}, n : 0 .. MaxAnalyses, decision : Decisions \cup {"none"},
         final : Classes \cup {NoClass}, chosen : Classes \cup {NoClass},
         known : SUBSET (1 .. MaxAnalyses), from : {"ticket", "form"}, mine : BOOLEAN]
NotSent == [phase |-> "none", n |-> 0, decision |-> "none", final |-> NoClass, chosen |-> NoClass,
            known |-> {}, from |-> "ticket", mine |-> FALSE]

TypeOK ==
    /\ concern \in Concerns /\ guard \in BOOLEAN
    /\ stage \in {"filling", "creating", "uploading", "queueing", "leaving", "page"}
    /\ photo \in [Photos -> PhotoStatuses]
    /\ targets \subseteq Photos /\ uploaded \subseteq Photos /\ call \in Calls
    /\ current \in 0 .. MaxTickets
    /\ told \in {"nothing", "rejected photos", "not created", "not requested", "partial upload",
                 "queued", "unavailable"}
    /\ late \in Photos \cup {NoPhoto} /\ lateCall \in Calls /\ batch \subseteq Photos
    /\ uploadedIds \subseteq Photos /\ wasQueueingAi \in BOOLEAN
    /\ requeue \in [phase : {"none", "reading", "sent", "done", "failed"}, photos : SUBSET Photos]
    /\ tickets \in 0 .. MaxTickets
    /\ attached \in [Tickets -> SUBSET Photos]
    /\ \A t \in Tickets : analyses[t] \in Seq(Analysis) /\ Len(analyses[t]) <= MaxAnalyses
    /\ at \in {"elsewhere", "ticket", "form"} /\ seen \in Views /\ choice \in Classes
    /\ sent \in [Slots -> Sent] /\ filled \in Classes \cup {NoClass} /\ applied \in BOOLEAN
    /\ excused \in Nat /\ accounted \subseteq Photos /\ skipped \subseteq Photos
    /\ shown \subseteq 1 .. MaxAnalyses /\ crossed \subseteq 1 .. MaxAnalyses

Active(list) == list # << >> /\ list[Len(list)].status \in {"queued", "processing"}

\* An analysis that is active is reused; otherwise one is created.
queue_ticket_image_analysis(list, photos) ==
    IF Active(list) THEN list
    ELSE Append(list, [status |-> "queued", photos |-> photos, decision |-> "none",
                       final |-> NoClass, chosen |-> NoClass, by |-> "nobody"])

\* The form is empty, or the submission has succeeded with all the files at hand.
Init ==
    /\ concern \in Concerns /\ stage = concern.start /\ guard = FALSE
    /\ photo = [p \in Photos |-> "absent"] /\ targets = {} /\ uploaded = {} /\ call = "none"
    /\ \/ /\ stage = "filling" /\ current = 0 /\ told = "nothing"
          /\ attached = [t \in Tickets |-> {}] /\ analyses = [t \in Tickets |-> << >>]
       \/ /\ stage = "page" /\ current = 1 /\ told = "queued"
          /\ attached = [t \in Tickets |-> IF t = 1 THEN concern.photos ELSE {}]
          /\ analyses = [t \in Tickets |->
                 IF t = 1 THEN queue_ticket_image_analysis(<< >>, concern.photos) ELSE << >>]
    /\ late = NoPhoto /\ lateCall = "none" /\ batch = {} /\ uploadedIds = {}
    /\ wasQueueingAi = FALSE /\ requeue = Idle
    /\ tickets = current
    /\ at = "elsewhere" /\ seen = Nothing /\ choice = Recommended
    /\ sent = [i \in Slots |-> NotSent] /\ filled = NoClass /\ applied = FALSE
    /\ excused = 0 /\ accounted = {} /\ skipped = {} /\ shown = {} /\ crossed = {}

---------------------------------------------------------------------------
\* The form. It can be edited whenever it is not being submitted, also while the page changes.

Editable == stage \in {"filling", "leaving"}

getUploadableFiles == {p \in Photos : photo[p] \in {"queued", "error"}}
hasRejected == \E p \in Photos : photo[p] = "rejected"

handleFiles(p) ==
    /\ Editable /\ photo[p] = "absent"
    /\ \E s \in {"queued", "rejected"} : photo' = [photo EXCEPT ![p] = s]
    /\ UNCHANGED <<concern, stage, guard, targets, uploaded, call, current, told>>
    /\ UNCHANGED <<followUp, server, review, history>>

removeQueuedAttachment(p) ==
    /\ Editable /\ photo[p] \in {"rejected", "queued", "error"}
    /\ photo' = [photo EXCEPT ![p] = "absent"]
    /\ UNCHANGED <<concern, stage, guard, targets, uploaded, call, current, told>>
    /\ UNCHANGED <<followUp, server, review, history>>

\* Submitting: the requester's form has a guard that lasts until the submission fails, the
\* staff's form only its state of being submitted. Rejected photos are sent back.
Submit ==
    /\ Editable /\ ~guard
    /\ IF hasRejected
       THEN told' = "rejected photos" /\ UNCHANGED <<stage, guard, call, uploaded, excused>>
       ELSE /\ tickets < MaxTickets
            /\ stage' = "creating" /\ guard' = (form = "requester") /\ call' = "sent"
            /\ uploaded' = {} /\ told' = "nothing"
            /\ excused' = excused + IF stage = "leaving" THEN 1 ELSE 0
    /\ UNCHANGED <<concern, photo, targets, current>>
    /\ UNCHANGED <<followUp, server, review, accounted, skipped, shown, crossed>>

\* The submission has ended and the router replaces the page.
Leave(outcome) == stage' = "leaving" /\ call' = "none" /\ told' = outcome /\ guard' = guard

\* The submission has failed and the form is shown again.
BackToForm ==
    /\ stage' = "filling" /\ call' = "none" /\ told' = "not created" /\ guard' = FALSE

CreateAnswered ==
    /\ stage = "creating" /\ call = "done"
    /\ current' = tickets /\ targets' = getUploadableFiles
    /\ IF getUploadableFiles = {}
       THEN Leave("not requested")
       ELSE stage' = "uploading" /\ call' = "none" /\ UNCHANGED <<guard, told>>
    /\ UNCHANGED <<concern, photo, uploaded>>
    /\ UNCHANGED <<followUp, server, review, history>>

CreateFailed ==
    /\ stage = "creating" /\ call = "failed"
    /\ BackToForm
    /\ UNCHANGED <<concern, photo, targets, uploaded, current>>
    /\ UNCHANGED <<followUp, server, review, history>>

\* The photos are uploaded one after the other; one that fails does not stop the others.
Uploading(p) == photo[p] = "uploading"

UploadNext(p) ==
    /\ stage = "uploading" /\ call = "none" /\ p \in targets
    /\ photo' = [photo EXCEPT ![p] = "uploading"] /\ call' = "sent"
    /\ UNCHANGED <<concern, stage, guard, targets, uploaded, current, told>>
    /\ UNCHANGED <<followUp, server, review, history>>

\* Wrong: a photo that fails is shown as uploaded.
UploadAnsweredUnchecked(p) ==
    /\ stage = "uploading" /\ call \in {"done", "failed"} /\ Uploading(p)
    /\ photo' = [photo EXCEPT ![p] = "success"]
    /\ uploaded' = IF call = "done" THEN uploaded \cup {p} ELSE uploaded
    /\ targets' = targets \ {p} /\ call' = "none"
    /\ UNCHANGED <<concern, stage, guard, current, told>>
    /\ UNCHANGED <<followUp, server, review, history>>

\* Wrong: a photo that fails is tried again at once.
UploadAnsweredRetrying(p) ==
    /\ stage = "uploading" /\ call \in {"done", "failed"} /\ Uploading(p)
    /\ IF call = "done"
       THEN /\ photo' = [photo EXCEPT ![p] = "success"] /\ uploaded' = uploaded \cup {p}
            /\ targets' = targets \ {p}
       ELSE photo' = [photo EXCEPT ![p] = "error"] /\ UNCHANGED <<uploaded, targets>>
    /\ call' = "none"
    /\ UNCHANGED <<concern, stage, guard, current, told>>
    /\ UNCHANGED <<followUp, server, review, history>>

UploadAnswered(p) ==
    /\ stage = "uploading" /\ call \in {"done", "failed"} /\ Uploading(p)
    /\ IF call = "done"
       THEN /\ photo' = [photo EXCEPT ![p] = "success"] /\ uploaded' = uploaded \cup {p}
            /\ UNCHANGED accounted
       ELSE /\ photo' = [photo EXCEPT ![p] = "error"] /\ UNCHANGED uploaded
            /\ accounted' = accounted \cup {p}
    /\ targets' = targets \ {p} /\ call' = "none"
    /\ UNCHANGED <<concern, stage, guard, current, told>>
    /\ UNCHANGED <<followUp, server, review, excused, skipped, shown, crossed>>

\* All photos have been tried: those that are uploaded are to be analysed.
UploadsTried ==
    /\ stage = "uploading" /\ call = "none" /\ targets = {}
    /\ IF uploaded # {}
       THEN stage' = "queueing" /\ call' = "sent" /\ UNCHANGED <<guard, told>>
       ELSE Leave(IF form = "requester" THEN "partial upload" ELSE "not requested")
    /\ UNCHANGED <<concern, photo, targets, uploaded, current>>
    /\ UNCHANGED <<followUp, server, review, history>>

QueueAnswered ==
    /\ stage = "queueing" /\ call = "done"
    /\ Leave("queued")
    /\ UNCHANGED <<concern, photo, targets, uploaded, current>>
    /\ UNCHANGED <<followUp, server, review, history>>

\* Wrong: the requester's form does as the staff's.
QueueFailedLikeStaff ==
    /\ stage = "queueing" /\ call = "failed"
    /\ accounted' = accounted \cup uploaded
    /\ BackToForm
    /\ excused' = excused + IF form = "staff" THEN 1 ELSE 0
    /\ UNCHANGED <<concern, photo, targets, uploaded, current>>
    /\ UNCHANGED <<followUp, server, review, skipped, shown, crossed>>

\* Wrong: the outcome is "queued" once the request has been sent.
QueueFailedUnnoticed ==
    /\ stage = "queueing" /\ call = "failed"
    /\ accounted' = accounted \cup uploaded
    /\ Leave("queued")
    /\ UNCHANGED <<concern, photo, targets, uploaded, current>>
    /\ UNCHANGED <<followUp, server, review, excused, skipped, shown, crossed>>

\* The requester's form goes on without an analysis; the staff's reports that the ticket could
\* not be created, though it was.
QueueFailed ==
    /\ stage = "queueing" /\ call = "failed"
    /\ accounted' = accounted \cup uploaded
    /\ IF form = "requester"
       THEN Leave("unavailable") /\ UNCHANGED excused
       ELSE BackToForm /\ excused' = excused + 1
    /\ UNCHANGED <<concern, photo, targets, uploaded, current>>
    /\ UNCHANGED <<followUp, server, review, skipped, shown, crossed>>

\* The page of the ticket is shown, and the form with its photos is gone.
Arrive ==
    /\ stage = "leaving"
    /\ stage' = "page" /\ photo' = [p \in Photos |-> "absent"]
    /\ targets' = {} /\ uploaded' = {} /\ guard' = FALSE
    /\ UNCHANGED <<concern, call, current, told>>
    /\ UNCHANGED <<followUp, server, review, history>>

---------------------------------------------------------------------------
\* The server's part of the form's requests.

\* The server carries the request of this step out.
Serve ==
    /\ call = "sent" /\ call' = "done"
    /\ \/ stage = "creating" /\ tickets' = tickets + 1 /\ UNCHANGED <<attached, analyses>>
       \/ /\ stage = "uploading"
          /\ attached' = [attached EXCEPT ![current] = @ \cup {p \in Photos : Uploading(p)}]
          /\ UNCHANGED <<tickets, analyses>>
       \/ /\ stage = "queueing"
          /\ analyses' = [analyses EXCEPT ![current] = queue_ticket_image_analysis(@, uploaded)]
          /\ UNCHANGED <<tickets, attached>>
    /\ UNCHANGED <<concern, stage, guard, photo, targets, uploaded, current, told>>
    /\ UNCHANGED <<followUp, review, history>>

\* The request is refused, or its answer is lost.
Fail ==
    /\ call \in {"sent", "done"} /\ call' = "failed"
    /\ excused' = excused + IF stage = "creating" /\ call = "done" THEN 1 ELSE 0
    /\ UNCHANGED <<concern, stage, guard, photo, targets, uploaded, current, told>>
    /\ UNCHANGED <<followUp, server, review, accounted, skipped, shown, crossed>>

---------------------------------------------------------------------------
\* The page of the request: a batch of photos is uploaded, one after the other, and those that
\* are uploaded are to be analysed together.

\* The upload of one photo of those to be uploaded begins.
uploadOne(p, files) == late' = p /\ lateCall' = "sent" /\ batch' = files \ {p}

\* The files in the uploader's queue, or one that failed and is tried again. The uploader keeps
\* the callback of the rendering it was started in, and with it whether an analysis was being
\* asked for.
uploadQueued(files) ==
    /\ stage = "page" /\ form = "requester" /\ late = NoPhoto
    /\ \E p \in files : uploadOne(p, files)
    /\ wasQueueingAi' = (requeue.phase # "none")
    /\ accounted' = accounted \ files /\ skipped' = skipped \ files
    /\ UNCHANGED <<submission, uploadedIds, requeue, server, review, excused, shown, crossed>>

ServeLate ==
    /\ lateCall = "sent" /\ lateCall' = "done"
    /\ attached' = [attached EXCEPT ![current] = @ \cup {late}]
    /\ UNCHANGED <<submission, batch, late, uploadedIds, wasQueueingAi, requeue>>
    /\ UNCHANGED <<tickets, analyses, review, history>>

FailLate ==
    /\ lateCall \in {"sent", "done"} /\ lateCall' = "failed"
    /\ UNCHANGED <<submission, batch, late, uploadedIds, wasQueueingAi, requeue>>
    /\ UNCHANGED <<server, review, history>>

\* The analysis of the photos of a batch that are uploaded is asked for once, but not, and
\* nothing is said, when one was being asked for as the batch was started.
onUploaded(ids) ==
    IF wasQueueingAi \/ ids = {}
    THEN skipped' = skipped \cup ids /\ UNCHANGED requeue
    ELSE requeue' = [phase |-> "reading", photos |-> ids] /\ UNCHANGED skipped

\* The next photo follows, or the batch has been tried, and ids of it are uploaded.
Tried(ids) ==
    IF batch # {}
    THEN /\ \E p \in batch : uploadOne(p, batch)
         /\ uploadedIds' = ids /\ UNCHANGED <<wasQueueingAi, requeue, skipped>>
    ELSE /\ late' = NoPhoto /\ lateCall' = "none" /\ uploadedIds' = {} /\ wasQueueingAi' = FALSE
         /\ onUploaded(ids) /\ UNCHANGED batch

\* Wrong: the answer is taken again.
LateAnsweredAgain ==
    /\ lateCall = "done"
    /\ uploadedIds' = uploadedIds \cup {late} /\ late' = NoPhoto
    /\ UNCHANGED <<submission, batch, lateCall, wasQueueingAi, requeue, server, review, history>>

LateAnswered ==
    /\ lateCall = "done" /\ Tried(uploadedIds \cup {late})
    /\ UNCHANGED <<submission, server, review, excused, accounted, shown, crossed>>

\* A photo that fails is shown as failed, and does not stop the others.
LateFailed ==
    /\ lateCall = "failed" /\ Tried(uploadedIds) /\ accounted' = accounted \cup {late}
    /\ UNCHANGED <<submission, server, review, excused, shown, crossed>>

\* Wrong: the analyses are not read first.
ReadNothing ==
    /\ requeue.phase = "reading"
    /\ Len(analyses[current]) < MaxAnalyses /\ requeue' = [requeue EXCEPT !.phase = "sent"]
    /\ UNCHANGED <<submission, uploader, server, review, history>>

\* queueAiForUploadedImages reads the analyses first: when one is active the requester is told
\* so and nothing is queued.
ReadAnalyses ==
    /\ requeue.phase = "reading"
    /\ \/ /\ Active(analyses[current])
          /\ accounted' = accounted \cup requeue.photos /\ requeue' = Idle
       \/ /\ ~Active(analyses[current]) /\ Len(analyses[current]) < MaxAnalyses
          /\ requeue' = [requeue EXCEPT !.phase = "sent"] /\ UNCHANGED accounted
       \/ requeue' = [requeue EXCEPT !.phase = "failed"] /\ UNCHANGED accounted
    /\ UNCHANGED <<submission, uploader, server, review, excused, skipped, shown, crossed>>

ServeRequeue ==
    /\ requeue.phase = "sent" /\ requeue' = [requeue EXCEPT !.phase = "done"]
    /\ analyses' = [analyses EXCEPT ![current] = queue_ticket_image_analysis(@, requeue.photos)]
    /\ UNCHANGED <<submission, uploader, tickets, attached, review, history>>

FailRequeue ==
    /\ requeue.phase \in {"sent", "done"} /\ requeue' = [requeue EXCEPT !.phase = "failed"]
    /\ UNCHANGED <<submission, uploader, server, review, history>>

\* The requester is told that the photos are queued, or could not be.
RequeueAnswered ==
    /\ requeue.phase \in {"done", "failed"} /\ requeue' = Idle
    /\ accounted' = IF requeue.phase = "failed" THEN accounted \cup requeue.photos ELSE accounted
    /\ UNCHANGED <<submission, uploader, server, review, excused, skipped, shown, crossed>>

---------------------------------------------------------------------------
\* The analysis runs on the server, see the module AIAnalysis.

Latest(t) == analyses[t][Len(analyses[t])]

Work ==
    /\ current # 0 /\ Active(analyses[current])
    /\ \E s \in IF Latest(current).status = "queued" THEN {"processing", "failed"}
                ELSE {"completed", "failed"} :
           analyses' = [analyses EXCEPT ![current][Len(analyses[current])].status = s]
    /\ UNCHANGED <<submission, followUp, tickets, attached, review, history>>

---------------------------------------------------------------------------
\* The panel of the analysis on the ticket's page and on its edit form.

View(t) ==
    IF analyses[t] = << >> THEN Nothing
    ELSE [n |-> Len(analyses[t]), status |-> Latest(t).status,
          decided |-> Latest(t).decision # "none"]

Show(view) ==
    /\ seen' = view
    /\ shown' = IF view.decided THEN shown \cup {view.n} ELSE shown

\* A panel is mounted. It loads the analyses, or shows what the client has of them from before;
\* when it has nothing, and nothing can be loaded, it shows nothing.
OpenPanel(page) ==
    /\ stage = "page" /\ at = "elsewhere"
    /\ at' = page /\ choice' = Recommended
    /\ \E view \in {View(current), seen, Nothing} : Show(view)
    /\ UNCHANGED <<submission, followUp, server, sent, filled, applied>>
    /\ UNCHANGED <<excused, accounted, skipped, crossed>>

\* The reviewer goes elsewhere. The decisions under way go on, without a panel that waits for
\* them.
ClosePanel ==
    /\ at # "elsewhere" /\ at' = "elsewhere" /\ filled' = NoClass /\ applied' = FALSE
    /\ sent' = [i \in Slots |-> [sent[i] EXCEPT !.mine = FALSE]]
    /\ UNCHANGED <<submission, followUp, server, seen, choice, history>>

Polling == at # "elsewhere" /\ seen.status \in {"queued", "processing"}

\* Wrong: only while it is queued.
PollQueued ==
    /\ Polling /\ seen.status = "queued" /\ Show(View(current)) /\ seen' # seen
    /\ UNCHANGED <<submission, followUp, server, at, choice, sent, filled, applied>>
    /\ UNCHANGED <<excused, accounted, skipped, crossed>>

\* Every five seconds while the analysis it shows is active.
Poll ==
    /\ Polling /\ Show(View(current)) /\ seen' # seen
    /\ UNCHANGED <<submission, followUp, server, at, choice, sent, filled, applied>>
    /\ UNCHANGED <<excused, accounted, skipped, crossed>>

\* What is shown is loaded again because it is old or has been invalidated.
Reload ==
    /\ at # "elsewhere" /\ ~Polling /\ Show(View(current)) /\ seen' # seen
    /\ UNCHANGED <<submission, followUp, server, at, choice, sent, filled, applied>>
    /\ UNCHANGED <<excused, accounted, skipped, crossed>>

\* The mounted panel has a decision under way; one sent by a panel that is gone does not count.
isPending == \E i \in Slots : sent[i].mine

\* Wrong: also when there is a decision.
showReviewActionsAlways == at # "elsewhere" /\ seen.status = "completed" /\ ~isPending

showReviewActions ==
    at # "elsewhere" /\ seen.status = "completed" /\ ~seen.decided /\ ~isPending

\* What the selection becomes when the reviewer picks c: the panel sets it back to what is
\* recommended after every rendering, because the recommendation it depends on is a new object
\* each time.
Picked(c) == Recommended

UnderWay(i) == sent[i].phase # "none"

\* The decision on the analysis shown, with the class of the selection for a modification.
Decision(decision, class, c) ==
    [phase |-> "sent", n |-> seen.n, decision |-> decision,
     final |-> CASE decision = "accepted" -> Recommended
                 [] decision = "modified" -> class
                 [] decision = "ignored" -> NoClass,
     chosen |-> IF decision = "modified" THEN c ELSE NoClass,
     known |-> shown, from |-> at, mine |-> TRUE]

\* Wrong: the edit form is filled when the decision is sent.
DecideFilling(i, decision, c) ==
    /\ showReviewActions
    /\ i <= concern.decisions /\ ~UnderWay(i) /\ \A j \in Slots : j < i => UnderWay(j)
    /\ choice' = IF decision = "modified" /\ c # choice THEN Picked(c) ELSE choice
    /\ sent' = [sent EXCEPT ![i] = Decision(decision, choice', c)]
    /\ crossed' = IF \E j \in Slots : UnderWay(j) /\ sent[j].n = seen.n
                  THEN crossed \cup {seen.n} ELSE crossed
    /\ filled' = IF at = "form" /\ decision # "ignored" THEN sent'[i].final ELSE filled
    /\ UNCHANGED <<submission, followUp, server, at, seen, applied>>
    /\ UNCHANGED <<excused, accounted, skipped, shown>>

\* The reviewer decides, after at most one pick for a modification.
Decide(i, decision, c) ==
    /\ showReviewActions
    /\ i <= concern.decisions /\ ~UnderWay(i) /\ \A j \in Slots : j < i => UnderWay(j)
    /\ choice' = IF decision = "modified" /\ c # choice THEN Picked(c) ELSE choice
    /\ sent' = [sent EXCEPT ![i] = Decision(decision, choice', c)]
    /\ crossed' = IF \E j \in Slots : UnderWay(j) /\ sent[j].n = seen.n
                  THEN crossed \cup {seen.n} ELSE crossed
    /\ UNCHANGED <<submission, followUp, server, at, seen, filled, applied>>
    /\ UNCHANGED <<excused, accounted, skipped, shown>>

\* A decision is recorded on a completed analysis, in the place of any other one.
record_recommendation_decision(n, decision, final, chosen, by) ==
    /\ analyses[current][n].status = "completed"
    /\ analyses' = [analyses EXCEPT ![current][n] =
           [@ EXCEPT !.decision = decision, !.final = final, !.chosen = chosen, !.by = by]]

ServeDecision(i) ==
    /\ sent[i].phase = "sent" /\ sent' = [sent EXCEPT ![i].phase = "done"]
    /\ record_recommendation_decision(sent[i].n, sent[i].decision, sent[i].final,
                                      sent[i].chosen, "reviewer")
    /\ UNCHANGED <<submission, followUp, tickets, attached>>
    /\ UNCHANGED <<at, seen, choice, filled, applied, history>>

\* The ticket's page has the router open the edit form with the class in its address, wherever
\* the reviewer is by then. An edit form that is open takes the class from there, unless its own
\* panel has put one in.
OpenFilled(i) ==
    /\ sent[i].from = "ticket" /\ at' = "form"
    /\ filled' = IF applied THEN filled ELSE sent[i].final
    /\ choice' = IF at = "form" THEN choice ELSE Recommended
    /\ sent' = [j \in Slots |-> IF j = i THEN NotSent
                                ELSE [sent[j] EXCEPT !.mine = @ /\ at = "form"]]
    /\ UNCHANGED applied

\* The edit form is filled, if it is still the one the decision was sent from.
FillForm(i) ==
    /\ sent[i].from = "form"
    /\ IF sent[i].mine
       THEN filled' = sent[i].final /\ applied' = TRUE
       ELSE UNCHANGED <<filled, applied>>
    /\ sent' = [sent EXCEPT ![i] = NotSent]
    /\ UNCHANGED <<at, choice>>

\* The panel that is mounted loads the analyses again, or fails to, and then the form is filled,
\* unless the recommendation was ignored.
DecisionAnswered(i) ==
    /\ sent[i].phase = "done"
    /\ \/ at # "elsewhere" /\ Show(View(current))
       \/ UNCHANGED <<seen, shown>>
    /\ IF sent[i].decision = "ignored"
       THEN sent' = [sent EXCEPT ![i] = NotSent] /\ UNCHANGED <<at, choice, filled, applied>>
       ELSE OpenFilled(i) \/ FillForm(i)
    /\ UNCHANGED <<submission, followUp, server, excused, accounted, skipped, crossed>>

DecisionFailed(i) ==
    /\ UnderWay(i) /\ sent' = [sent EXCEPT ![i] = NotSent]
    /\ UNCHANGED <<submission, followUp, server, at, seen, choice, filled, applied, history>>

\* Another reviewer decides.
DecidedByAnother(n, decision) ==
    /\ \A m \in DOMAIN analyses[current] : analyses[current][m].by # "another"
    /\ record_recommendation_decision(n, decision, IF decision = "accepted" THEN Recommended
                                                   ELSE NoClass, NoClass, "another")
    /\ UNCHANGED <<submission, followUp, tickets, attached, review, history>>

---------------------------------------------------------------------------

Intake ==
    \/ \E p \in concern.photos :
           handleFiles(p) \/ removeQueuedAttachment(p) \/ UploadNext(p) \/ UploadAnswered(p)
    \/ Submit \/ CreateAnswered \/ CreateFailed \/ UploadsTried
    \/ QueueAnswered \/ QueueFailed \/ Arrive \/ Serve \/ Fail

Page ==
    \/ \E files \in SUBSET concern.photos : uploadQueued(files)
    \/ ServeLate \/ FailLate \/ LateAnswered \/ LateFailed
    \/ ReadAnalyses \/ ServeRequeue \/ FailRequeue \/ RequeueAnswered

Review ==
    \/ (\E page \in concern.reviewed : OpenPanel(page)) \/ ClosePanel \/ Poll \/ Reload
    \/ \E i \in Slots :
           \/ \E d \in Decisions, c \in Classes :
                  (d = "modified" \/ c = Recommended) /\ Decide(i, d, c)
           \/ ServeDecision(i) \/ DecisionAnswered(i) \/ DecisionFailed(i)
    \/ /\ concern.reviewed # {} /\ current # 0
       /\ \E n \in DOMAIN analyses[current], d \in {"accepted", "ignored"} :
              DecidedByAnother(n, d)

Next == Intake \/ Page \/ Work \/ Review

\* A request is answered or fails, the code goes on when it has, and a panel that polls is
\* answered in the end.
Fairness ==
    /\ WF_vars(Serve \/ Fail) /\ WF_vars(CreateAnswered \/ CreateFailed)
    /\ WF_vars(\E p \in Photos : UploadNext(p)) /\ WF_vars(\E p \in Photos : UploadAnswered(p))
    /\ WF_vars(UploadsTried) /\ WF_vars(QueueAnswered \/ QueueFailed) /\ WF_vars(Arrive)
    /\ WF_vars(Poll)

Spec == Init /\ [][Next]_vars /\ Fairness

---------------------------------------------------------------------------
\* Properties.

\* There are more tickets than one of a concern only when the answer to a creation was lost, or,
\* from the staff's form, which has no guard, when the request for the analysis failed after the
\* ticket was created or the form was submitted again while the page changed.
OneTicketPerConcern == tickets <= 1 + excused

\* The photos the requester's form shows as uploaded are all on the ticket it leads to.
PhotosTogether ==
    form = "requester" => \A p \in Photos : photo[p] = "success" => p \in attached[current]

\* Who is told that an analysis is queued leaves for a ticket that has one, of every photo
\* uploaded; and the photos a requester is told cannot be analysed now are on the ticket.
ToldOfAnalysis ==
    stage = "leaving" =>
        /\ told = "queued" => /\ analyses[current] # << >>
                              /\ uploaded \subseteq analyses[current][1].photos
        /\ told = "unavailable" => uploaded # {} /\ uploaded \subseteq attached[current]

\* On the page of a request at rest, every photo of the ticket is in an analysis, or the requester
\* was told that it is not, or it is of a batch that was started while the analysis of another was
\* being asked for, which is dropped without a word.
PhotosAnalysedOrTold ==
    stage = "page" /\ form = "requester" /\ late = NoPhoto /\ requeue = Idle =>
        attached[current] \subseteq
            accounted \cup skipped
                \cup UNION {analyses[current][n].photos : n \in DOMAIN analyses[current]}

\* The reviewer's decision replaces another one only if it was sent before that one was shown.
ShownDecisionStands ==
    [][\A t \in Tickets : \A n \in DOMAIN analyses[t] :
           /\ analyses[t][n].decision # "none"
           /\ analyses'[t][n] # analyses[t][n]
           /\ analyses'[t][n].by = "reviewer"
           => \E i \in Slots : /\ sent'[i] # sent[i] /\ sent'[i].phase = "done"
                               /\ n = sent[i].n /\ n \notin sent[i].known]_<<analyses, sent>>

\* The edit form is filled when a decision that the server has recorded is answered, and with what
\* the record of that analysis says, unless another reviewer has decided meanwhile or the reviewer
\* has sent a second decision on it before the first was answered.
FilledAsRecorded ==
    [][filled' # filled /\ filled' # NoClass =>
           \E i \in Slots :
               /\ sent[i].phase = "done" /\ sent'[i] = NotSent
               /\ LET record == analyses[current][sent[i].n] IN
                  \/ record.by = "another" \/ sent[i].n \in crossed
                  \/ record.by = "reviewer" /\ record.final = filled']_vars

\* A decision to modify is recorded with the class the reviewer chose.
ModifiedAsChosen ==
    \A t \in Tickets : \A n \in DOMAIN analyses[t] :
        analyses[t][n].decision = "modified" => analyses[t][n].final = analyses[t][n].chosen

\* A submission ends, on the page of the ticket or at the form, which can be submitted again.
SubmitSettles ==
    stage \in {"creating", "uploading", "queueing"} ~> (stage = "page" \/ (stage = "filling" /\ ~guard))

\* A panel that shows an analysis as active shows in the end that it has ended, once it has.
AnalysisShown ==
    \A n \in 1 .. MaxAnalyses :
        (/\ Polling /\ seen.n = n
         /\ analyses[current][n].status \in {"completed", "failed"})
            ~> ~(Polling /\ seen.n = n)
=============================================================================
