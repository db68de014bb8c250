------------------------- MODULE TicketReview_proofs -------------------------
(***************************************************************************)
(* What becomes of the photos and of the decisions of a concern once it is *)
(* a ticket, for any concerns, photos and classes.                         *)
(*                                                                         *)
(* The photos rest on an account of where each photo of the ticket is      *)
(* (PhotosAccounted), on a batch of them being started only with nothing   *)
(* left of the one before (Batch), and on an analysis that was found       *)
(* missing staying so until it is asked for (Room). The decisions rest on  *)
(* what a panel has shown being on record (Decided) and never shown        *)
(* undecided again (Panel), on the record a decision under way was made on *)
(* (Sending) and on two of them on one record being known to have crossed  *)
(* (Crossing).                                                             *)
(***************************************************************************)
EXTENDS TicketIntake_proofs

\* The analyses of the ticket of the submission, and whether p is in one of them.
List == analyses[current]
InAnalysis(p) == \E n \in DOMAIN List : p \in List[n].photos

\* The types that the promises about the form do not need.
Outcomes == {"nothing", "rejected photos", "not created", "not requested", "partial upload",
             "queued", "unavailable"}
RestTyped ==
    /\ targets \subseteq Photos /\ told \in Outcomes /\ lateCall \in Calls
    /\ wasQueueingAi \in BOOLEAN
    /\ \A t \in Tickets : Len(analyses[t]) <= MaxAnalyses
    /\ at \in {"elsewhere", "ticket", "form"} /\ seen \in Views /\ sent \in [Slots -> Sent]
    /\ filled \in Classes \cup {NoClass} /\ applied \in BOOLEAN
    /\ accounted \subseteq Photos /\ skipped \subseteq Photos
    /\ shown \subseteq 1 .. MaxAnalyses /\ crossed \subseteq 1 .. MaxAnalyses

\* A request for an analysis is sent only when none is active and there may be one more.
Room == requeue.phase = "sent" => ~Active(List) /\ Len(List) < MaxAnalyses

\* Between two batches nothing is left of the first; the follow-up of one that was started while
\* no analysis was being asked for finds none being asked for.
Batch ==
    /\ late = NoPhoto => batch = {} /\ uploadedIds = {}
    /\ late # NoPhoto /\ ~wasQueueingAi => requeue.phase = "none"
    /\ requeue.phase = "none" => requeue.photos = {}

\* Where each photo is that is on the ticket of a requester's submission.
PhotosAccounted ==
    /\ \A t \in Tickets : t > tickets => attached[t] = {}
    /\ stage = "creating" /\ call = "done" => attached[tickets] = {}
    /\ requeue.phase = "done" => \A p \in requeue.photos : InAnalysis(p)
    /\ form = "requester" =>
        /\ stage = "uploading" =>
            \A p \in attached[current] : p \in accounted \/ p \in uploaded \/ Uploading(p)
        /\ stage = "queueing" => \A p \in attached[current] : p \in accounted \/ p \in uploaded
        /\ stage = "leaving" => \A p \in attached[current] : p \in accounted \/ InAnalysis(p)
        /\ stage = "page" =>
            \A p \in attached[current] :
                \/ p \in accounted \/ p \in skipped \/ InAnalysis(p)
                \/ p = late \/ p \in batch \/ p \in uploadedIds \/ p \in requeue.photos

\* The panels are on the ticket's page and its edit form; what has been shown as decided is not
\* shown otherwise.
Panel ==
    /\ stage # "page" => /\ at = "elsewhere" /\ seen = Nothing /\ shown = {}
                         /\ \A i \in Slots : ~UnderWay(i)
    /\ seen.n = 0 => seen = Nothing
    /\ stage = "page" => seen.n <= Len(List)
    /\ seen.n \in shown => seen.decided
    /\ seen.decided => seen.n \in shown

\* An analysis is decided on once it is completed, and for good.
Decided ==
    /\ \A t \in Tickets : \A n \in DOMAIN analyses[t] :
           analyses[t][n].status \in {"queued", "processing"} => analyses[t][n].decision = "none"
    /\ \A n \in shown : n \in DOMAIN List /\ List[n].decision # "none"

\* The class c is on the record of analysis n, unless another reviewer has decided on it, or the
\* reviewer twice.
Recorded(n, c) ==
    \/ List[n].by = "another" \/ n \in crossed
    \/ List[n].by = "reviewer" /\ List[n].final = c

\* A decision under way is on an analysis that had not been shown as decided; carried out, it is
\* on record.
Sending ==
    \A i \in Slots : UnderWay(i) =>
        /\ sent[i].n \in DOMAIN List /\ sent[i].n \notin sent[i].known
        /\ sent[i].phase = "done" => Recorded(sent[i].n, sent[i].final)

\* Two decisions under way on one analysis have crossed.
Crossing ==
    \A i, j \in Slots : i # j /\ UnderWay(i) /\ UnderWay(j) /\ sent[i].n = sent[j].n =>
                            sent[i].n \in crossed

ReviewInv == /\ RestTyped /\ Room /\ Batch /\ PhotosAccounted
             /\ Panel /\ Decided /\ Sending /\ Crossing


-----------------------------------------------------------------------------
\* A record on an analysis of the ticket leaves the others as they are.
LEMMA RecordOnly ==
    ASSUME IInv, current \in Tickets, NEW n \in DOMAIN List, NEW new,
           analyses' = [analyses EXCEPT ![current][n] = new]
    PROVE  /\ \A t \in Tickets : t # current => analyses'[t] = analyses[t]
           /\ DOMAIN analyses'[current] = DOMAIN List /\ Len(analyses'[current]) = Len(List)
           /\ analyses'[current][n] = new
           /\ \A m \in DOMAIN List : m # n => analyses'[current][m] = List[m]
<1>1. analyses \in [Tickets -> Seq(Analysis)] /\ List \in Seq(Analysis)
  BY DEF IInv, Typed, List
<1>2. /\ analyses'[current] = [List EXCEPT ![n] = new]
      /\ \A t \in Tickets : t # current => analyses'[t] = analyses[t]
  BY <1>1 DEF List
<1> HIDE DEF List
<1>3. DOMAIN List = 1 .. Len(List) /\ Len(List) \in Nat
  BY <1>1
<1>4. /\ DOMAIN [List EXCEPT ![n] = new] = DOMAIN List
      /\ [List EXCEPT ![n] = new][n] = new
      /\ \A m \in DOMAIN List : m # n => [List EXCEPT ![n] = new][m] = List[m]
  OBVIOUS
<1>5. Len([List EXCEPT ![n] = new]) = Len(List)
  BY <1>3, <1>4
<1> QED
  BY <1>2, <1>4, <1>5

\* Asking for an analysis keeps those there are; a new one is undecided.
LEMMA QueuedOnly ==
    ASSUME IInv, current \in Tickets, NEW photos \in SUBSET Photos,
           analyses' = [analyses EXCEPT ![current] = queue_ticket_image_analysis(@, photos)]
    PROVE  /\ \A t \in Tickets : t # current => analyses'[t] = analyses[t]
           /\ DOMAIN List \subseteq DOMAIN analyses'[current]
           /\ \A m \in DOMAIN List : analyses'[current][m] = List[m]
           /\ \A m \in DOMAIN analyses'[current] \ DOMAIN List :
                  analyses'[current][m].decision = "none"
           /\ Len(List) <= Len(analyses'[current])
           /\ Len(analyses'[current]) <= Len(List) + 1
           /\ ~Active(List) => \E m \in DOMAIN analyses'[current] :
                                   analyses'[current][m].photos = photos
<1> DEFINE new == [status |-> "queued", photos |-> photos, decision |-> "none",
                   final |-> NoClass, chosen |-> NoClass, by |-> "nobody"]
<1>1. analyses \in [Tickets -> Seq(Analysis)] /\ List \in Seq(Analysis)
  BY DEF IInv, Typed, List
<1>2. /\ analyses'[current] = IF Active(List) THEN List ELSE Append(List, new)
      /\ \A t \in Tickets : t # current => analyses'[t] = analyses[t]
  BY <1>1 DEF List, queue_ticket_image_analysis
<1>3. new.decision = "none" /\ new.photos = photos
  OBVIOUS
<1> HIDE DEF List, new
<1>4. Len(List) \in Nat /\ DOMAIN List = 1 .. Len(List)
  BY <1>1
<1>5. CASE Active(List)
  BY <1>2, <1>4, <1>5
<1>6. CASE ~Active(List)
  <2> DEFINE longer == Append(List, new)
  <2>1. /\ Len(longer) = Len(List) + 1 /\ DOMAIN longer = 1 .. Len(List) + 1
        /\ longer[Len(List) + 1] = new
        /\ \A m \in 1 .. Len(List) : longer[m] = List[m]
    BY <1>1
  <2> HIDE DEF longer
  <2>2. analyses'[current] = longer
    BY <1>2, <1>6 DEF longer
  <2>3. Len(List) + 1 \in DOMAIN longer
    BY <1>4, <2>1
  <2>4. \A m \in DOMAIN longer \ DOMAIN List : m = Len(List) + 1
    BY <1>4, <2>1
  <2> QED
    BY <1>2, <1>3, <1>4, <2>1, <2>2, <2>3, <2>4
<1> QED
  BY <1>5, <1>6

\* The ticket of the submission once there is one.
LEMMA OnTicket ==
    ASSUME IInv, stage \in {"uploading", "queueing", "leaving", "page"}
    PROVE  /\ current \in Tickets /\ attached[current] \subseteq Photos /\ List \in Seq(Analysis)
           /\ Len(List) \in Nat /\ DOMAIN List = 1 .. Len(List)
<1>1. current \in Tickets
  BY DEF IInv, Typed, Placed, Tickets
<1>2. attached \in [Tickets -> SUBSET Photos] /\ analyses \in [Tickets -> Seq(Analysis)]
  BY DEF IInv, Typed
<1>3. List \in Seq(Analysis)
  BY <1>1, <1>2 DEF List
<1> QED
  BY <1>1, <1>2, <1>3

-----------------------------------------------------------------------------
\* What a step leaves alone in the invariant, it preserves.
LEMMA PanelKept ==
    ASSUME Panel, Decided, Sending, Crossing,
           UNCHANGED <<stage, current, analyses, at, seen, sent, shown, crossed>>
    PROVE  Panel' /\ Decided' /\ Sending' /\ Crossing'
BY DEF Panel, Decided, Sending, Crossing, Recorded, UnderWay, List

LEMMA AccountKept ==
    ASSUME PhotosAccounted, Batch, UNCHANGED submission, UNCHANGED followUp,
           UNCHANGED <<tickets, attached, accounted, skipped>>,
           \A p : InAnalysis(p) => InAnalysis(p)'
    PROVE  PhotosAccounted' /\ Batch'
<1>1. /\ UNCHANGED <<concern, stage, photo, uploaded, call, current>>
      /\ UNCHANGED <<late, batch, uploadedIds, wasQueueingAi, requeue>>
  BY DEF submission, followUp, uploader
<1> QED
  BY <1>1 DEF PhotosAccounted, Batch, Uploading, form

\* Before the page of the ticket is shown, there is no panel and nothing is followed up.
LEMMA BeforePage ==
    ASSUME IInv, IInv', ReviewInv, stage # "page",
           UNCHANGED <<followUp, server, review, skipped, shown, crossed>>,
           targets' \subseteq Photos, told' \in Outcomes, accounted' \subseteq Photos,
           PhotosAccounted'
    PROVE  ReviewInv'
<1>1. /\ UNCHANGED <<late, lateCall, batch, uploadedIds, wasQueueingAi, requeue>>
      /\ UNCHANGED <<tickets, attached, analyses, at, seen, choice, sent, filled, applied>>
      /\ UNCHANGED <<skipped, shown, crossed>>
      /\ at = "elsewhere" /\ seen = Nothing /\ shown = {} /\ \A i \in Slots : ~UnderWay(i)
      /\ requeue.phase # "sent"
  BY DEF followUp, uploader, server, review, ReviewInv, Panel, IInv, FollowUp
<1>2. RestTyped'
  BY <1>1 DEF ReviewInv, RestTyped
<1>3. Room' /\ Batch' /\ Sending' /\ Crossing'
  BY <1>1 DEF ReviewInv, Room, Batch, Sending, Crossing, UnderWay
<1>4. Panel'
  <2>1. stage' = "page" => analyses'[current'] \in Seq(Analysis)
    BY DEF IInv, Typed, Placed, Tickets
  <2>2. stage' = "page" => Len(analyses'[current']) \in Nat
    BY <2>1
  <2>3. seen'.n = 0 /\ ~seen'.decided
    BY <1>1 DEF Nothing
  <2>4. stage' = "page" => seen'.n <= Len(analyses'[current'])
    BY <2>2, <2>3
  <2> QED
    BY <1>1, <2>3, <2>4 DEF Panel, List, UnderWay
<1>5. Decided'
  BY <1>1 DEF ReviewInv, Decided
<1> QED
  BY <1>2, <1>3, <1>4, <1>5 DEF ReviewInv

-----------------------------------------------------------------------------
\* The form.
LEMMA EditReviews ==
    ASSUME IInv, IInv', ReviewInv, NEW p \in Photos, handleFiles(p) \/ removeQueuedAttachment(p)
    PROVE  ReviewInv'
<1>1. /\ stage \in {"filling", "leaving"}
      /\ UNCHANGED <<concern, stage, guard, targets, uploaded, call, current, told>>
      /\ UNCHANGED <<followUp, server, review, history>>
  BY DEF handleFiles, removeQueuedAttachment, Editable
<1>2. PhotosAccounted'
  BY <1>1 DEF ReviewInv, PhotosAccounted, InAnalysis, List, form, followUp, uploader, server, history
<1> QED
  BY <1>1, <1>2, BeforePage DEF ReviewInv, RestTyped, history

LEMMA SubmitReviews ==
    ASSUME IInv, IInv', ReviewInv, Submit
    PROVE  ReviewInv'
<1>1. /\ stage \in {"filling", "leaving"} /\ ~guard
      /\ UNCHANGED <<concern, photo, targets, current>>
      /\ UNCHANGED <<followUp, server, review, accounted, skipped, shown, crossed>>
      /\ \/ UNCHANGED <<stage, call, uploaded>> /\ told' = "rejected photos"
         \/ stage' = "creating" /\ call' = "sent" /\ told' = "nothing"
  BY DEF Submit, Editable
<1>2. PhotosAccounted'
  BY <1>1 DEF ReviewInv, PhotosAccounted, InAnalysis, List, form, followUp, uploader, server
<1> QED
  BY <1>1, <1>2, BeforePage DEF ReviewInv, RestTyped, Outcomes

\* The new ticket has no photos yet.
LEMMA CreateAnsweredReviews ==
    ASSUME IInv, IInv', ReviewInv, CreateAnswered
    PROVE  ReviewInv'
<1>1. /\ stage = "creating" /\ call = "done" /\ current' = tickets
      /\ stage' \in {"leaving", "uploading"} /\ targets' = getUploadableFiles
      /\ told' = told \/ told' = "not requested"
      /\ UNCHANGED <<concern, photo, uploaded>>
      /\ UNCHANGED <<followUp, server, review, history>>
  BY DEF CreateAnswered, Leave
<1>2. attached[tickets] = {} /\ requeue.phase = "none"
  BY <1>1 DEF ReviewInv, PhotosAccounted, IInv, FollowUp, Typed
<1>3. PhotosAccounted'
  BY <1>1, <1>2 DEF ReviewInv, PhotosAccounted, followUp, uploader, server
<1>4. targets' \subseteq Photos /\ told' \in Outcomes
  BY <1>1 DEF ReviewInv, RestTyped, Outcomes, getUploadableFiles
<1> QED
  BY <1>1, <1>3, <1>4, BeforePage DEF ReviewInv, RestTyped, history

LEMMA CreateFailedReviews ==
    ASSUME IInv, IInv', ReviewInv, CreateFailed
    PROVE  ReviewInv'
<1>1. /\ stage = "creating" /\ stage' = "filling" /\ told' = "not created"
      /\ UNCHANGED <<concern, photo, targets, uploaded, current>>
      /\ UNCHANGED <<followUp, server, review, history>>
  BY DEF CreateFailed, BackToForm
<1>2. PhotosAccounted'
  BY <1>1 DEF ReviewInv, PhotosAccounted, InAnalysis, List, followUp, uploader, server
<1> QED
  BY <1>1, <1>2, BeforePage DEF ReviewInv, RestTyped, Outcomes, history

LEMMA UploadNextReviews ==
    ASSUME IInv, IInv', ReviewInv, NEW p \in Photos, UploadNext(p)
    PROVE  ReviewInv'
<1>1. /\ stage = "uploading" /\ call = "none" /\ photo' = [photo EXCEPT ![p] = "uploading"]
      /\ UNCHANGED <<concern, stage, guard, targets, uploaded, current, told>>
      /\ UNCHANGED <<followUp, server, review, history>>
  BY DEF UploadNext
<1>2. \A q \in Photos : Uploading(q) => Uploading(q)'
  BY <1>1 DEF IInv, Typed, Uploading
<1>3. attached[current] \subseteq Photos
  BY <1>1, OnTicket
<1>4. PhotosAccounted'
  BY <1>1, <1>2, <1>3 DEF ReviewInv, PhotosAccounted, InAnalysis, List, form, followUp, uploader, server,
                          history
<1> QED
  BY <1>1, <1>4, BeforePage DEF ReviewInv, RestTyped, history

\* A photo that fails is accounted for, whether or not the server has taken it.
LEMMA UploadAnsweredReviews ==
    ASSUME IInv, IInv', ReviewInv, NEW p \in Photos, UploadAnswered(p)
    PROVE  ReviewInv'
<1>1. /\ stage = "uploading" /\ Uploading(p) /\ targets' = targets \ {p}
      /\ \/ uploaded' = uploaded \cup {p} /\ accounted' = accounted
         \/ uploaded' = uploaded /\ accounted' = accounted \cup {p}
      /\ UNCHANGED <<concern, stage, guard, current, told>>
      /\ UNCHANGED <<followUp, server, review, excused, skipped, shown, crossed>>
  BY DEF UploadAnswered
<1>2. \A q \in Photos : Uploading(q) => q = p
  BY <1>1 DEF IInv, OneAtATime
<1>3. attached[current] \subseteq Photos
  BY <1>1, OnTicket
<1>4. PhotosAccounted'
  BY <1>1, <1>2, <1>3 DEF ReviewInv, PhotosAccounted, InAnalysis, List, form, followUp, uploader, server
<1>5. targets' \subseteq Photos /\ told' \in Outcomes /\ accounted' \subseteq Photos
  BY <1>1 DEF ReviewInv, RestTyped
<1> QED
  BY <1>1, <1>4, <1>5, BeforePage

LEMMA UploadsTriedReviews ==
    ASSUME IInv, IInv', ReviewInv, UploadsTried
    PROVE  ReviewInv'
<1>1. /\ stage = "uploading" /\ call = "none"
      /\ \/ stage' = "queueing" /\ told' = told
         \/ /\ stage' = "leaving" /\ uploaded = {}
            /\ told' \in {"partial upload", "not requested"}
      /\ UNCHANGED <<concern, photo, targets, uploaded, current>>
      /\ UNCHANGED <<followUp, server, review, history>>
  BY DEF UploadsTried, Leave
<1>2. \A q \in Photos : ~Uploading(q)
  BY <1>1 DEF IInv, OneAtATime
<1>3. attached[current] \subseteq Photos
  BY <1>1, OnTicket
<1>4. PhotosAccounted'
  BY <1>1, <1>2, <1>3 DEF ReviewInv, PhotosAccounted, InAnalysis, List, form, followUp, uploader, server,
                          history
<1>5. told' \in Outcomes
  BY <1>1 DEF ReviewInv, RestTyped, Outcomes
<1> QED
  BY <1>1, <1>4, <1>5, BeforePage DEF ReviewInv, RestTyped, history

\* The first analysis of the ticket is of the photos uploaded.
LEMMA QueueAnsweredReviews ==
    ASSUME IInv, IInv', ReviewInv, QueueAnswered
    PROVE  ReviewInv'
<1>1. /\ stage = "queueing" /\ call = "done" /\ stage' = "leaving" /\ told' = "queued"
      /\ UNCHANGED <<concern, photo, targets, uploaded, current>>
      /\ UNCHANGED <<followUp, server, review, history>>
  BY DEF QueueAnswered, Leave
<1>2. \A q \in uploaded : InAnalysis(q)
  <2>1. Analysed /\ List \in Seq(Analysis)
    BY <1>1, OnTicket DEF IInv, AnalysesOfTickets
  <2>2. 1 \in DOMAIN List
    <3>1. List # << >>
      BY <2>1 DEF Analysed, List
    <3> HIDE DEF List
    <3> QED
      BY <2>1, <3>1
  <2> QED
    BY <2>1, <2>2 DEF Analysed, InAnalysis, List
<1>3. PhotosAccounted'
  BY <1>1, <1>2 DEF ReviewInv, PhotosAccounted, InAnalysis, List, form, followUp, uploader, server, history
<1> QED
  BY <1>1, <1>3, BeforePage DEF ReviewInv, RestTyped, Outcomes, history

LEMMA QueueFailedReviews ==
    ASSUME IInv, IInv', ReviewInv, QueueFailed
    PROVE  ReviewInv'
<1>1. /\ stage = "queueing" /\ accounted' = accounted \cup uploaded
      /\ \/ stage' = "leaving" /\ told' = "unavailable"
         \/ stage' = "filling" /\ told' = "not created"
      /\ UNCHANGED <<concern, photo, targets, uploaded, current>>
      /\ UNCHANGED <<followUp, server, review, skipped, shown, crossed>>
  BY DEF QueueFailed, Leave, BackToForm
<1>2. PhotosAccounted'
  BY <1>1 DEF ReviewInv, PhotosAccounted, InAnalysis, List, form, followUp, uploader, server
<1>3. told' \in Outcomes /\ accounted' \subseteq Photos
  BY <1>1 DEF ReviewInv, RestTyped, Outcomes, IInv, Typed
<1> QED
  BY <1>1, <1>2, <1>3, BeforePage DEF ReviewInv, RestTyped

LEMMA ArriveReviews ==
    ASSUME IInv, IInv', ReviewInv, Arrive
    PROVE  ReviewInv'
<1>1. /\ stage = "leaving" /\ stage' = "page" /\ targets' = {}
      /\ UNCHANGED <<concern, call, current, told>>
      /\ UNCHANGED <<followUp, server, review, history>>
  BY DEF Arrive
<1>2. PhotosAccounted'
  BY <1>1 DEF ReviewInv, PhotosAccounted, InAnalysis, List, form, followUp, uploader, server, history
<1> QED
  BY <1>1, <1>2, BeforePage DEF ReviewInv, RestTyped, history

LEMMA FailReviews ==
    ASSUME IInv, IInv', ReviewInv, Fail
    PROVE  ReviewInv'
<1>1. /\ call' = "failed"
      /\ UNCHANGED <<concern, stage, guard, photo, targets, uploaded, current, told>>
      /\ UNCHANGED <<followUp, server, review, accounted, skipped, shown, crossed>>
  BY DEF Fail
<1>2. PhotosAccounted'
  BY <1>1 DEF ReviewInv, PhotosAccounted, InAnalysis, List, form, Uploading, followUp, uploader, server
<1>3. RestTyped'
  BY <1>1 DEF ReviewInv, RestTyped, followUp, uploader, server, review
<1>4. Room' /\ Batch' /\ Panel' /\ Decided' /\ Sending' /\ Crossing'
  BY <1>1, PanelKept DEF ReviewInv, Room, Batch, List, followUp, uploader, server, review
<1> QED
  BY <1>2, <1>3, <1>4 DEF ReviewInv

LEMMA QueuedDecided ==
    ASSUME IInv, Decided, current \in Tickets, NEW photos \in SUBSET Photos,
           analyses' = [analyses EXCEPT ![current] = queue_ticket_image_analysis(@, photos)],
           UNCHANGED <<current, shown>>
    PROVE  Decided'
<1>1. /\ \A t \in Tickets : t # current => analyses'[t] = analyses[t]
      /\ DOMAIN List \subseteq DOMAIN analyses'[current]
      /\ \A m \in DOMAIN List : analyses'[current][m] = List[m]
      /\ \A m \in DOMAIN analyses'[current] \ DOMAIN List :
             analyses'[current][m].decision = "none"
  BY QueuedOnly
<1>2. ASSUME NEW t \in Tickets, NEW n \in DOMAIN analyses'[t],
             analyses'[t][n].status \in {"queued", "processing"}
      PROVE  analyses'[t][n].decision = "none"
  <2>1. CASE t # current
    BY <1>1, <1>2, <2>1 DEF Decided
  <2>2. CASE t = current /\ n \in DOMAIN List
    BY <1>1, <1>2, <2>2 DEF Decided, List
  <2>3. CASE t = current /\ n \notin DOMAIN List
    BY <1>1, <2>3
  <2> QED
    BY <2>1, <2>2, <2>3
<1>3. \A n \in shown : n \in DOMAIN analyses'[current] /\ analyses'[current][n].decision # "none"
  BY <1>1 DEF Decided
<1> QED
  BY <1>2, <1>3 DEF Decided, List

\* The server's part: only a photo being uploaded comes to a ticket.
LEMMA ServeReviews ==
    ASSUME IInv, IInv', ReviewInv, Serve
    PROVE  ReviewInv'
<1>1. /\ call = "sent" /\ call' = "done" /\ stage \in {"creating", "uploading", "queueing"}
      /\ UNCHANGED <<concern, stage, guard, photo, targets, uploaded, current, told>>
      /\ UNCHANGED <<late, lateCall, batch, uploadedIds, wasQueueingAi, requeue>>
      /\ UNCHANGED <<at, seen, choice, sent, filled, applied, accounted, skipped, shown, crossed>>
  BY DEF Serve, followUp, uploader, review, history
<1>2. requeue.phase # "sent" /\ \A i \in Slots : ~UnderWay(i)
  BY <1>1 DEF IInv, FollowUp, ReviewInv, Panel
<1>3. Room' /\ Batch'
  BY <1>1, <1>2 DEF ReviewInv, Room, Batch
<1>4. CASE stage = "creating"
  <2>1. tickets' = tickets + 1 /\ UNCHANGED <<attached, analyses>>
    BY <1>4 DEF Serve
  <2>2. tickets' \in Tickets /\ tickets \in Nat
    BY <2>1 DEF IInv, Typed, Tickets
  <2>3. attached[tickets'] = {} /\ \A t \in Tickets : t > tickets' => attached[t] = {}
    BY <2>1, <2>2 DEF ReviewInv, PhotosAccounted, Tickets
  <2>4. PhotosAccounted'
    BY <1>1, <1>4, <2>1, <2>3 DEF ReviewInv, PhotosAccounted, InAnalysis, List
  <2>5. RestTyped'
    BY <1>1, <2>1 DEF ReviewInv, RestTyped
  <2> QED
    BY <1>1, <1>3, <2>1, <2>4, <2>5, PanelKept DEF ReviewInv
<1>5. CASE stage = "uploading"
  <2>1. /\ attached' = [attached EXCEPT ![current] = @ \cup {p \in Photos : Uploading(p)}]
        /\ UNCHANGED <<tickets, analyses>>
    BY <1>5 DEF Serve
  <2>2. current \in Tickets /\ current <= tickets /\ tickets \in Nat
    BY <1>5, OnTicket DEF IInv, Placed, Typed
  <2>3. /\ attached'[current] = attached[current] \cup {p \in Photos : Uploading(p)}
        /\ \A t \in Tickets : t # current => attached'[t] = attached[t]
    BY <2>1, <2>2 DEF IInv, Typed
  <2>4. \A t \in Tickets : t > tickets => attached'[t] = {}
    BY <2>2, <2>3 DEF ReviewInv, PhotosAccounted, Tickets
  <2>5. PhotosAccounted'
    BY <1>1, <1>5, <2>1, <2>3, <2>4
       DEF ReviewInv, PhotosAccounted, InAnalysis, List, form, Uploading
  <2>6. RestTyped'
    BY <1>1, <2>1 DEF ReviewInv, RestTyped
  <2> QED
    BY <1>1, <1>3, <2>1, <2>5, <2>6, PanelKept DEF ReviewInv
<1>6. CASE stage = "queueing"
  <2>1. /\ analyses' = [analyses EXCEPT ![current] = queue_ticket_image_analysis(@, uploaded)]
        /\ UNCHANGED <<tickets, attached>>
    BY <1>6 DEF Serve
  <2>2. current \in Tickets /\ uploaded \in SUBSET Photos
    BY <1>6, OnTicket DEF IInv, Typed
  <2>3. /\ \A t \in Tickets : t # current => analyses'[t] = analyses[t]
        /\ Len(analyses'[current]) <= Len(List) + 1 /\ Len(List) = 0
    <3>1. List = << >>
      BY <1>1, <1>6 DEF IInv, AnalysesOfTickets, List
    <3> QED
      BY <2>1, <2>2, <3>1, QueuedOnly
  <2>4. PhotosAccounted'
    BY <1>1, <1>2, <1>6, <2>1 DEF ReviewInv, PhotosAccounted, form, IInv, FollowUp
  <2>5. RestTyped'
    <3>1. Len(analyses'[current]) \in Nat
      BY <2>2 DEF IInv, Typed
    <3>2. Len(analyses'[current]) <= MaxAnalyses
      BY <2>3, <3>1, BoundsAssumption
    <3>3. \A t \in Tickets : Len(analyses'[t]) <= MaxAnalyses
      BY <2>3, <3>2 DEF ReviewInv, RestTyped
    <3> QED
      BY <1>1, <3>3 DEF ReviewInv, RestTyped
  <2>6. Decided'
    BY <1>1, <2>1, <2>2, QueuedDecided DEF ReviewInv
  <2>7. Panel' /\ Sending' /\ Crossing'
    BY <1>1, <1>2 DEF ReviewInv, Panel, Sending, Crossing, UnderWay
  <2> QED
    BY <1>3, <2>4, <2>5, <2>6, <2>7 DEF ReviewInv
<1> QED
  BY <1>1, <1>4, <1>5, <1>6

-----------------------------------------------------------------------------
\* The page of the request.
LEMMA UploadQueuedReviews ==
    ASSUME IInv, IInv', ReviewInv, NEW files \in SUBSET Photos, uploadQueued(files)
    PROVE  ReviewInv'
<1>1. /\ stage = "page" /\ late = NoPhoto /\ wasQueueingAi' = (requeue.phase # "none")
      /\ accounted' = accounted \ files /\ skipped' = skipped \ files
      /\ UNCHANGED <<submission, uploadedIds, requeue, server, review, shown, crossed>>
  BY DEF uploadQueued
<1>2. PICK p \in files : late' = p /\ lateCall' = "sent" /\ batch' = files \ {p}
  BY DEF uploadQueued, uploadOne
<1>3. UNCHANGED <<concern, stage, photo, targets, uploaded, call, current, told, tickets, attached,
                  analyses, at, seen, sent, filled, applied>>
  BY <1>1 DEF submission, server, review
<1>4. late' # NoPhoto /\ batch = {} /\ uploadedIds = {} /\ \A q \in attached[current] : q # late
  BY <1>1, <1>2, OnTicket, NamesAssumption DEF ReviewInv, Batch
<1>5. Batch'
  BY <1>1, <1>4 DEF ReviewInv, Batch
<1>6. PhotosAccounted'
  <2>1. \A q \in files : q = late' \/ q \in batch'
    BY <1>2
  <2>2. \A q : InAnalysis(q) => InAnalysis(q)'
    BY <1>3 DEF InAnalysis, List
  <2> QED
    BY <1>1, <1>3, <1>4, <2>1, <2>2 DEF ReviewInv, PhotosAccounted, form
<1>7. RestTyped'
  <2>1. wasQueueingAi' \in BOOLEAN /\ lateCall' \in Calls
    BY <1>1, <1>2 DEF Calls
  <2> QED
    BY <1>1, <1>3, <2>1 DEF ReviewInv, RestTyped
<1>8. Room'
  BY <1>1, <1>3 DEF ReviewInv, Room, List
<1> QED
  BY <1>1, <1>3, <1>5, <1>6, <1>7, <1>8, PanelKept DEF ReviewInv

\* A photo that has been tried is among those uploaded or accounted for, and what is left of the
\* batch is tried or asked for.
LEMMA TriedReviews ==
    ASSUME IInv, ReviewInv, stage = "page", late \in Photos,
           NEW ids \in SUBSET Photos, Tried(ids), uploadedIds \subseteq ids,
           accounted \subseteq accounted', accounted' \subseteq Photos, late \in ids \cup accounted',
           UNCHANGED <<submission, server, review, shown, crossed>>
    PROVE  Batch' /\ PhotosAccounted' /\ RestTyped' /\ Room'
<1>1. /\ UNCHANGED <<concern, stage, photo, targets, uploaded, call, current, told>>
      /\ UNCHANGED <<tickets, attached, analyses, at, seen, sent, filled, applied>>
  BY DEF submission, server, review
<1>2. \A q : InAnalysis(q) <=> InAnalysis(q)'
  BY <1>1 DEF InAnalysis, List
<1>3. late # NoPhoto
  BY NamesAssumption
<1>4. CASE batch # {}
  <2>1. PICK p \in batch : late' = p /\ lateCall' = "sent" /\ batch' = batch \ {p}
    BY <1>4 DEF Tried, uploadOne
  <2>2. uploadedIds' = ids /\ UNCHANGED <<wasQueueingAi, requeue, skipped>>
    BY <1>4 DEF Tried
  <2>3. late' # NoPhoto
    BY <2>1, NamesAssumption DEF IInv, Typed
  <2>4. Batch'
    BY <1>3, <2>2, <2>3 DEF ReviewInv, Batch
  <2>5. \A q \in batch : q = late' \/ q \in batch'
    BY <2>1
  <2>6. PhotosAccounted'
    BY <1>1, <1>2, <2>2, <2>5 DEF ReviewInv, PhotosAccounted, form
  <2>7. RestTyped' /\ Room'
    BY <1>1, <2>1, <2>2 DEF ReviewInv, RestTyped, Room, Calls, List
  <2> QED
    BY <2>4, <2>6, <2>7
<1>5. CASE batch = {}
  <2>1. /\ late' = NoPhoto /\ lateCall' = "none" /\ uploadedIds' = {} /\ wasQueueingAi' = FALSE
        /\ batch' = batch /\ onUploaded(ids)
    BY <1>5 DEF Tried
  <2>2. \/ skipped' = skipped \cup ids /\ requeue' = requeue
        \/ /\ requeue.phase = "none" /\ skipped' = skipped
           /\ requeue' = [phase |-> "reading", photos |-> ids]
    BY <1>3, <2>1 DEF onUploaded, ReviewInv, Batch
  <2>3. requeue'.photos = requeue.photos \/ (requeue.photos = {} /\ requeue'.photos = ids)
    BY <2>2 DEF ReviewInv, Batch
  <2>4. Batch'
    BY <1>5, <2>1, <2>2 DEF ReviewInv, Batch
  <2>5. PhotosAccounted'
    BY <1>1, <1>2, <1>5, <2>1, <2>2, <2>3 DEF ReviewInv, PhotosAccounted, form
  <2>6. wasQueueingAi' \in BOOLEAN /\ lateCall' \in Calls /\ skipped' \subseteq Photos
    BY <2>1, <2>2 DEF ReviewInv, RestTyped, Calls
  <2>7. RestTyped'
    BY <1>1, <2>6 DEF ReviewInv, RestTyped
  <2>8. Room'
    BY <1>1, <2>2 DEF ReviewInv, Room, List
  <2> QED
    BY <2>4, <2>5, <2>7, <2>8
<1> QED
  BY <1>4, <1>5

\* The photo being uploaded is accounted for until its upload is answered.
LEMMA LateReviews ==
    ASSUME IInv, IInv', ReviewInv, ServeLate \/ FailLate \/ LateAnswered \/ LateFailed
    PROVE  ReviewInv'
<1>1. /\ stage = "page" /\ late \in Photos /\ uploadedIds \subseteq Photos
      /\ UNCHANGED <<submission, tickets, analyses, review, shown, crossed>>
  BY DEF ServeLate, FailLate, LateAnswered, LateFailed, IInv, FollowUp, Typed, server, history
<1>2. /\ UNCHANGED <<concern, stage, photo, targets, uploaded, call, current, told, at, seen, sent,
                     filled, applied>>
      /\ current \in Tickets /\ attached \in [Tickets -> SUBSET Photos]
      /\ current <= tickets /\ tickets \in Nat
  BY <1>1, OnTicket DEF submission, review, IInv, Typed, Placed
<1>3. \A p : InAnalysis(p) <=> InAnalysis(p)'
  BY <1>1, <1>2 DEF InAnalysis, List
<1>4. CASE ServeLate \/ FailLate
  <2>1. /\ lateCall' \in {"done", "failed"}
        /\ UNCHANGED <<late, batch, uploadedIds, wasQueueingAi, requeue, accounted, skipped>>
    BY <1>4 DEF ServeLate, FailLate, history
  <2>2. attached' = attached \/ attached' = [attached EXCEPT ![current] = @ \cup {late}]
    BY <1>4 DEF ServeLate, FailLate, server
  <2>3. /\ attached'[current] \subseteq attached[current] \cup {late}
        /\ \A t \in Tickets : t # current => attached'[t] = attached[t]
    BY <1>2, <2>2
  <2>4. \A t \in Tickets : t > tickets => attached'[t] = {}
    BY <1>2, <2>3 DEF ReviewInv, PhotosAccounted, Tickets
  <2>5. PhotosAccounted' /\ Batch'
    BY <1>1, <1>2, <1>3, <2>1, <2>3, <2>4 DEF ReviewInv, PhotosAccounted, Batch, form
  <2>6. RestTyped' /\ Room'
    BY <1>1, <1>2, <2>1 DEF ReviewInv, RestTyped, Room, Calls, List
  <2> QED
    BY <1>1, <1>2, <2>5, <2>6, PanelKept DEF ReviewInv
<1>5. CASE LateAnswered \/ LateFailed
  <2>1. PICK ids \in {uploadedIds, uploadedIds \cup {late}} :
            Tried(ids) /\ (late \in ids \/ accounted' = accounted \cup {late})
    BY <1>5 DEF LateAnswered, LateFailed
  <2>2. /\ accounted' = accounted \/ accounted' = accounted \cup {late}
        /\ UNCHANGED <<submission, server, review, shown, crossed>>
    BY <1>5 DEF LateAnswered, LateFailed
  <2>3. accounted' \subseteq Photos /\ accounted \subseteq accounted' /\ late \in ids \cup accounted'
    BY <1>1, <2>1, <2>2 DEF ReviewInv, RestTyped
  <2>4. ids \in SUBSET Photos /\ uploadedIds \subseteq ids
    BY <1>1, <2>1
  <2>5. Batch' /\ PhotosAccounted' /\ RestTyped' /\ Room'
    BY <1>1, <2>1, <2>2, <2>3, <2>4, TriedReviews
  <2> QED
    BY <1>1, <1>2, <2>5, PanelKept DEF ReviewInv
<1> QED
  BY <1>4, <1>5

LEMMA RequeueReviews ==
    ASSUME IInv, IInv', ReviewInv, ReadAnalyses \/ FailRequeue \/ RequeueAnswered
    PROVE  ReviewInv'
<1>1. /\ stage = "page" /\ requeue.phase # "none"
      /\ requeue \in [phase : {"none", "reading", "sent", "done", "failed"}, photos : SUBSET Photos]
      /\ UNCHANGED <<submission, uploader, server, review, skipped, shown, crossed>>
  BY DEF ReadAnalyses, FailRequeue, RequeueAnswered, IInv, FollowUp, Typed, history
<1>2. /\ UNCHANGED <<concern, stage, photo, targets, uploaded, call, current, told, tickets, attached,
                     analyses, at, seen, sent, filled, applied>>
      /\ UNCHANGED <<late, lateCall, batch, uploadedIds, wasQueueingAi>>
  BY <1>1 DEF submission, uploader, server, review
<1>3. \A p : InAnalysis(p) <=> InAnalysis(p)'
  BY <1>2 DEF InAnalysis, List
<1>4. \/ /\ requeue'.phase \in {"sent", "failed"} /\ requeue'.photos = requeue.photos
         /\ accounted' = accounted
         /\ requeue'.phase = "sent" => ~Active(List) /\ Len(List) < MaxAnalyses
      \/ requeue' = Idle /\ accounted' = accounted \cup requeue.photos
      \/ requeue' = Idle /\ accounted' = accounted /\ requeue.phase = "done"
  BY <1>1 DEF ReadAnalyses, FailRequeue, RequeueAnswered, List, history
<1>5. PhotosAccounted' /\ Batch'
  BY <1>1, <1>2, <1>3, <1>4 DEF ReviewInv, PhotosAccounted, Batch, form, Idle
<1>6. RestTyped' /\ Room'
  BY <1>1, <1>2, <1>4 DEF ReviewInv, RestTyped, Room, List, Idle
<1> QED
  BY <1>1, <1>2, <1>5, <1>6, PanelKept DEF ReviewInv

\* None is active and there is room for one more, so that the photos are in the new one.
LEMMA ServeRequeueReviews ==
    ASSUME IInv, IInv', ReviewInv, ServeRequeue
    PROVE  ReviewInv'
<1>1. /\ stage = "page" /\ requeue.phase = "sent" /\ requeue.photos \in SUBSET Photos
      /\ requeue' = [requeue EXCEPT !.phase = "done"]
      /\ requeue'.phase = "done" /\ requeue'.photos = requeue.photos
      /\ analyses' = [analyses EXCEPT ![current] = queue_ticket_image_analysis(@, requeue.photos)]
      /\ UNCHANGED <<submission, uploader, tickets, attached, review, history>>
  BY DEF ServeRequeue, IInv, FollowUp, Typed
<1>2. /\ UNCHANGED <<concern, stage, photo, targets, uploaded, call, current, told, at, seen, sent,
                     filled, applied, accounted, skipped, shown, crossed>>
      /\ UNCHANGED <<late, lateCall, batch, uploadedIds, wasQueueingAi>>
      /\ current \in Tickets /\ Len(List) \in Nat
  BY <1>1, OnTicket DEF submission, uploader, review, history
<1>3. ~Active(List) /\ Len(List) < MaxAnalyses
  BY <1>1 DEF ReviewInv, Room
<1>4. /\ \A t \in Tickets : t # current => analyses'[t] = analyses[t]
      /\ DOMAIN List \subseteq DOMAIN analyses'[current]
      /\ \A m \in DOMAIN List : analyses'[current][m] = List[m]
      /\ Len(List) <= Len(analyses'[current]) /\ Len(analyses'[current]) <= Len(List) + 1
      /\ \E m \in DOMAIN analyses'[current] : analyses'[current][m].photos = requeue.photos
  BY <1>1, <1>2, <1>3, QueuedOnly
<1>5. Len(analyses'[current]) \in Nat
  BY <1>2 DEF IInv, Typed
<1>6. /\ \A p : InAnalysis(p) => InAnalysis(p)'
      /\ \A p \in requeue.photos : InAnalysis(p)'
  BY <1>2, <1>4 DEF InAnalysis, List
<1>7. PhotosAccounted' /\ Batch'
  BY <1>1, <1>2, <1>6 DEF ReviewInv, PhotosAccounted, Batch, form
<1>8. RestTyped' /\ Room'
  <2>1. Len(analyses'[current]) <= MaxAnalyses
    BY <1>2, <1>3, <1>4, <1>5, BoundsAssumption
  <2>2. \A t \in Tickets : Len(analyses'[t]) <= MaxAnalyses
    BY <1>4, <2>1 DEF ReviewInv, RestTyped
  <2> QED
    BY <1>1, <1>2, <2>2 DEF ReviewInv, RestTyped, Room
<1>9. Decided'
  BY <1>1, <1>2, QueuedDecided DEF ReviewInv
<1>10. Panel'
  <2>1. seen.n <= Len(List) /\ seen.n \in 0 .. MaxAnalyses
    BY <1>1 DEF ReviewInv, Panel, RestTyped, Views
  <2>2. seen.n <= Len(analyses'[current])
    BY <1>2, <1>4, <1>5, <2>1
  <2> QED
    BY <1>1, <1>2, <2>2 DEF ReviewInv, Panel, List
<1>11. Sending' /\ Crossing'
  BY <1>2, <1>4 DEF ReviewInv, Sending, Crossing, Recorded, UnderWay, List
<1> QED
  BY <1>7, <1>8, <1>9, <1>10, <1>11 DEF ReviewInv

-----------------------------------------------------------------------------
\* What the worker and the reviewers write on an analysis.
LEMMA RecordReviews ==
    ASSUME IInv, IInv', ReviewInv, current \in Tickets, NEW n \in DOMAIN List, NEW new,
           analyses' = [analyses EXCEPT ![current][n] = new],
           new.photos = List[n].photos,
           new.status \in {"queued", "processing"} =>
               List[n].status \in {"queued", "processing"} /\ new.decision = "none",
           List[n].decision # "none" => new.decision # "none",
           UNCHANGED submission, UNCHANGED followUp,
           UNCHANGED <<tickets, attached, at, seen, filled, applied>>,
           UNCHANGED <<accounted, skipped, shown, crossed>>,
           sent' \in [Slots -> Sent], \A i \in Slots : UnderWay(i)' => UnderWay(i)
    PROVE  RestTyped' /\ Room' /\ Batch' /\ PhotosAccounted' /\ Panel' /\ Decided'
<1>1. /\ UNCHANGED <<concern, stage, photo, targets, uploaded, call, current, told>>
      /\ UNCHANGED <<late, lateCall, batch, uploadedIds, wasQueueingAi, requeue>>
      /\ List \in Seq(Analysis) /\ Len(List) \in Nat /\ DOMAIN List = 1 .. Len(List)
  BY DEF submission, followUp, uploader, IInv, Typed, List
<1>2. /\ \A t \in Tickets : t # current => analyses'[t] = analyses[t]
      /\ DOMAIN analyses'[current] = DOMAIN List /\ Len(analyses'[current]) = Len(List)
      /\ analyses'[current][n] = new
      /\ \A m \in DOMAIN List : m # n => analyses'[current][m] = List[m]
  BY RecordOnly
<1>3. \A p : InAnalysis(p) => InAnalysis(p)'
  <2> SUFFICES ASSUME NEW p, InAnalysis(p) PROVE InAnalysis(p)'
    OBVIOUS
  <2>1. PICK m \in DOMAIN List : p \in List[m].photos
    BY DEF InAnalysis
  <2>2. p \in analyses'[current][m].photos
    BY <1>2, <2>1
  <2> QED
    BY <1>1, <1>2, <2>1, <2>2 DEF InAnalysis, List
<1>4. RestTyped'
  <2>1. \A t \in Tickets : Len(analyses'[t]) <= MaxAnalyses
    BY <1>2 DEF ReviewInv, RestTyped, List
  <2> QED
    BY <1>1, <2>1 DEF ReviewInv, RestTyped
<1>5. Room'
  <2>1. Active(analyses'[current]) => Active(List)
    <3> SUFFICES ASSUME Active(analyses'[current]) PROVE Active(List)
      OBVIOUS
    <3>1. /\ analyses'[current] # << >>
          /\ analyses'[current][Len(List)].status \in {"queued", "processing"}
      BY <1>2 DEF Active
    <3>2. List # << >> /\ Len(List) \in DOMAIN List
      <4>1. n \in 1 .. Len(List) /\ Len(<< >>) = 0
        BY <1>1
      <4> HIDE DEF List
      <4> QED
        BY <1>1, <4>1
    <3>3. List[Len(List)].status \in {"queued", "processing"}
      BY <1>2, <3>1, <3>2
    <3> QED
      BY <3>2, <3>3 DEF Active
  <2> QED
    BY <1>1, <1>2, <2>1 DEF ReviewInv, Room, List
<1>6. PhotosAccounted' /\ Batch'
  BY <1>1, <1>3, AccountKept DEF ReviewInv
<1>7. Panel'
  <2>1. seen'.n = seen.n /\ (stage = "page" => seen.n <= Len(analyses'[current]))
    BY <1>2 DEF ReviewInv, Panel
  <2> QED
    BY <1>1, <2>1 DEF ReviewInv, Panel, List
<1>8. Decided'
  <2>1. ASSUME NEW t \in Tickets, NEW m \in DOMAIN analyses'[t],
               analyses'[t][m].status \in {"queued", "processing"}
        PROVE  analyses'[t][m].decision = "none"
    <3>1. CASE t # current
      BY <1>2, <2>1, <3>1 DEF ReviewInv, Decided
    <3>2. CASE t = current /\ m # n
      BY <1>2, <2>1, <3>2 DEF ReviewInv, Decided, List
    <3>3. CASE t = current /\ m = n
      BY <1>2, <2>1, <3>3
    <3> QED
      BY <3>1, <3>2, <3>3
  <2>2. \A m \in shown : m \in DOMAIN analyses'[current] /\ analyses'[current][m].decision # "none"
    BY <1>2 DEF ReviewInv, Decided
  <2> QED
    BY <1>1, <2>1, <2>2 DEF Decided, List
<1> QED
  BY <1>4, <1>5, <1>6, <1>7, <1>8

LEMMA WorkReviews ==
    ASSUME IInv, IInv', ReviewInv, Work
    PROVE  ReviewInv'
<1> DEFINE n == Len(List)
<1>1. /\ current \in Tickets /\ List \in Seq(Analysis) /\ List # << >>
      /\ List[n].status \in {"queued", "processing"}
  BY DEF Work, Active, List, IInv, Typed, Tickets
<1>2. n \in DOMAIN List
  <2> HIDE DEF List
  <2> QED
    BY <1>1
<1>3. PICK s \in {"processing", "completed", "failed"} :
          analyses' = [analyses EXCEPT ![current][n] = [@ EXCEPT !.status = s]]
  BY DEF Work, List
<1> DEFINE new == [List[n] EXCEPT !.status = s]
<1>4. analyses' = [analyses EXCEPT ![current][n] = new]
  BY <1>3 DEF List
<1>5. List[n].decision = "none"
  BY <1>1, <1>2 DEF ReviewInv, Decided, List
<1>6. List[n] \in Analysis
  BY <1>1, <1>2
<1>7. /\ new.photos = List[n].photos /\ new.decision = "none"
      /\ new.by = List[n].by /\ new.final = List[n].final
  BY <1>5, <1>6 DEF Analysis
<1>8. /\ UNCHANGED submission /\ UNCHANGED followUp
      /\ UNCHANGED <<tickets, attached, at, seen, sent, filled, applied>>
      /\ UNCHANGED <<accounted, skipped, shown, crossed>>
      /\ current' = current
  BY DEF Work, submission, review, history
<1> HIDE DEF new, n
<1>9. RestTyped' /\ Room' /\ Batch' /\ PhotosAccounted' /\ Panel' /\ Decided'
  <2>1. sent' \in [Slots -> Sent] /\ \A i \in Slots : UnderWay(i)' => UnderWay(i)
    BY <1>8 DEF ReviewInv, RestTyped, UnderWay
  <2> QED
    BY <1>1, <1>2, <1>4, <1>5, <1>7, <1>8, <2>1, RecordReviews
<1>10. Sending' /\ Crossing'
  <2>1. /\ DOMAIN analyses'[current] = DOMAIN List /\ analyses'[current][n] = new
        /\ \A m \in DOMAIN List : m # n => analyses'[current][m] = List[m]
    BY <1>1, <1>2, <1>4, RecordOnly
  <2>2. \A m \in DOMAIN List : /\ analyses'[current][m].by = List[m].by
                              /\ analyses'[current][m].final = List[m].final
    BY <1>7, <2>1
  <2> QED
    BY <1>8, <2>1, <2>2 DEF ReviewInv, Sending, Crossing, Recorded, UnderWay, List
<1> QED
  BY <1>9, <1>10 DEF ReviewInv

\* The reviewer's decision is on record once it is carried out; one that was there for another
\* under way has crossed it.
LEMMA ServeDecisionReviews ==
    ASSUME IInv, IInv', ReviewInv, NEW i \in Slots, ServeDecision(i)
    PROVE  ReviewInv'
<1> DEFINE n == sent[i].n
           new == [List[n] EXCEPT !.decision = sent[i].decision, !.final = sent[i].final,
                                  !.chosen = sent[i].chosen, !.by = "reviewer"]
<1>1. /\ sent[i].phase = "sent" /\ sent' = [sent EXCEPT ![i].phase = "done"]
      /\ List[n].status = "completed"
      /\ analyses' = [analyses EXCEPT ![current][n] = new]
      /\ UNCHANGED submission /\ UNCHANGED followUp
      /\ UNCHANGED <<tickets, attached, at, seen, filled, applied>>
      /\ UNCHANGED <<accounted, skipped, shown, crossed>>
      /\ current' = current
  BY DEF ServeDecision, record_recommendation_decision, List, history, submission
<1>2. sent \in [Slots -> Sent]
  BY DEF ReviewInv, RestTyped
<1>3. /\ sent' \in [Slots -> Sent]
      /\ sent'[i].phase = "done" /\ sent'[i].n = n /\ sent'[i].known = sent[i].known
      /\ sent'[i].final = sent[i].final
      /\ \A j \in Slots : j # i => sent'[j] = sent[j]
  <2> DEFINE served == [sent[i] EXCEPT !.phase = "done"]
  <2>1. /\ served \in Sent /\ served.phase = "done" /\ served.n = sent[i].n
        /\ served.known = sent[i].known /\ served.final = sent[i].final
    BY <1>2 DEF Sent
  <2> HIDE DEF served
  <2>2. sent' = [sent EXCEPT ![i] = served]
    BY <1>1 DEF served
  <2> QED
    BY <1>2, <2>1, <2>2
<1>4. /\ UnderWay(i) /\ UnderWay(i)'
      /\ \A j \in Slots : (UnderWay(j)' <=> UnderWay(j)) /\ sent'[j].n = sent[j].n
  BY <1>1, <1>3 DEF UnderWay
<1>5. stage = "page" /\ n \in DOMAIN List /\ n \notin sent[i].known
  BY <1>4 DEF ReviewInv, Panel, Sending
<1>6. current \in Tickets /\ List[n] \in Analysis
  BY <1>5, OnTicket
<1>7. sent[i].decision \in Decisions
  BY <1>1 DEF IInv, Typed, SentTyped
<1>8. /\ new.photos = List[n].photos /\ new.status = "completed" /\ new.decision # "none"
      /\ new.by = "reviewer" /\ new.final = sent[i].final
  BY <1>1, <1>6, <1>7 DEF Analysis, Decisions
<1> HIDE DEF new
<1>9. RestTyped' /\ Room' /\ Batch' /\ PhotosAccounted' /\ Panel' /\ Decided'
  BY <1>1, <1>3, <1>4, <1>5, <1>6, <1>8, RecordReviews
<1>10. Sending'
  <2>1. /\ DOMAIN analyses'[current] = DOMAIN List /\ analyses'[current][n] = new
        /\ \A m \in DOMAIN List : m # n => analyses'[current][m] = List[m]
    BY <1>1, <1>5, <1>6, RecordOnly
  <2> SUFFICES ASSUME NEW j \in Slots, UnderWay(j)
               PROVE  (/\ sent[j].n \in DOMAIN List /\ sent[j].n \notin sent[j].known
                       /\ sent[j].phase = "done" => Recorded(sent[j].n, sent[j].final))'
    BY <1>4 DEF Sending
  <2>2. CASE j = i
    BY <1>1, <1>3, <1>5, <1>8, <2>1, <2>2 DEF Recorded, List
  <2>3. CASE j # i
    <3>1. /\ sent[j].n \in DOMAIN List /\ sent[j].n \notin sent[j].known
          /\ sent[j].phase = "done" => Recorded(sent[j].n, sent[j].final)
      BY DEF ReviewInv, Sending
    <3>2. CASE sent[j].n = n
      <4>1. n \in crossed
        BY <1>4, <2>3, <3>2 DEF ReviewInv, Crossing
      <4> QED
        BY <1>1, <1>3, <2>1, <2>3, <3>1, <3>2, <4>1 DEF Recorded, List
    <3>3. CASE sent[j].n # n
      BY <1>1, <1>3, <2>1, <2>3, <3>1, <3>3 DEF Recorded, List
    <3> QED
      BY <3>2, <3>3
  <2> QED
    BY <2>2, <2>3
<1>11. Crossing'
  BY <1>1, <1>4 DEF ReviewInv, Crossing
<1> QED
  BY <1>9, <1>10, <1>11 DEF ReviewInv

LEMMA AnotherReviews ==
    ASSUME IInv, IInv', ReviewInv, current # 0, NEW n \in DOMAIN analyses[current],
           NEW d \in {"accepted", "ignored"}, DecidedByAnother(n, d)
    PROVE  ReviewInv'
<1> DEFINE final == IF d = "accepted" THEN Recommended ELSE NoClass
           new == [List[n] EXCEPT !.decision = d, !.final = final, !.chosen = NoClass,
                                  !.by = "another"]
<1>1. /\ List[n].status = "completed" /\ n \in DOMAIN List
      /\ analyses' = [analyses EXCEPT ![current][n] = new]
      /\ UNCHANGED submission /\ UNCHANGED followUp
      /\ UNCHANGED <<tickets, attached, at, seen, sent, filled, applied>>
      /\ UNCHANGED <<accounted, skipped, shown, crossed>>
      /\ current' = current
  BY DEF DecidedByAnother, record_recommendation_decision, List, review, history, submission
<1>2. current \in Tickets /\ List \in Seq(Analysis)
  BY DEF IInv, Typed, Tickets, List
<1>3. List[n] \in Analysis
  BY <1>1, <1>2
<1>4. /\ new.photos = List[n].photos /\ new.status = "completed" /\ new.decision # "none"
      /\ new.by = "another"
  BY <1>1, <1>3 DEF Analysis
<1> HIDE DEF new
<1>5. RestTyped' /\ Room' /\ Batch' /\ PhotosAccounted' /\ Panel' /\ Decided'
  <2>1. sent' \in [Slots -> Sent] /\ \A i \in Slots : UnderWay(i)' => UnderWay(i)
    BY <1>1 DEF ReviewInv, RestTyped, UnderWay
  <2> QED
    BY <1>1, <1>2, <1>4, <2>1, RecordReviews
<1>6. Sending' /\ Crossing'
  <2>1. /\ DOMAIN analyses'[current] = DOMAIN List /\ analyses'[current][n] = new
        /\ \A m \in DOMAIN List : m # n => analyses'[current][m] = List[m]
    BY <1>1, <1>2, RecordOnly
  <2>2. \A m \in DOMAIN List : \A c : Recorded(m, c) => Recorded(m, c)'
    BY <1>1, <1>4, <2>1 DEF Recorded, List
  <2>3. DOMAIN List' = DOMAIN List
    BY <1>1, <2>1 DEF List
  <2> QED
    BY <1>1, <2>2, <2>3 DEF ReviewInv, Sending, Crossing, UnderWay
<1> QED
  BY <1>5, <1>6 DEF ReviewInv

-----------------------------------------------------------------------------
\* The panel. What it may show of the ticket:
Showable(view) ==
    /\ view \in Views /\ view.n <= Len(List)
    /\ view.n = 0 => view = Nothing
    /\ view.decided => view.n \in DOMAIN List /\ List[view.n].decision # "none"
    /\ view.n \in shown => view.decided

LEMMA Viewed ==
    ASSUME IInv, ReviewInv, stage = "page"
    PROVE  Showable(View(current)) /\ Showable(Nothing) /\ Showable(seen)
<1>1. /\ List \in Seq(Analysis) /\ Len(List) \in Nat /\ DOMAIN List = 1 .. Len(List)
      /\ Len(List) <= MaxAnalyses
  BY OnTicket DEF ReviewInv, RestTyped, List
<1>2. 0 \notin shown /\ \A n \in shown : List[n].decision # "none"
  BY DEF ReviewInv, RestTyped, Decided
<1>3. Nothing \in Views
  BY BoundsAssumption DEF Views, Nothing
<1>4. Showable(Nothing)
  BY <1>1, <1>2, <1>3 DEF Showable, Nothing
<1>5. Showable(View(current))
  <2>1. CASE List = << >>
    BY <1>4, <2>1 DEF View, List
  <2>2. CASE List # << >>
    <3> DEFINE last == List[Len(List)]
               view == [n |-> Len(List), status |-> last.status, decided |-> last.decision # "none"]
    <3>1. Len(List) \in DOMAIN List /\ last \in Analysis
      <4> HIDE DEF List
      <4>1. Len(List) # 0
        BY <1>1, <2>2
      <4> QED
        BY <1>1, <4>1
    <3>2. View(current) = view
      BY <2>2 DEF View, Latest, List
    <3>3. last.status \in {"queued", "processing", "completed", "failed"}
      BY <3>1 DEF Analysis
    <3>4. view \in Views
      BY <1>1, <3>3 DEF Views
    <3>5. Len(List) \in shown => last.decision # "none"
      BY <1>2
    <3>6. Showable(view)
      <4>1. view.n = Len(List) /\ (view.decided <=> last.decision # "none")
        OBVIOUS
      <4>2. Len(List) \in Nat /\ Len(List) # 0
        BY <1>1, <3>1
      <4> HIDE DEF List, view
      <4> QED
        BY <3>1, <3>4, <3>5, <4>1, <4>2 DEF Showable
    <3> QED
      BY <3>2, <3>6
  <2> QED
    BY <2>1, <2>2
<1>6. Showable(seen)
  <2>1. seen.n \in Nat /\ seen \in Views
    BY DEF ReviewInv, RestTyped, Views
  <2>2. seen.n <= Len(List) /\ (seen.n = 0 => seen = Nothing)
    BY DEF ReviewInv, Panel
  <2>3. seen.n \in shown => seen.decided
    BY DEF ReviewInv, Panel
  <2>4. seen.decided => seen.n \in DOMAIN List /\ List[seen.n].decision # "none"
    BY DEF ReviewInv, Panel, Decided
  <2> QED
    BY <2>1, <2>2, <2>3, <2>4 DEF Showable
<1> QED
  BY <1>4, <1>5, <1>6

\* A decision under way stays so, whether or not its panel is there.
Same(i) ==
    /\ UnderWay(i) /\ sent'[i].phase = sent[i].phase /\ sent'[i].n = sent[i].n
    /\ sent'[i].known = sent[i].known /\ sent'[i].final = sent[i].final

\* A panel shows what it may show, and each decision under way is a new one or one that was.
LEMMA ShowReviews ==
    ASSUME IInv, ReviewInv, stage = "page", NEW view, Showable(view), Show(view),
           UNCHANGED submission, UNCHANGED followUp, UNCHANGED server,
           UNCHANGED <<accounted, skipped>>, filled' \in Classes \cup {NoClass},
           at' \in {"elsewhere", "ticket", "form"}, applied' \in BOOLEAN,
           sent' \in [Slots -> Sent],
           \A i \in Slots : UnderWay(i)' =>
               Same(i) \/ (sent'[i].phase = "sent" /\ sent'[i].n \in DOMAIN List \ sent'[i].known),
           crossed \subseteq crossed', crossed' \subseteq 1 .. MaxAnalyses, Crossing'
    PROVE  ReviewInv'
<1>1. /\ UNCHANGED <<concern, stage, photo, targets, uploaded, call, current, told>>
      /\ UNCHANGED <<late, lateCall, batch, uploadedIds, wasQueueingAi, requeue>>
      /\ UNCHANGED <<tickets, attached, analyses>>
      /\ List' = List
  BY DEF submission, followUp, uploader, server, List
<1>2. /\ List \in Seq(Analysis) /\ Len(List) \in Nat /\ DOMAIN List = 1 .. Len(List)
      /\ Len(List) <= MaxAnalyses
  BY OnTicket DEF ReviewInv, RestTyped, List
<1>3. seen' = view /\ shown' = IF view.decided THEN shown \cup {view.n} ELSE shown
  BY DEF Show
<1>4. view.decided => view.n \in DOMAIN List /\ List[view.n].decision # "none"
  BY DEF Showable
<1>5. RestTyped'
  <2>1. shown' \subseteq 1 .. MaxAnalyses
    <3>1. shown \subseteq 1 .. MaxAnalyses /\ MaxAnalyses \in Nat
      BY BoundsAssumption DEF ReviewInv, RestTyped
    <3>2. view.decided => view.n \in 1 .. MaxAnalyses
      <4> HIDE DEF List
      <4> QED
        BY <1>2, <1>4, <3>1
    <3> QED
      BY <1>3, <3>1, <3>2
  <2> QED
    BY <1>1, <1>3, <2>1 DEF ReviewInv, RestTyped, Showable
<1>6. Room' /\ PhotosAccounted' /\ Batch'
  <2>1. \A p : InAnalysis(p) => InAnalysis(p)'
    BY <1>1 DEF InAnalysis
  <2> QED
    BY <1>1, <2>1, AccountKept DEF ReviewInv, Room
<1>7. Panel'
  <2>1. /\ view.n = 0 => view = Nothing
        /\ view.n <= Len(List) /\ (view.n \in shown => view.decided)
    BY DEF Showable
  <2> HIDE DEF List
  <2> QED
    BY <1>1, <1>3, <2>1 DEF Panel
<1>8. Decided'
  BY <1>1, <1>3, <1>4 DEF ReviewInv, Decided
<1>9. Sending'
  <2> SUFFICES ASSUME NEW i \in Slots, UnderWay(i)'
               PROVE  (/\ sent[i].n \in DOMAIN List /\ sent[i].n \notin sent[i].known
                       /\ sent[i].phase = "done" => Recorded(sent[i].n, sent[i].final))'
    BY DEF Sending
  <2>1. CASE Same(i)
    <3>1. /\ sent[i].n \in DOMAIN List /\ sent[i].n \notin sent[i].known
          /\ sent[i].phase = "done" => Recorded(sent[i].n, sent[i].final)
      BY <2>1 DEF Same, ReviewInv, Sending
    <3> QED
      BY <1>1, <2>1, <3>1 DEF Same, Recorded
  <2>2. CASE sent'[i].phase = "sent" /\ sent'[i].n \in DOMAIN List \ sent'[i].known
    BY <1>1, <2>2
  <2> QED
    BY <2>1, <2>2
<1> QED
  BY <1>5, <1>6, <1>7, <1>8, <1>9 DEF ReviewInv

\* Without a new decision none have crossed anew.
LEMMA CrossingKept ==
    ASSUME ReviewInv, \A i \in Slots : UnderWay(i)' => Same(i), crossed' = crossed
    PROVE  Crossing' /\ crossed' \subseteq 1 .. MaxAnalyses
BY DEF ReviewInv, RestTyped, Crossing, Same

\* To show again what is shown changes nothing.
LEMMA ShownAgain ==
    ASSUME ReviewInv, UNCHANGED <<seen, shown>>
    PROVE  Show(seen)
BY DEF ReviewInv, Panel, Show

\* Off the page of the ticket there is no panel, and nothing is decided.
LEMMA OnPage ==
    ASSUME ReviewInv, at # "elsewhere" \/ \E i \in Slots : UnderWay(i)
    PROVE  stage = "page"
BY DEF ReviewInv, Panel

LEMMA PanelReviews ==
    ASSUME IInv, ReviewInv,
           (\E page \in concern.reviewed : OpenPanel(page)) \/ ClosePanel \/ Poll \/ Reload
    PROVE  ReviewInv'
<1>1. stage = "page"
  BY OnPage DEF OpenPanel, ClosePanel, Poll, Reload, Polling
<1>2. concern.reviewed \subseteq {"ticket", "form"}
  BY ConcernsAssumption DEF IInv, Typed
<1>3. /\ UNCHANGED submission /\ UNCHANGED followUp /\ UNCHANGED server
      /\ UNCHANGED <<accounted, skipped, crossed>>
      /\ sent' = sent \/ sent' = [i \in Slots |-> [sent[i] EXCEPT !.mine = FALSE]]
      /\ filled' \in {filled, NoClass} /\ applied' \in {applied, FALSE}
      /\ at' \in {"elsewhere", "ticket", "form"}
  BY <1>2 DEF OpenPanel, ClosePanel, Poll, Reload, history, ReviewInv, RestTyped
<1>4. PICK view \in {View(current), Nothing, seen} : Show(view)
  BY ShownAgain DEF OpenPanel, ClosePanel, Poll, Reload, history
<1>5. Showable(view)
  BY <1>1, Viewed
<1>6. filled' \in Classes \cup {NoClass} /\ applied' \in BOOLEAN
  BY <1>3 DEF ReviewInv, RestTyped
<1>7. sent' \in [Slots -> Sent] /\ \A i \in Slots : UnderWay(i)' => Same(i)
  <2>1. sent \in [Slots -> Sent]
    BY DEF ReviewInv, RestTyped
  <2>2. CASE sent' = sent
    BY <2>1, <2>2 DEF UnderWay, Same
  <2>3. CASE sent' = [i \in Slots |-> [sent[i] EXCEPT !.mine = FALSE]]
    <3>1. ASSUME NEW i \in Slots
          PROVE  /\ sent'[i] \in Sent /\ sent'[i].phase = sent[i].phase /\ sent'[i].n = sent[i].n
                 /\ sent'[i].known = sent[i].known /\ sent'[i].final = sent[i].final
      BY <2>1, <2>3 DEF Sent
    <3> QED
      BY <2>3, <3>1 DEF UnderWay, Same
  <2> QED
    BY <1>3, <2>2, <2>3
<1> QED
  BY <1>1, <1>3, <1>4, <1>5, <1>6, <1>7, CrossingKept, ShowReviews

\* A decision is made on an analysis the panel shows as completed and undecided.
LEMMA DecideReviews ==
    ASSUME IInv, IInv', ReviewInv, NEW i \in Slots, NEW d \in Decisions, NEW c \in Classes,
           Decide(i, d, c)
    PROVE  ReviewInv'
<1> DEFINE new == Decision(d, choice', c)
<1>1. /\ at # "elsewhere" /\ seen.status = "completed" /\ ~seen.decided
      /\ UNCHANGED submission /\ UNCHANGED followUp /\ UNCHANGED server
      /\ UNCHANGED <<at, seen, filled, applied, shown, accounted, skipped>>
      /\ sent' = [sent EXCEPT ![i] = new]
      /\ crossed' = IF \E j \in Slots : UnderWay(j) /\ sent[j].n = seen.n
                    THEN crossed \cup {seen.n} ELSE crossed
      /\ choice' \in Classes
  BY DEF Decide, showReviewActions, IInv, Typed
<1>2. seen # Nothing
  BY <1>1 DEF Nothing
<1>3. stage = "page"
  BY <1>1, OnPage
<1>4. seen.n \in DOMAIN List /\ seen.n \notin shown /\ seen.n \in 1 .. MaxAnalyses
  <2>1. /\ seen.n # 0 /\ seen.n <= Len(List) /\ seen.n \in 0 .. MaxAnalyses
        /\ seen.n \notin shown
    BY <1>1, <1>2, <1>3 DEF ReviewInv, Panel, RestTyped, Views
  <2>2. DOMAIN List = 1 .. Len(List) /\ Len(List) \in Nat
    BY <1>3, OnTicket
  <2> HIDE DEF List
  <2> QED
    BY <2>1, <2>2, BoundsAssumption
<1>5. /\ new \in Sent /\ new.phase = "sent" /\ new.n = seen.n /\ new.known = shown
  <2> DEFINE final == CASE d = "accepted" -> Recommended
                        [] d = "modified" -> choice'
                        [] d = "ignored" -> NoClass
             chosen == IF d = "modified" THEN c ELSE NoClass
  <2>1. final \in Classes \cup {NoClass} /\ chosen \in Classes \cup {NoClass}
    BY <1>1, RecommendedAssumption DEF Decisions
  <2>2. new = [phase |-> "sent", n |-> seen.n, decision |-> d, final |-> final,
               chosen |-> chosen, known |-> shown, from |-> at, mine |-> TRUE]
    BY DEF Decision
  <2>3. at \in {"ticket", "form"} /\ shown \subseteq 1 .. MaxAnalyses /\ seen.n \in 0 .. MaxAnalyses
    BY <1>1, <1>4 DEF ReviewInv, RestTyped
  <2> HIDE DEF final, chosen, new
  <2> QED
    BY <2>1, <2>2, <2>3 DEF Sent
<1> HIDE DEF new
<1>6. sent' \in [Slots -> Sent] /\ sent'[i] = new /\ \A j \in Slots : j # i => sent'[j] = sent[j]
  BY <1>1, <1>5 DEF ReviewInv, RestTyped
<1>7. \A j \in Slots : UnderWay(j)' =>
          Same(j) \/ (sent'[j].phase = "sent" /\ sent'[j].n \in DOMAIN List \ sent'[j].known)
  BY <1>4, <1>5, <1>6 DEF UnderWay, Same
<1>8. crossed \subseteq crossed' /\ crossed' \subseteq 1 .. MaxAnalyses
  BY <1>1, <1>4 DEF ReviewInv, RestTyped
<1>9. Crossing'
  <2> SUFFICES ASSUME NEW j \in Slots, NEW k \in Slots, j # k, UnderWay(j)', UnderWay(k)',
                      sent'[j].n = sent'[k].n
               PROVE  sent'[j].n \in crossed'
    BY DEF Crossing
  <2>1. CASE j # i /\ k # i
    BY <1>6, <1>8, <2>1 DEF ReviewInv, Crossing, UnderWay
  <2>2. CASE j = i \/ k = i
    <3>1. PICK m \in Slots : m # i /\ UnderWay(m)' /\ sent'[m].n = seen.n
      BY <1>5, <1>6, <2>2
    <3>2. UnderWay(m) /\ sent[m].n = seen.n
      BY <1>6, <3>1 DEF UnderWay
    <3>3. seen.n \in crossed'
      BY <1>1, <3>2
    <3> QED
      BY <1>5, <1>6, <2>2, <3>3
  <2> QED
    BY <2>1, <2>2
<1>10. Showable(seen) /\ Show(seen)
  BY <1>1, <1>3, Viewed, ShownAgain
<1>11. /\ filled' \in Classes \cup {NoClass} /\ at' \in {"elsewhere", "ticket", "form"}
       /\ applied' \in BOOLEAN
  BY <1>1 DEF ReviewInv, RestTyped
<1> QED
  BY <1>1, <1>3, <1>6, <1>7, <1>8, <1>9, <1>10, <1>11, ShowReviews

\* A decision that is answered, or given up, is not under way any more; the others are.
LEMMA DecisionEnds ==
    ASSUME ReviewInv, NEW i \in Slots,
           \/ sent' = [sent EXCEPT ![i] = NotSent]
           \/ sent' = [j \in Slots |-> IF j = i THEN NotSent
                                       ELSE [sent[j] EXCEPT !.mine = @ /\ at = "form"]]
    PROVE  sent' \in [Slots -> Sent] /\ \A j \in Slots : UnderWay(j)' => Same(j)
<1>1. sent \in [Slots -> Sent]
  BY DEF ReviewInv, RestTyped
<1>2. NotSent \in Sent /\ NotSent.phase = "none"
  BY BoundsAssumption DEF NotSent, Sent
<1>3. CASE sent' = [sent EXCEPT ![i] = NotSent]
  <2>1. sent' \in [Slots -> Sent] /\ \A j \in Slots : sent'[j] = IF j = i THEN NotSent ELSE sent[j]
    BY <1>1, <1>2, <1>3
  <2> QED
    BY <1>2, <2>1 DEF UnderWay, Same
<1>4. CASE sent' = [j \in Slots |-> IF j = i THEN NotSent
                                   ELSE [sent[j] EXCEPT !.mine = @ /\ at = "form"]]
  <2> DEFINE left(j) == [sent[j] EXCEPT !.mine = @ /\ at = "form"]
  <2>1. ASSUME NEW j \in Slots
        PROVE  /\ left(j) \in Sent /\ left(j).phase = sent[j].phase /\ left(j).n = sent[j].n
               /\ left(j).known = sent[j].known /\ left(j).final = sent[j].final
    <3> DEFINE mine == sent[j].mine /\ at = "form"
    <3>1. mine \in BOOLEAN
      OBVIOUS
    <3>2. left(j) = [sent[j] EXCEPT !.mine = mine]
      OBVIOUS
    <3> HIDE DEF left, mine
    <3> QED
      BY <1>1, <3>1, <3>2 DEF Sent
  <2>2. sent' = [j \in Slots |-> IF j = i THEN NotSent ELSE left(j)]
    BY <1>4
  <2> HIDE DEF left
  <2>3. sent' \in [Slots -> Sent]
    BY <1>2, <2>1, <2>2
  <2>4. ASSUME NEW j \in Slots, UnderWay(j)' PROVE Same(j)
    BY <1>2, <2>1, <2>2, <2>4 DEF UnderWay, Same
  <2> QED
    BY <2>3, <2>4
<1> QED
  BY <1>3, <1>4

LEMMA DecisionEndReviews ==
    ASSUME IInv, ReviewInv, NEW i \in Slots, DecisionAnswered(i) \/ DecisionFailed(i)
    PROVE  ReviewInv'
<1>1. /\ UnderWay(i)
      /\ UNCHANGED submission /\ UNCHANGED followUp /\ UNCHANGED server
      /\ UNCHANGED <<accounted, skipped, crossed>>
  BY DEF DecisionAnswered, DecisionFailed, UnderWay, history
<1>2. /\ \/ sent' = [sent EXCEPT ![i] = NotSent]
         \/ sent' = [j \in Slots |-> IF j = i THEN NotSent
                                     ELSE [sent[j] EXCEPT !.mine = @ /\ at = "form"]]
      /\ at' \in {at, "form"} /\ applied' \in {applied, TRUE}
      /\ filled' \in {filled, sent[i].final}
  BY DEF DecisionAnswered, DecisionFailed, OpenFilled, FillForm
<1>3. stage = "page"
  BY <1>1, OnPage
<1>4. PICK view \in {View(current), Nothing, seen} : Show(view)
  BY ShownAgain DEF DecisionAnswered, DecisionFailed, history
<1>5. Showable(view)
  BY <1>3, Viewed
<1>6. /\ filled' \in Classes \cup {NoClass} /\ at' \in {"elsewhere", "ticket", "form"}
      /\ applied' \in BOOLEAN
  BY <1>1, <1>2 DEF ReviewInv, RestTyped, IInv, Typed, SentTyped, UnderWay
<1>7. sent' \in [Slots -> Sent] /\ \A j \in Slots : UnderWay(j)' => Same(j)
  BY <1>2, DecisionEnds
<1> QED
  BY <1>1, <1>3, <1>4, <1>5, <1>6, <1>7, CrossingKept, ShowReviews


-----------------------------------------------------------------------------
LEMMA ReviewInit == Init => ReviewInv
<1> SUFFICES ASSUME Init PROVE ReviewInv
  OBVIOUS
<1>1. /\ concern \in Concerns /\ stage \in {"filling", "page"} /\ targets = {} /\ call = "none"
      /\ late = NoPhoto /\ lateCall = "none" /\ batch = {} /\ uploadedIds = {}
      /\ wasQueueingAi = FALSE /\ requeue = Idle /\ tickets = current
      /\ at = "elsewhere" /\ seen = Nothing /\ sent = [i \in Slots |-> NotSent]
      /\ filled = NoClass /\ applied = FALSE /\ told \in Outcomes
      /\ accounted = {} /\ skipped = {} /\ shown = {} /\ crossed = {}
  BY DEF Init, Outcomes
<1> DEFINE Rest == /\ targets \subseteq Photos /\ told \in Outcomes /\ lateCall \in Calls
                   /\ wasQueueingAi \in BOOLEAN
                   /\ at \in {"elsewhere", "ticket", "form"} /\ seen \in Views
                   /\ sent \in [Slots -> Sent]
<1>4. Rest /\ \A i \in Slots : ~UnderWay(i)
  <2>1. NotSent \in Sent /\ NotSent.phase = "none"
    BY BoundsAssumption DEF NotSent, Sent
  <2>2. Nothing \in Views
    BY BoundsAssumption DEF Views, Nothing
  <2> QED
    BY <1>1, <2>1, <2>2 DEF Calls, UnderWay
<1>5. Room /\ Batch /\ Sending /\ Crossing
  BY <1>1, <1>4 DEF Room, Batch, Sending, Crossing, Idle
<1> HIDE DEF Rest
<1>2. CASE stage = "filling"
  <2>1. /\ current = 0 /\ attached = [t \in Tickets |-> {}]
        /\ analyses = [t \in Tickets |-> << >>]
    BY <1>2 DEF Init
  <2>2. RestTyped
    <3>1. Len(<< >>) = 0 /\ 0 <= MaxAnalyses
      BY BoundsAssumption
    <3> QED
      BY <1>1, <1>4, <2>1, <3>1 DEF RestTyped, Rest
  <2>3. Panel
    BY <1>1, <1>2, <1>4 DEF Panel, Nothing
  <2>4. PhotosAccounted
    BY <1>1, <1>2, <2>1 DEF PhotosAccounted, Idle
  <2>5. Decided
    BY <1>1, <2>1 DEF Decided
  <2> QED
    BY <1>5, <2>2, <2>3, <2>4, <2>5 DEF ReviewInv
<1>3. CASE stage = "page"
  <2> DEFINE new == [status |-> "queued", photos |-> concern.photos, decision |-> "none",
                     final |-> NoClass, chosen |-> NoClass, by |-> "nobody"]
             first == Append(<< >>, new)
  <2>1. /\ current = 1 /\ attached = [t \in Tickets |-> IF t = 1 THEN concern.photos ELSE {}]
        /\ analyses = [t \in Tickets |-> IF t = 1 THEN first ELSE << >>]
    BY <1>3 DEF Init, queue_ticket_image_analysis, Active
  <2>2. new.photos = concern.photos /\ new.decision = "none"
    OBVIOUS
  <2> HIDE DEF new
  <2>3. Len(first) = 1 /\ DOMAIN first = {1} /\ first[1] = new
    OBVIOUS
  <2> HIDE DEF first
  <2>4. 1 \in Tickets /\ List = first
    BY <2>1, BoundsAssumption DEF Tickets, List
  <2>5. RestTyped
    <3>1. \A t \in Tickets : Len(analyses[t]) <= MaxAnalyses
      <4>1. Len(<< >>) = 0 /\ 0 <= MaxAnalyses /\ 1 <= MaxAnalyses
        BY BoundsAssumption
      <4>2. \A t \in Tickets : analyses[t] = first \/ analyses[t] = << >>
        BY <2>1
      <4> QED
        BY <2>3, <4>1, <4>2
    <3> QED
      BY <1>1, <1>4, <3>1 DEF RestTyped, Rest
  <2>6. Panel
    BY <1>1, <1>3, <2>3, <2>4 DEF Panel, Nothing
  <2>7. PhotosAccounted
    <3>1. \A p \in concern.photos : InAnalysis(p)
      BY <2>2, <2>3, <2>4 DEF InAnalysis
    <3>2. attached[current] = concern.photos /\ \A t \in Tickets : t > tickets => attached[t] = {}
      BY <1>1, <2>1, <2>4
    <3> QED
      BY <1>1, <1>3, <3>1, <3>2 DEF PhotosAccounted, Idle
  <2>8. Decided
    BY <1>1, <2>1, <2>2, <2>3 DEF Decided
  <2> QED
    BY <1>5, <2>5, <2>6, <2>7, <2>8 DEF ReviewInv
<1> QED
  BY <1>1, <1>2, <1>3

LEMMA ReviewNext == IInv /\ IInv' /\ ReviewInv /\ [Next]_vars => ReviewInv'
<1> SUFFICES ASSUME IInv, IInv', ReviewInv, [Next]_vars PROVE ReviewInv'
  OBVIOUS
<1>1. concern.photos \subseteq Photos
  BY ConcernsAssumption DEF IInv, Typed
<1>2. CASE Intake
  BY <1>1, <1>2, EditReviews, UploadNextReviews, UploadAnsweredReviews, SubmitReviews,
     CreateAnsweredReviews, CreateFailedReviews, UploadsTriedReviews, QueueAnsweredReviews,
     QueueFailedReviews, ArriveReviews, ServeReviews, FailReviews DEF Intake
<1>3. CASE Page
  BY <1>1, <1>3, UploadQueuedReviews, LateReviews, RequeueReviews, ServeRequeueReviews
     DEF Page
<1>4. CASE Work
  BY <1>4, WorkReviews
<1>5. CASE Review
  BY <1>5, PanelReviews, DecideReviews, ServeDecisionReviews, DecisionEndReviews, AnotherReviews
     DEF Review
<1>6. CASE UNCHANGED vars
  <2>1. /\ UNCHANGED submission /\ UNCHANGED followUp
        /\ UNCHANGED <<stage, targets, told, current, lateCall, wasQueueingAi, requeue>>
        /\ UNCHANGED <<tickets, attached, analyses, at, seen, sent, filled, applied>>
        /\ UNCHANGED <<accounted, skipped, shown, crossed>>
    BY <1>6 DEF vars, submission, followUp, uploader, server, review, history
  <2>2. RestTyped' /\ Room'
    BY <2>1 DEF ReviewInv, RestTyped, Room, List
  <2>3. \A p : InAnalysis(p) => InAnalysis(p)'
    BY <2>1 DEF InAnalysis, List
  <2> QED
    BY <2>1, <2>2, <2>3, AccountKept, PanelKept DEF ReviewInv
<1> QED
  BY <1>2, <1>3, <1>4, <1>5, <1>6 DEF Next

LEMMA ReviewInvariance == Spec => []ReviewInv
<1>1. Init => ReviewInv
  BY ReviewInit
<1>2. IInv /\ IInv' /\ ReviewInv /\ [Next]_vars => ReviewInv'
  BY ReviewNext
<1> QED
  BY <1>1, <1>2, Invariance, PTL DEF Spec

-----------------------------------------------------------------------------
\* Every variable of the form, the page, the server and the panel stays in its set.
THEOREM TypesOfIntake == Spec => []TypeOK
<1>1. IInv /\ ReviewInv => TypeOK
  BY DEF IInv, Typed, Stages, ReviewInv, RestTyped, Outcomes, TypeOK
<1> QED
  BY <1>1, Invariance, ReviewInvariance, PTL

\* On the page of a request at rest, every photo of the ticket is in an analysis, or the requester
\* was told that it is not, or it is of a batch that was started while the analysis of another was
\* being asked for: however many photos and batches there are, and in whatever order the requests
\* are carried out or lost.
THEOREM PhotosAreAccounted == Spec => []PhotosAnalysedOrTold
<1>1. ReviewInv /\ IInv => PhotosAnalysedOrTold
  <2> SUFFICES ASSUME ReviewInv, IInv, stage = "page", form = "requester", late = NoPhoto,
                      requeue = Idle, NEW p \in attached[current], p \notin accounted,
                      p \notin skipped
               PROVE  p \in UNION {List[n].photos : n \in DOMAIN List}
    BY DEF PhotosAnalysedOrTold, List
  <2>1. p \in Photos /\ requeue.photos = {}
    BY OnTicket DEF Idle
  <2>2. InAnalysis(p)
    BY <2>1, NamesAssumption DEF ReviewInv, PhotosAccounted, Batch
  <2> QED
    BY <2>2 DEF InAnalysis
<1> QED
  BY <1>1, Invariance, ReviewInvariance, PTL


\* Where a decision is recorded: on an analysis of the ticket that is completed, and nothing else
\* of it or of the others changes.
LEMMA Decides ==
    ASSUME IInv, current \in Tickets, NEW n \in DOMAIN List, NEW decision, NEW final, NEW chosen,
           NEW by, record_recommendation_decision(n, decision, final, chosen, by)
    PROVE  \A t \in Tickets : \A m \in DOMAIN analyses[t] :
               analyses'[t][m] # analyses[t][m] =>
                   t = current /\ m = n /\ analyses'[t][m].by = by
<1> DEFINE new == [List[n] EXCEPT !.decision = decision, !.final = final, !.chosen = chosen,
                                  !.by = by]
<1>1. analyses' = [analyses EXCEPT ![current][n] = new]
  BY DEF record_recommendation_decision, List
<1>2. List[n] \in Analysis
  <2>1. List \in Seq(Analysis)
    BY DEF IInv, Typed, List
  <2> HIDE DEF List
  <2> QED
    BY <2>1
<1>3. new.by = by
  BY <1>2 DEF Analysis
<1> HIDE DEF new
<1>4. /\ \A t \in Tickets : t # current => analyses'[t] = analyses[t]
      /\ analyses'[current][n] = new
      /\ \A m \in DOMAIN List : m # n => analyses'[current][m] = List[m]
  BY <1>1, RecordOnly
<1> QED
  BY <1>3, <1>4 DEF List

\* The steps that change the analyses of the ticket keep the decisions there are, but for the
\* reviewer's, whose record was not shown as decided when the decision was made.
LEMMA DecisionChanges ==
    ASSUME IInv, ReviewInv, Next
    PROVE  \A t \in Tickets : \A n \in DOMAIN analyses[t] :
               /\ analyses[t][n].decision # "none"
               /\ analyses'[t][n] # analyses[t][n]
               /\ analyses'[t][n].by = "reviewer"
               => \E i \in Slots : /\ sent'[i] # sent[i] /\ sent'[i].phase = "done"
                                   /\ n = sent[i].n /\ n \notin sent[i].known
<1> DEFINE Alike(t) == \A n \in DOMAIN analyses[t] : analyses'[t][n] = analyses[t][n]
<1>1. CASE UNCHANGED analyses
  BY <1>1
<1>2. CASE (Serve /\ stage = "queueing") \/ ServeRequeue
  <2>1. PICK photos \in SUBSET Photos :
            analyses' = [analyses EXCEPT ![current] = queue_ticket_image_analysis(@, photos)]
    BY <1>2 DEF Serve, ServeRequeue, IInv, Typed
  <2>2. current \in Tickets
    BY <1>2, OnTicket DEF ServeRequeue, IInv, FollowUp
  <2>3. \A t \in Tickets : Alike(t)
    BY <2>1, <2>2, QueuedOnly DEF List
  <2> QED
    BY <2>3
<1>3. CASE Work
  <2> DEFINE n == Len(List)
  <2>1. /\ current \in Tickets /\ List \in Seq(Analysis) /\ List # << >>
        /\ List[n].status \in {"queued", "processing"}
    BY <1>3 DEF Work, Active, List, IInv, Typed, Tickets
  <2>2. n \in DOMAIN List
    <3> HIDE DEF List
    <3> QED
      BY <2>1
  <2>3. List[n].decision = "none"
    BY <2>1, <2>2 DEF ReviewInv, Decided, List
  <2>4. PICK s : analyses' = [analyses EXCEPT ![current][n] = [@ EXCEPT !.status = s]]
    BY <1>3 DEF Work, List
  <2>5. analyses' = [analyses EXCEPT ![current][n] = [List[n] EXCEPT !.status = s]]
    BY <2>4 DEF List
  <2> DEFINE new == [List[n] EXCEPT !.status = s]
  <2> HIDE DEF n, new
  <2>6. /\ \A t \in Tickets : t # current => analyses'[t] = analyses[t]
        /\ \A m \in DOMAIN List : m # n => analyses'[current][m] = List[m]
    BY <2>1, <2>2, <2>5, RecordOnly DEF new
  <2> QED
    BY <2>3, <2>6 DEF List
<1>4. ASSUME NEW i \in Slots, ServeDecision(i)
      PROVE  /\ sent'[i] # sent[i] /\ sent'[i].phase = "done" /\ sent[i].n \notin sent[i].known
             /\ \A t \in Tickets : \A m \in DOMAIN analyses[t] :
                    analyses'[t][m] # analyses[t][m] => m = sent[i].n
  <2>1. UnderWay(i)
    BY <1>4 DEF ServeDecision, UnderWay
  <2>2. stage = "page" /\ sent[i].n \in DOMAIN List /\ sent[i].n \notin sent[i].known
    BY <2>1 DEF ReviewInv, Panel, Sending
  <2>3. current \in Tickets
    BY <2>2, OnTicket
  <2>4. record_recommendation_decision(sent[i].n, sent[i].decision, sent[i].final, sent[i].chosen,
                                       "reviewer")
    BY <1>4 DEF ServeDecision
  <2>5. sent'[i].phase = "done" /\ sent[i].phase = "sent"
    BY <1>4 DEF ServeDecision, ReviewInv, RestTyped, Sent
  <2> QED
    BY <2>2, <2>3, <2>4, <2>5, Decides
<1>5. ASSUME current # 0, NEW n \in DOMAIN analyses[current], NEW d \in {"accepted", "ignored"},
             DecidedByAnother(n, d)
      PROVE  \A t \in Tickets : \A m \in DOMAIN analyses[t] :
                 analyses'[t][m] # analyses[t][m] => analyses'[t][m].by = "another"
  <2>1. current \in Tickets /\ n \in DOMAIN List
    BY <1>5 DEF IInv, Typed, Tickets, List
  <2>2. PICK final : record_recommendation_decision(n, d, final, NoClass, "another")
    BY <1>5 DEF DecidedByAnother
  <2> QED
    BY <2>1, <2>2, Decides
<1>6. \/ UNCHANGED analyses \/ ServeRequeue \/ Work \/ \E i \in Slots : ServeDecision(i)
      \/ Serve /\ stage = "queueing"
      \/ /\ current # 0
         /\ \E n \in DOMAIN analyses[current], d \in {"accepted", "ignored"} :
                DecidedByAnother(n, d)
  <2>1. ASSUME Intake, analyses' # analyses PROVE Serve /\ stage = "queueing"
    <3>1. CASE Serve
      BY <2>1, <3>1 DEF Serve
    <3>2. CASE ~Serve
      BY <2>1, <3>2 DEF Intake, handleFiles, removeQueuedAttachment, UploadNext, UploadAnswered,
         Submit, CreateAnswered, CreateFailed, UploadsTried, QueueAnswered, QueueFailed, Arrive,
         Fail, server
    <3> QED
      BY <3>1, <3>2
  <2>2. ASSUME Page, analyses' # analyses PROVE ServeRequeue
    BY <2>2 DEF Page, uploadQueued, ServeLate, FailLate, LateAnswered, LateFailed, ReadAnalyses,
       FailRequeue, RequeueAnswered, server
  <2>3. ASSUME Review, analyses' # analyses, \A i \in Slots : ~ServeDecision(i)
        PROVE  /\ current # 0
               /\ \E n \in DOMAIN analyses[current], d \in {"accepted", "ignored"} :
                      DecidedByAnother(n, d)
    <3>1. /\ ~(\E page \in concern.reviewed : OpenPanel(page)) /\ ~ClosePanel /\ ~Poll /\ ~Reload
          /\ \A i \in Slots : ~DecisionAnswered(i) /\ ~DecisionFailed(i)
      BY <2>3 DEF OpenPanel, ClosePanel, Poll, Reload, DecisionAnswered, DecisionFailed, server
    <3>2. \A i, d, c : ~Decide(i, d, c)
      BY <2>3 DEF Decide, server
    <3> QED
      BY <2>3, <3>1, <3>2 DEF Review
  <2> QED
    BY <2>1, <2>2, <2>3 DEF Next
<1> QED
  BY <1>1, <1>2, <1>3, <1>4, <1>5, <1>6

\* A reviewer's decision replaces another one only when it was sent before a panel had shown that
\* one, for any number of analyses, of panels one after the other, of decisions under way and of
\* reloads.
THEOREM DecisionsStand == Spec => ShownDecisionStands
<1>1. ASSUME IInv, ReviewInv, [Next]_vars
      PROVE  [\A t \in Tickets : \A n \in DOMAIN analyses[t] :
                  /\ analyses[t][n].decision # "none"
                  /\ analyses'[t][n] # analyses[t][n]
                  /\ analyses'[t][n].by = "reviewer"
                  => \E i \in Slots : /\ sent'[i] # sent[i] /\ sent'[i].phase = "done"
                                      /\ n = sent[i].n /\ n \notin sent[i].known]_<<analyses, sent>>
  BY <1>1, DecisionChanges DEF vars, server, review
<1> QED
  BY <1>1, Invariance, ReviewInvariance, PTL DEF Spec, ShownDecisionStands

\* The edit form is filled when a decision that the server has recorded is answered, and with the
\* class on the record of that very analysis, unless another reviewer has decided on it or the
\* reviewer has sent two decisions on it that crossed: for any number of decisions under way, sent
\* from whichever page and answered in any order.
THEOREM FormFilledAsRecorded == Spec => FilledAsRecorded
<1> DEFINE Filling == filled' # filled /\ filled' # NoClass =>
               \E i \in Slots :
                   /\ sent[i].phase = "done" /\ sent'[i] = NotSent
                   /\ LET record == analyses[current][sent[i].n] IN
                      \/ record.by = "another" \/ sent[i].n \in crossed
                      \/ record.by = "reviewer" /\ record.final = filled'
<1>1. ASSUME IInv, ReviewInv, [Next]_vars PROVE [Filling]_vars
  <2> SUFFICES ASSUME filled' # filled, filled' # NoClass
               PROVE  \E i \in Slots : /\ sent[i].phase = "done" /\ sent'[i] = NotSent
                                       /\ Recorded(sent[i].n, filled')
    BY DEF Recorded, List
  <2>1. PICK i \in Slots : DecisionAnswered(i)
    BY <1>1 DEF vars, review, Next, Intake, Page, Work, Review, handleFiles,
       removeQueuedAttachment, UploadNext, UploadAnswered, Submit, CreateAnswered, CreateFailed,
       UploadsTried, QueueAnswered, QueueFailed, Arrive, Serve, Fail, uploadQueued, ServeLate,
       FailLate, LateAnswered, LateFailed, ReadAnalyses, ServeRequeue, FailRequeue,
       RequeueAnswered, OpenPanel, ClosePanel, Poll, Reload, Decide, ServeDecision, DecisionFailed,
       DecidedByAnother
  <2>2. sent[i].phase = "done" /\ filled' = sent[i].final
    BY <2>1 DEF DecisionAnswered, OpenFilled, FillForm
  <2>3. sent'[i] = NotSent
    <3>1. \/ sent' = [sent EXCEPT ![i] = NotSent]
          \/ \E f : sent' = [j \in Slots |-> IF j = i THEN NotSent ELSE f[j]]
      <4> DEFINE f == [j \in Slots |-> [sent[j] EXCEPT !.mine = @ /\ at = "form"]]
      <4>1. ASSUME OpenFilled(i) PROVE sent' = [j \in Slots |-> IF j = i THEN NotSent ELSE f[j]]
        BY <4>1, Zenon DEF OpenFilled
      <4> QED
        BY <2>1, <4>1 DEF DecisionAnswered, FillForm
    <3> QED
      BY <1>1, <3>1 DEF IInv, Typed, SentTyped
  <2>4. Recorded(sent[i].n, sent[i].final)
    BY <1>1, <2>2 DEF ReviewInv, Sending, UnderWay
  <2> QED
    BY <2>2, <2>3, <2>4
<1> QED
  BY <1>1, Invariance, ReviewInvariance, PTL DEF Spec, FilledAsRecorded

=============================================================================
