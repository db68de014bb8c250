------------------------- MODULE TicketIntake_proofs -------------------------
(***************************************************************************)
(* What the person who submits a concern is told, and how many tickets it  *)
(* becomes, for any concerns, photos and classes.                          *)
(*                                                                         *)
(* The counting rests on a submission starting with no ticket that is not  *)
(* excused (Counted); the promises about the photos on the ticket of the   *)
(* submission being fixed before the first upload (Placed) and still       *)
(* without analysis when theirs is asked for (AnalysesOfTickets).          *)
(***************************************************************************)
EXTENDS TicketIntake, SequenceTheorems, TLAPS

Stages == {"filling", "creating", "uploading", "queueing", "leaving", "page"}
Submitting == {"creating", "uploading", "queueing", "leaving"}

\* What a decision under way is to record.
SentTyped ==
    /\ DOMAIN sent = Slots
    /\ \A i \in Slots : /\ DOMAIN sent[i] = DOMAIN NotSent
                        /\ sent[i].phase # "none" =>
                               /\ sent[i].decision \in Decisions
                               /\ sent[i].final \in Classes \cup {NoClass}
                               /\ sent[i].chosen \in Classes \cup {NoClass}

\* The types of what the promises are about.
Typed ==
    /\ concern \in Concerns /\ stage \in Stages
    /\ photo \in [Photos -> PhotoStatuses] /\ uploaded \subseteq Photos
    /\ call \in Calls /\ guard \in BOOLEAN
    /\ current \in 0 .. MaxTickets /\ tickets \in 0 .. MaxTickets /\ excused \in Nat
    /\ attached \in [Tickets -> SUBSET Photos] /\ analyses \in [Tickets -> Seq(Analysis)]
    /\ requeue \in [phase : {"none", "reading", "sent", "done", "failed"}, photos : SUBSET Photos]
    /\ late \in Photos \cup {NoPhoto} /\ batch \subseteq Photos /\ uploadedIds \subseteq Photos
    /\ choice \in Classes /\ SentTyped

\* What is done on the page of a request, done only there.
FollowUp ==
    /\ lateCall # "none" => stage = "page" /\ late # NoPhoto
    /\ requeue.phase # "none" => stage = "page"

\* Until its creation is carried out, a submission has no ticket.
Counted ==
    /\ tickets <= 1 + excused
    /\ stage = "filling" \/ (stage = "creating" /\ call # "done") => tickets <= excused
    /\ stage = "creating" /\ call = "sent" => tickets < MaxTickets

\* The ticket of the submission.
Placed ==
    /\ current <= tickets
    /\ stage = "creating" /\ call = "done" => tickets # 0
    /\ stage \in {"uploading", "queueing", "leaving", "page"} => current # 0

\* One photo is uploaded at a time, and what the server has taken is on the ticket.
OneAtATime ==
    /\ \A p \in Photos : Uploading(p) => stage = "uploading" /\ call # "none"
    /\ \A p, q \in Photos : Uploading(p) /\ Uploading(q) => p = q
    /\ \A p \in Photos : Uploading(p) /\ call = "done" => p \in attached[current]

\* The requester's form keeps its guard, so that no photo is uploaded before it is submitted.
RequesterGuarded ==
    form = "requester" =>
        /\ stage \in Submitting => guard
        /\ stage \in {"filling", "creating"} => \A p \in Photos : photo[p] # "success"

\* The photos uploaded by this submission.
Uploads ==
    /\ stage = "creating" => uploaded = {}
    /\ stage \in {"uploading", "queueing", "leaving"} => uploaded \subseteq attached[current]
    /\ stage = "queueing" => uploaded # {}
    /\ stage = "leaving" /\ told = "unavailable" => uploaded # {}

\* A ticket has no analysis before the submission asks for one, and then one of its photos.
Analysed == analyses[current] # << >> /\ uploaded \subseteq analyses[current][1].photos

AnalysesOfTickets ==
    /\ \A t \in Tickets : t > tickets => analyses[t] = << >>
    /\ stage = "creating" /\ call = "done" => analyses[tickets] = << >>
    /\ stage = "uploading" \/ (stage = "queueing" /\ call = "sent") => analyses[current] = << >>
    /\ stage = "queueing" /\ call = "done" => Analysed
    /\ stage = "leaving" /\ told = "queued" => Analysed

IInv == /\ Typed /\ FollowUp /\ Counted /\ Placed /\ OneAtATime /\ RequesterGuarded
        /\ Uploads /\ AnalysesOfTickets /\ PhotosTogether

-----------------------------------------------------------------------------
\* What neither the form nor its ticket's photos and analyses notice.
Undisturbed ==
    /\ UNCHANGED submission /\ UNCHANGED <<tickets, excused>>
    /\ \A t \in Tickets : attached[t] \subseteq attached'[t]
    /\ \A t \in Tickets : /\ analyses'[t] = << >> <=> analyses[t] = << >>
                          /\ analyses[t] # << >> =>
                                 analyses'[t][1].photos = analyses[t][1].photos

LEMMA UndisturbedKeeps ==
    ASSUME IInv, Undisturbed, Typed', FollowUp'
    PROVE  IInv'
<1>1. /\ UNCHANGED <<concern, stage, guard, photo, uploaded, call, current, told, tickets, excused>>
      /\ \A t \in Tickets : attached[t] \subseteq attached'[t]
      /\ \A t \in Tickets : /\ analyses'[t] = << >> <=> analyses[t] = << >>
                            /\ analyses[t] # << >> =>
                                   analyses'[t][1].photos = analyses[t][1].photos
  BY DEF Undisturbed, submission
<1>2. current # 0 => current \in Tickets
  BY DEF IInv, Typed, Tickets
<1>3. tickets # 0 => tickets \in Tickets
  BY DEF IInv, Typed, Tickets
<1>4. Counted' /\ Placed'
  BY <1>1 DEF IInv, Counted, Placed
<1>5. OneAtATime'
  <2>1. \A p \in Photos : Uploading(p) => current # 0
    BY DEF IInv, OneAtATime, Placed
  <2> QED
    BY <1>1, <1>2, <2>1 DEF IInv, OneAtATime, Uploading
<1>6. RequesterGuarded'
  BY <1>1 DEF IInv, RequesterGuarded, form
<1>7. Uploads'
  BY <1>1, <1>2 DEF IInv, Uploads, Placed
<1>8. AnalysesOfTickets'
  BY <1>1, <1>2, <1>3 DEF IInv, AnalysesOfTickets, Analysed, Placed
<1>9. PhotosTogether'
  <2> SUFFICES ASSUME form' = "requester", NEW p \in Photos, photo'[p] = "success"
               PROVE  p \in attached'[current']
    BY DEF PhotosTogether
  <2>1. form = "requester" /\ photo[p] = "success"
    BY <1>1 DEF form
  <2>2. p \in attached[current]
    BY <2>1 DEF IInv, PhotosTogether
  <2>3. current # 0
    BY <2>1 DEF IInv, RequesterGuarded, Typed, Stages, Placed
  <2> QED
    BY <1>1, <1>2, <2>2, <2>3
<1> QED
  BY <1>4, <1>5, <1>6, <1>7, <1>8, <1>9 DEF IInv

\* What is recorded on an analysis leaves its photos.
LEMMA RecordKeeps ==
    ASSUME IInv, NEW n, NEW new,
           analyses' = [analyses EXCEPT ![current][n] = new],
           current \in Tickets /\ n \in DOMAIN analyses[current] =>
               new \in Analysis /\ new.photos = analyses[current][n].photos
    PROVE  /\ analyses' \in [Tickets -> Seq(Analysis)]
           /\ \A t \in Tickets : /\ analyses'[t] = << >> <=> analyses[t] = << >>
                                 /\ analyses[t] # << >> =>
                                        analyses'[t][1].photos = analyses[t][1].photos
<1> DEFINE list == analyses[current]
           list2 == [list EXCEPT ![n] = new]
<1>1. analyses \in [Tickets -> Seq(Analysis)]
  BY DEF IInv, Typed
<1>2. ASSUME current \in Tickets
      PROVE  /\ list2 \in Seq(Analysis) /\ (list2 = << >> <=> list = << >>)
             /\ list # << >> => list2[1].photos = list[1].photos
  <2>1. list \in Seq(Analysis)
    BY <1>1, <1>2
  <2>2. n \in DOMAIN list => new \in Analysis /\ new.photos = list[n].photos
    BY <1>2
  <2> HIDE DEF list
  <2>3. CASE n \in DOMAIN list
    <3>1. list2 \in Seq(Analysis) /\ Len(list2) = Len(list) /\ n \in 1 .. Len(list)
      BY <2>1, <2>2, <2>3, ExceptSeq
    <3>2. 1 \in 1 .. Len(list) => list2[1] = IF n = 1 THEN new ELSE list[1]
      BY <2>1, <2>2, <2>3, ExceptSeq
    <3> QED
      BY <2>1, <2>2, <2>3, <3>1, <3>2
  <2>4. CASE n \notin DOMAIN list
    <3>1. list = [k \in DOMAIN list |-> list[k]]
      BY <2>1
    <3>2. list2 = list
      BY <2>4, <3>1
    <3> QED
      BY <2>1, <3>2
  <2> QED
    BY <2>3, <2>4
<1>3. \A t \in Tickets : analyses'[t] = IF t = current THEN list2 ELSE analyses[t]
  BY <1>1
<1>4. DOMAIN analyses' = Tickets /\ analyses' = [t \in Tickets |-> analyses'[t]]
  BY <1>1
<1> HIDE DEF list2
<1> QED
  BY <1>1, <1>2, <1>3, <1>4

-----------------------------------------------------------------------------
\* The page of the request.
LEMMA TriedTyped ==
    ASSUME IInv, NEW ids \in SUBSET Photos, Tried(ids)
    PROVE  /\ late' \in Photos \cup {NoPhoto} /\ batch' \subseteq Photos
           /\ uploadedIds' \subseteq Photos
           /\ requeue' \in [phase : {"none", "reading", "sent", "done", "failed"},
                            photos : SUBSET Photos]
           /\ lateCall' # "none" => late' # NoPhoto
<1>1. /\ batch \subseteq Photos /\ uploadedIds \subseteq Photos
      /\ requeue \in [phase : {"none", "reading", "sent", "done", "failed"}, photos : SUBSET Photos]
  BY DEF IInv, Typed
<1>2. CASE batch # {}
  <2>1. PICK p \in batch : late' = p /\ lateCall' = "sent" /\ batch' = batch \ {p}
    BY <1>2 DEF Tried, uploadOne
  <2>2. uploadedIds' = ids /\ requeue' = requeue
    BY <1>2 DEF Tried
  <2> QED
    BY <1>1, <2>1, <2>2, NamesAssumption
<1>3. CASE batch = {}
  <2>1. /\ late' = NoPhoto /\ lateCall' = "none" /\ uploadedIds' = {} /\ batch' = batch
        /\ requeue' = requeue \/ requeue' = [phase |-> "reading", photos |-> ids]
    BY <1>3 DEF Tried, onUploaded
  <2>2. [phase |-> "reading", photos |-> ids] \in
            [phase : {"none", "reading", "sent", "done", "failed"}, photos : SUBSET Photos]
    OBVIOUS
  <2> QED
    BY <1>1, <2>1, <2>2
<1> QED
  BY <1>2, <1>3

LEMMA PageTyped ==
    ASSUME IInv,
           \/ \E files \in SUBSET concern.photos : uploadQueued(files)
           \/ ServeLate \/ FailLate \/ LateAnswered \/ LateFailed
           \/ ReadAnalyses \/ FailRequeue \/ RequeueAnswered
    PROVE  /\ late' \in Photos \cup {NoPhoto} /\ batch' \subseteq Photos
           /\ uploadedIds' \subseteq Photos
           /\ requeue' \in [phase : {"none", "reading", "sent", "done", "failed"},
                            photos : SUBSET Photos]
           /\ lateCall' # "none" => late' # NoPhoto /\ stage = "page"
           /\ requeue'.phase # "none" => stage = "page"
<1>1. /\ late \in Photos \cup {NoPhoto} /\ batch \subseteq Photos /\ uploadedIds \subseteq Photos
      /\ requeue \in [phase : {"none", "reading", "sent", "done", "failed"}, photos : SUBSET Photos]
      /\ lateCall # "none" => stage = "page" /\ late # NoPhoto
      /\ requeue.phase # "none" => stage = "page"
  BY DEF IInv, Typed, FollowUp
<1>2. ASSUME NEW files \in SUBSET concern.photos, uploadQueued(files)
      PROVE  /\ late' \in Photos /\ batch' \subseteq Photos /\ stage = "page"
             /\ UNCHANGED <<uploadedIds, requeue>>
  <2>1. concern.photos \subseteq Photos
    BY ConcernsAssumption DEF IInv, Typed
  <2>2. PICK p \in files : late' = p /\ batch' = files \ {p}
    BY <1>2 DEF uploadQueued, uploadOne
  <2> QED
    BY <1>2, <2>1, <2>2 DEF uploadQueued
<1>3. CASE ServeLate \/ FailLate
  <2>1. stage = "page" /\ late # NoPhoto /\ UNCHANGED <<late, batch, uploadedIds, requeue>>
    BY <1>1, <1>3 DEF ServeLate, FailLate
  <2> QED
    BY <1>1, <2>1
<1>4. CASE LateAnswered \/ LateFailed
  <2>1. late \in Photos /\ stage = "page"
    BY <1>1, <1>4 DEF LateAnswered, LateFailed
  <2>2. PICK ids \in SUBSET Photos : Tried(ids)
    BY <1>1, <1>4, <2>1 DEF LateAnswered, LateFailed
  <2> QED
    BY <2>1, <2>2, TriedTyped
<1>5. CASE ReadAnalyses \/ FailRequeue \/ RequeueAnswered
  <2>1. /\ UNCHANGED <<late, lateCall, batch, uploadedIds>> /\ requeue.phase # "none"
        /\ \/ requeue' = Idle
           \/ \E s \in {"sent", "failed"} : requeue' = [requeue EXCEPT !.phase = s]
    BY <1>5 DEF ReadAnalyses, FailRequeue, RequeueAnswered, uploader
  <2>2. Idle \in [phase : {"none", "reading", "sent", "done", "failed"}, photos : SUBSET Photos]
    BY DEF Idle
  <2>3. requeue' \in [phase : {"none", "reading", "sent", "done", "failed"},
                      photos : SUBSET Photos]
    BY <1>1, <2>1, <2>2
  <2> QED
    BY <1>1, <2>1, <2>3
<1> QED
  BY <1>1, <1>2, <1>3, <1>4, <1>5, NamesAssumption

LEMMA PageQuiet ==
    ASSUME IInv,
           \/ \E files \in SUBSET concern.photos : uploadQueued(files)
           \/ ServeLate \/ FailLate \/ LateAnswered \/ LateFailed
           \/ ReadAnalyses \/ FailRequeue \/ RequeueAnswered
    PROVE  IInv'
<1>1. /\ UNCHANGED submission /\ UNCHANGED <<tickets, excused, analyses, choice, sent>>
      /\ attached' = attached \/ (ServeLate /\ attached' = [attached EXCEPT ![current] = @ \cup {late}])
  BY DEF uploadQueued, ServeLate, FailLate, LateAnswered, LateFailed, ReadAnalyses, FailRequeue,
         RequeueAnswered, server, review, history
<1>2. FollowUp'
  BY <1>1, PageTyped DEF FollowUp, submission
<1>3. ServeLate => late \in Photos
  BY DEF IInv, Typed, FollowUp, ServeLate
<1>4. /\ attached' \in [Tickets -> SUBSET Photos]
      /\ \A t \in Tickets : attached[t] \subseteq attached'[t]
  <2>1. attached \in [Tickets -> SUBSET Photos]
    BY DEF IInv, Typed
  <2>2. CASE attached' = attached
    BY <2>1, <2>2
  <2>3. CASE late \in Photos /\ attached' = [attached EXCEPT ![current] = @ \cup {late}]
    BY <2>1, <2>3
  <2> QED
    BY <1>1, <1>3, <2>2, <2>3
<1>5. Typed'
  <2>1. SentTyped'
    BY <1>1 DEF IInv, Typed, SentTyped
  <2> QED
    BY <1>1, <1>4, <2>1, PageTyped DEF IInv, Typed, submission
<1>6. Undisturbed
  BY <1>1, <1>4 DEF Undisturbed
<1> QED
  BY <1>2, <1>5, <1>6, UndisturbedKeeps

\* An analysis asked for from the page: no submission is under way.
LEMMA RequeueServed ==
    ASSUME IInv, ServeRequeue
    PROVE  IInv'
<1>1. /\ stage = "page" /\ requeue.photos \subseteq Photos
      /\ UNCHANGED <<concern, stage, guard, photo, uploaded, call, current, told, late, lateCall,
                     batch, uploadedIds, tickets, attached, excused, choice, sent>>
      /\ requeue' = [requeue EXCEPT !.phase = "done"]
      /\ analyses' = [analyses EXCEPT ![current] = queue_ticket_image_analysis(@, requeue.photos)]
  BY DEF IInv, Typed, FollowUp, ServeRequeue, uploader, submission, review, history
<1>2. current \in Tickets /\ current <= tickets
  BY <1>1 DEF IInv, Typed, Placed, Tickets
<1>3. Typed'
  <2> DEFINE new == [status |-> "queued", photos |-> requeue.photos, decision |-> "none",
                     final |-> NoClass, chosen |-> NoClass, by |-> "nobody"]
  <2>1. new \in Analysis
    BY <1>1 DEF Analysis
  <2> HIDE DEF new
  <2>2. analyses[current] \in Seq(Analysis)
    BY <1>2 DEF IInv, Typed
  <2>3. Append(analyses[current], new) \in Seq(Analysis)
    BY <2>1, <2>2
  <2>4. queue_ticket_image_analysis(analyses[current], requeue.photos) \in Seq(Analysis)
    BY <2>2, <2>3 DEF queue_ticket_image_analysis, new
  <2>5. analyses' \in [Tickets -> Seq(Analysis)]
    BY <1>1, <2>4 DEF IInv, Typed
  <2> QED
    BY <1>1, <2>5 DEF IInv, Typed, SentTyped
<1>4. FollowUp'
  BY <1>1 DEF IInv, FollowUp
<1>5. Counted' /\ Placed'
  BY <1>1 DEF IInv, Counted, Placed
<1>6. OneAtATime'
  BY <1>1 DEF IInv, OneAtATime, Uploading
<1>7. RequesterGuarded' /\ PhotosTogether'
  BY <1>1 DEF IInv, RequesterGuarded, PhotosTogether, form
<1>8. Uploads'
  BY <1>1 DEF IInv, Uploads
<1>9. AnalysesOfTickets'
  <2>1. \A t \in Tickets : t > tickets => analyses'[t] = analyses[t]
    BY <1>1, <1>2 DEF IInv, Typed, Tickets
  <2> QED
    BY <1>1, <2>1 DEF IInv, AnalysesOfTickets
<1> QED
  BY <1>3, <1>4, <1>5, <1>6, <1>7, <1>8, <1>9 DEF IInv

-----------------------------------------------------------------------------
\* The analysis and its review.
LEMMA WorkKeeps ==
    ASSUME IInv, Work
    PROVE  IInv'
<1> DEFINE n == Len(analyses[current])
<1>1. PICK s \in {"processing", "completed", "failed"} :
          analyses' = [analyses EXCEPT ![current][n] = [@ EXCEPT !.status = s]]
  BY DEF Work
<1>2. /\ UNCHANGED <<submission, followUp>>
      /\ UNCHANGED <<tickets, attached, excused, choice, sent>>
  BY DEF Work, review, history
<1> DEFINE new == [analyses[current][n] EXCEPT !.status = s]
<1>3. current \in Tickets
  BY DEF IInv, Typed, Work, Tickets
<1>4. n \in DOMAIN analyses[current] => new \in Analysis /\ new.photos = analyses[current][n].photos
  <2>1. n \in DOMAIN analyses[current] => analyses[current][n] \in Analysis
    BY <1>3 DEF IInv, Typed
  <2> QED
    BY <2>1 DEF Analysis
<1>5. analyses' = [analyses EXCEPT ![current][n] = new]
  BY <1>1
<1> HIDE DEF n, new
<1>6. /\ analyses' \in [Tickets -> Seq(Analysis)]
      /\ \A t \in Tickets : /\ analyses'[t] = << >> <=> analyses[t] = << >>
                            /\ analyses[t] # << >> =>
                                   analyses'[t][1].photos = analyses[t][1].photos
  BY <1>4, <1>5, RecordKeeps
<1>7. Typed' /\ FollowUp'
  BY <1>2, <1>6 DEF IInv, Typed, FollowUp, submission, SentTyped, followUp, uploader
<1>8. Undisturbed
  BY <1>2, <1>6 DEF Undisturbed
<1> QED
  BY <1>7, <1>8, UndisturbedKeeps

\* A decision is sent, carried out or at its end, or its panel is gone.
LEMMA SentKeeps ==
    ASSUME IInv, DOMAIN sent' = Slots,
           \A i \in Slots :
               \/ sent'[i] = sent[i] \/ sent'[i] = NotSent
               \/ \E b : sent'[i] = [sent[i] EXCEPT !.mine = b]
               \/ sent[i].phase # "none" /\ sent'[i] = [sent[i] EXCEPT !.phase = "done"]
               \/ \E d \in Decisions, class, c \in Classes : sent'[i] = Decision(d, class, c)
    PROVE  SentTyped'
<1> SUFFICES ASSUME NEW i \in Slots
             PROVE  /\ DOMAIN sent'[i] = DOMAIN NotSent
                    /\ sent'[i].phase # "none" =>
                           /\ sent'[i].decision \in Decisions
                           /\ sent'[i].final \in Classes \cup {NoClass}
                           /\ sent'[i].chosen \in Classes \cup {NoClass}
  BY DEF SentTyped
<1>1. /\ DOMAIN sent[i] = DOMAIN NotSent
      /\ sent[i].phase # "none" => /\ sent[i].decision \in Decisions
                                   /\ sent[i].final \in Classes \cup {NoClass}
                                   /\ sent[i].chosen \in Classes \cup {NoClass}
  BY DEF IInv, Typed, SentTyped
<1>2. CASE sent'[i] = sent[i] \/ sent'[i] = NotSent
  <2>1. NotSent.phase = "none"
    BY DEF NotSent
  <2> QED
    BY <1>1, <1>2, <2>1
<1>3. ASSUME NEW b, sent'[i] = [sent[i] EXCEPT !.mine = b]
      PROVE  /\ DOMAIN sent'[i] = DOMAIN sent[i] /\ sent'[i].phase = sent[i].phase
             /\ sent'[i].decision = sent[i].decision /\ sent'[i].final = sent[i].final
             /\ sent'[i].chosen = sent[i].chosen
  BY <1>1, <1>3 DEF NotSent
<1>4. ASSUME sent[i].phase # "none", sent'[i] = [sent[i] EXCEPT !.phase = "done"]
      PROVE  /\ DOMAIN sent'[i] = DOMAIN sent[i]
             /\ sent'[i].decision = sent[i].decision /\ sent'[i].final = sent[i].final
             /\ sent'[i].chosen = sent[i].chosen
  BY <1>1, <1>4 DEF NotSent
<1>5. ASSUME NEW d \in Decisions, NEW class \in Classes, NEW c \in Classes,
             sent'[i] = Decision(d, class, c)
      PROVE  /\ DOMAIN sent'[i] = DOMAIN NotSent /\ sent'[i].decision \in Decisions
             /\ sent'[i].final \in Classes \cup {NoClass}
             /\ sent'[i].chosen \in Classes \cup {NoClass}
  <2> DEFINE final == CASE d = "accepted" -> Recommended
                        [] d = "modified" -> class
                        [] d = "ignored" -> NoClass
             chosen == IF d = "modified" THEN c ELSE NoClass
  <2>1. final \in Classes \cup {NoClass} /\ chosen \in Classes \cup {NoClass}
    BY RecommendedAssumption DEF Decisions
  <2>2. sent'[i] = [phase |-> "sent", n |-> seen.n, decision |-> d, final |-> final,
                    chosen |-> chosen, known |-> shown, from |-> at, mine |-> TRUE]
    BY <1>5 DEF Decision
  <2> HIDE DEF final, chosen
  <2> QED
    BY <2>1, <2>2 DEF NotSent
<1> QED
  BY <1>1, <1>2, <1>3, <1>4, <1>5

\* A decision that is recorded.
LEMMA DecisionRecorded ==
    ASSUME IInv, NEW n, NEW decision \in Decisions,
           NEW final \in Classes \cup {NoClass}, NEW chosen \in Classes \cup {NoClass},
           NEW by \in {"reviewer", "another"},
           record_recommendation_decision(n, decision, final, chosen, by),
           UNCHANGED submission, UNCHANGED followUp, UNCHANGED <<tickets, attached, excused>>,
           UNCHANGED choice, SentTyped'
    PROVE  IInv'
<1> DEFINE old == analyses[current][n]
           new == [old EXCEPT !.decision = decision, !.final = final, !.chosen = chosen, !.by = by]
<1>1. analyses' = [analyses EXCEPT ![current][n] = new]
  BY DEF record_recommendation_decision
<1>2. current \in Tickets /\ n \in DOMAIN analyses[current] =>
          new \in Analysis /\ new.photos = old.photos
  <2>1. current \in Tickets /\ n \in DOMAIN analyses[current] => old \in Analysis
    BY DEF IInv, Typed
  <2> QED
    BY <2>1 DEF Analysis
<1> HIDE DEF new
<1>3. /\ analyses' \in [Tickets -> Seq(Analysis)]
      /\ \A t \in Tickets : /\ analyses'[t] = << >> <=> analyses[t] = << >>
                            /\ analyses[t] # << >> =>
                                   analyses'[t][1].photos = analyses[t][1].photos
  BY <1>1, <1>2, RecordKeeps
<1>4. Typed'
  BY <1>3 DEF IInv, Typed, submission, followUp, uploader
<1>5. FollowUp'
  BY DEF IInv, FollowUp, submission, followUp, uploader
<1>6. Undisturbed
  BY <1>3 DEF Undisturbed
<1> QED
  BY <1>4, <1>5, <1>6, UndisturbedKeeps

LEMMA PanelKeeps ==
    ASSUME IInv,
           \/ (\E page \in concern.reviewed : OpenPanel(page)) \/ ClosePanel \/ Poll \/ Reload
           \/ \E i \in Slots :
                  \/ \E d \in Decisions, c \in Classes : Decide(i, d, c)
                  \/ DecisionAnswered(i) \/ DecisionFailed(i)
    PROVE  IInv'
<1>1. UNCHANGED submission /\ UNCHANGED followUp /\ UNCHANGED server /\ UNCHANGED excused
  BY DEF OpenPanel, ClosePanel, Poll, Reload, DecisionAnswered, DecisionFailed, Decide, history
<1>2. choice' \in Classes
  BY RecommendedAssumption DEF IInv, Typed, OpenPanel, ClosePanel, Poll, Reload, DecisionAnswered,
                               OpenFilled, FillForm, DecisionFailed, Decide, Picked
<1>3. DOMAIN sent = Slots
  BY DEF IInv, Typed, SentTyped
<1>4. SentTyped'
  <2>1. CASE (\E page \in concern.reviewed : OpenPanel(page)) \/ Poll \/ Reload
    <3>1. sent' = sent
      BY <2>1 DEF OpenPanel, Poll, Reload
    <3> QED
      BY <1>3, <3>1, SentKeeps
  <2>2. CASE ClosePanel
    <3>1. sent' = [i \in Slots |-> [sent[i] EXCEPT !.mine = FALSE]]
      BY <2>2 DEF ClosePanel
    <3> QED
      BY <3>1, SentKeeps
  <2>3. ASSUME NEW i \in Slots, NEW d \in Decisions, NEW c \in Classes, Decide(i, d, c)
        PROVE  SentTyped'
    <3>1. sent' = [sent EXCEPT ![i] = Decision(d, choice', c)]
      BY <2>3 DEF Decide
    <3>2. \A j \in Slots : sent'[j] = IF j = i THEN Decision(d, choice', c) ELSE sent[j]
      BY <1>3, <3>1
    <3>3. DOMAIN sent' = Slots
      BY <1>3, <3>1
    <3> QED
      BY <1>2, <3>2, <3>3, SentKeeps
  <2>4. ASSUME NEW i \in Slots, DecisionAnswered(i) \/ DecisionFailed(i)
        PROVE  SentTyped'
    <3>1. \/ sent' = [sent EXCEPT ![i] = NotSent]
          \/ sent' = [j \in Slots |-> IF j = i THEN NotSent
                                      ELSE [sent[j] EXCEPT !.mine = @ /\ at = "form"]]
      BY <2>4 DEF DecisionAnswered, DecisionFailed, OpenFilled, FillForm
    <3>2. CASE sent' = [sent EXCEPT ![i] = NotSent]
      <4>1. \A j \in Slots : sent'[j] = IF j = i THEN NotSent ELSE sent[j]
        BY <1>3, <3>2
      <4>2. DOMAIN sent' = Slots
        BY <1>3, <3>2
      <4> QED
        BY <4>1, <4>2, SentKeeps
    <3>3. CASE sent' = [j \in Slots |-> IF j = i THEN NotSent
                                       ELSE [sent[j] EXCEPT !.mine = @ /\ at = "form"]]
      BY <3>3, SentKeeps
    <3> QED
      BY <3>1, <3>2, <3>3
  <2> QED
    BY <2>1, <2>2, <2>3, <2>4
<1>5. Typed'
  BY <1>1, <1>2, <1>4 DEF IInv, Typed, submission, followUp, uploader, server
<1>6. FollowUp'
  BY <1>1 DEF IInv, FollowUp, submission, followUp, uploader
<1>7. Undisturbed
  BY <1>1 DEF Undisturbed, server
<1> QED
  BY <1>5, <1>6, <1>7, UndisturbedKeeps

LEMMA DecisionKeeps ==
    ASSUME IInv,
           \/ \E i \in Slots : ServeDecision(i)
           \/ \E n \in DOMAIN analyses[current], d \in {"accepted", "ignored"} : DecidedByAnother(n, d)
    PROVE  IInv'
<1>1. DOMAIN sent = Slots
  BY DEF IInv, Typed, SentTyped
<1>2. ASSUME NEW i \in Slots, ServeDecision(i)
      PROVE  IInv'
  <2>1. /\ sent[i].phase # "none" /\ sent' = [sent EXCEPT ![i].phase = "done"] /\ choice' = choice
        /\ record_recommendation_decision(sent[i].n, sent[i].decision, sent[i].final,
                                          sent[i].chosen, "reviewer")
        /\ UNCHANGED submission /\ UNCHANGED followUp /\ UNCHANGED <<tickets, attached, excused>>
    BY <1>2 DEF ServeDecision, history
  <2>2. /\ sent[i].decision \in Decisions /\ sent[i].final \in Classes \cup {NoClass}
        /\ sent[i].chosen \in Classes \cup {NoClass}
    BY <2>1 DEF IInv, Typed, SentTyped
  <2>3. SentTyped'
    <3>1. \A j \in Slots :
              sent'[j] = IF j = i THEN [sent[i] EXCEPT !.phase = "done"] ELSE sent[j]
      BY <1>1, <2>1
    <3>2. DOMAIN sent' = Slots
      BY <1>1, <2>1
    <3> QED
      BY <2>1, <3>1, <3>2, SentKeeps
  <2> QED
    BY <2>1, <2>2, <2>3, DecisionRecorded
<1>3. ASSUME NEW n, NEW d \in {"accepted", "ignored"}, DecidedByAnother(n, d)
      PROVE  IInv'
  <2> DEFINE final == IF d = "accepted" THEN Recommended ELSE NoClass
  <2>1. /\ sent' = sent /\ choice' = choice
        /\ record_recommendation_decision(n, d, final, NoClass, "another")
        /\ UNCHANGED submission /\ UNCHANGED followUp /\ UNCHANGED <<tickets, attached, excused>>
    BY <1>3 DEF DecidedByAnother, review, history
  <2>2. d \in Decisions /\ final \in Classes \cup {NoClass}
    BY RecommendedAssumption DEF Decisions
  <2>3. SentTyped'
    BY <1>1, <2>1, SentKeeps
  <2> HIDE DEF final
  <2> QED
    BY <2>1, <2>2, <2>3, DecisionRecorded
<1> QED
  BY <1>2, <1>3

-----------------------------------------------------------------------------
\* The form: nothing is done on the page of the request meanwhile.
LEMMA FormFollowUp ==
    ASSUME IInv, stage # "page", UNCHANGED followUp
    PROVE  FollowUp'
BY DEF IInv, FollowUp, followUp, uploader

LEMMA EditKeeps ==
    ASSUME IInv, NEW p \in Photos, handleFiles(p) \/ removeQueuedAttachment(p)
    PROVE  IInv'
<1>1. PICK s \in {"queued", "rejected", "absent"} : photo' = [photo EXCEPT ![p] = s]
  BY DEF handleFiles, removeQueuedAttachment
<1>2. /\ stage \in {"filling", "leaving"}
      /\ UNCHANGED <<concern, stage, guard, targets, uploaded, call, current, told>>
      /\ UNCHANGED <<followUp, server, review, history>>
  BY DEF handleFiles, removeQueuedAttachment, Editable
<1>3. /\ photo' \in [Photos -> PhotoStatuses]
      /\ \A q \in Photos : photo'[q] # photo[q] => photo'[q] \in {"queued", "rejected", "absent"}
  BY <1>1 DEF IInv, Typed, PhotoStatuses
<1>4. Typed'
  BY <1>2, <1>3 DEF IInv, Typed, SentTyped, followUp, uploader, server, review, history
<1>5. FollowUp'
  BY <1>2, FormFollowUp
<1>6. Counted' /\ Placed'
  BY <1>2 DEF IInv, Counted, Placed, server, history
<1>7. OneAtATime'
  BY <1>2, <1>3 DEF IInv, OneAtATime, Uploading, server
<1>8. RequesterGuarded' /\ PhotosTogether'
  BY <1>2, <1>3 DEF IInv, RequesterGuarded, PhotosTogether, form, server
<1>9. Uploads' /\ AnalysesOfTickets'
  BY <1>2 DEF IInv, Uploads, AnalysesOfTickets, Analysed, server
<1> QED
  BY <1>4, <1>5, <1>6, <1>7, <1>8, <1>9 DEF IInv

LEMMA SubmitKeeps ==
    ASSUME IInv, Submit
    PROVE  IInv'
<1>1. /\ stage \in {"filling", "leaving"} /\ ~guard
      /\ UNCHANGED <<concern, photo, targets, current>>
      /\ UNCHANGED <<followUp, server, review>>
  BY DEF Submit, Editable
<1>2. FollowUp'
  BY <1>1, FormFollowUp
<1>3. CASE hasRejected
  <2>1. told' = "rejected photos" /\ UNCHANGED <<stage, guard, call, uploaded, excused>>
    BY <1>3 DEF Submit
  <2>2. Typed'
    BY <1>1, <2>1 DEF IInv, Typed, SentTyped, followUp, uploader, server, review
  <2>3. Counted' /\ Placed' /\ OneAtATime'
    BY <1>1, <2>1 DEF IInv, Counted, Placed, OneAtATime, Uploading, server
  <2>4. RequesterGuarded' /\ PhotosTogether'
    BY <1>1, <2>1 DEF IInv, RequesterGuarded, PhotosTogether, form, server
  <2>5. Uploads' /\ AnalysesOfTickets'
    BY <1>1, <2>1 DEF IInv, Uploads, AnalysesOfTickets, Analysed, server
  <2> QED
    BY <1>2, <2>2, <2>3, <2>4, <2>5 DEF IInv
<1>4. CASE ~hasRejected
  <2>1. /\ tickets < MaxTickets
        /\ stage' = "creating" /\ guard' = (form = "requester") /\ call' = "sent"
        /\ uploaded' = {} /\ told' = "nothing"
        /\ excused' = excused + IF stage = "leaving" THEN 1 ELSE 0
    BY <1>4 DEF Submit
  <2>2. Typed'
    <3>1. excused' \in Nat /\ guard' \in BOOLEAN
      BY <2>1 DEF IInv, Typed
    <3>2. stage' \in Stages /\ call' \in Calls /\ uploaded' \subseteq Photos
      BY <2>1 DEF Stages, Calls
    <3> QED
      BY <1>1, <3>1, <3>2 DEF IInv, Typed, SentTyped, followUp, uploader, server, review
  <2>3. Counted'
    BY <1>1, <2>1 DEF IInv, Typed, Counted, server
  <2>4. Placed' /\ OneAtATime'
    BY <1>1, <2>1 DEF IInv, Placed, OneAtATime, Uploading, server
  <2>5. RequesterGuarded'
    <3>1. form = "requester" => stage = "filling"
      BY <1>1 DEF IInv, RequesterGuarded, Submitting
    <3>2. form' = form
      BY <1>1 DEF form
    <3>3. form = "requester" => guard'
      BY <2>1
    <3> QED
      BY <1>1, <3>1, <3>2, <3>3 DEF IInv, RequesterGuarded
  <2>6. PhotosTogether' /\ Uploads' /\ AnalysesOfTickets'
    BY <1>1, <2>1 DEF IInv, PhotosTogether, Uploads, AnalysesOfTickets, form, server
  <2> QED
    BY <1>2, <2>2, <2>3, <2>4, <2>5, <2>6 DEF IInv
<1> QED
  BY <1>3, <1>4

LEMMA CreateAnsweredKeeps ==
    ASSUME IInv, CreateAnswered
    PROVE  IInv'
<1>1. /\ stage = "creating" /\ call = "done" /\ call' = "none" /\ current' = tickets
      /\ guard' = guard
      /\ \/ stage' = "leaving" /\ told' = "not requested"
         \/ stage' = "uploading" /\ told' = told
      /\ UNCHANGED <<concern, photo, uploaded>>
      /\ UNCHANGED <<followUp, server, review, history>>
  BY DEF CreateAnswered, Leave
<1>2. uploaded = {} /\ tickets # 0 /\ analyses[tickets] = << >>
  BY <1>1 DEF IInv, Uploads, Placed, AnalysesOfTickets
<1>3. \A p \in Photos : ~Uploading(p)
  BY <1>1 DEF IInv, OneAtATime
<1>4. Typed'
  BY <1>1 DEF IInv, Typed, Stages, Calls, SentTyped, followUp, uploader, server, review, history
<1>5. FollowUp'
  BY <1>1, FormFollowUp
<1>6. Counted' /\ Placed'
  <2>1. /\ tickets' = tickets /\ excused' = excused /\ current' = tickets
        /\ stage' \in {"leaving", "uploading"}
    BY <1>1 DEF server, history
  <2>2. tickets \in Nat /\ tickets <= 1 + excused
    BY DEF IInv, Typed, Counted
  <2> QED
    BY <1>2, <2>1, <2>2 DEF Counted, Placed
<1>7. OneAtATime'
  BY <1>1, <1>3 DEF OneAtATime, Uploading
<1>8. RequesterGuarded' /\ PhotosTogether'
  BY <1>1 DEF IInv, RequesterGuarded, PhotosTogether, Submitting, form, server
<1>9. Uploads' /\ AnalysesOfTickets'
  BY <1>1, <1>2 DEF IInv, Uploads, AnalysesOfTickets, server
<1> QED
  BY <1>4, <1>5, <1>6, <1>7, <1>8, <1>9 DEF IInv

LEMMA CreateFailedKeeps ==
    ASSUME IInv, CreateFailed
    PROVE  IInv'
<1>1. /\ stage = "creating" /\ call = "failed" /\ stage' = "filling" /\ call' = "none"
      /\ told' = "not created" /\ guard' = FALSE
      /\ UNCHANGED <<concern, photo, targets, uploaded, current>>
      /\ UNCHANGED <<followUp, server, review, history>>
  BY DEF CreateFailed, BackToForm
<1>2. Typed'
  BY <1>1 DEF IInv, Typed, Stages, Calls, SentTyped, followUp, uploader, server, review, history
<1>3. FollowUp'
  BY <1>1, FormFollowUp
<1>4. Counted' /\ Placed' /\ OneAtATime'
  BY <1>1 DEF IInv, Counted, Placed, OneAtATime, Uploading, server, history
<1>5. RequesterGuarded' /\ PhotosTogether'
  BY <1>1 DEF IInv, RequesterGuarded, PhotosTogether, Submitting, form, server
<1>6. Uploads' /\ AnalysesOfTickets'
  BY <1>1 DEF IInv, Uploads, AnalysesOfTickets, server
<1> QED
  BY <1>2, <1>3, <1>4, <1>5, <1>6 DEF IInv

LEMMA UploadNextKeeps ==
    ASSUME IInv, NEW p \in Photos, UploadNext(p)
    PROVE  IInv'
<1>1. /\ stage = "uploading" /\ call = "none" /\ call' = "sent"
      /\ photo' = [photo EXCEPT ![p] = "uploading"]
      /\ UNCHANGED <<concern, stage, guard, targets, uploaded, current, told>>
      /\ UNCHANGED <<followUp, server, review, history>>
  BY DEF UploadNext
<1>2. /\ photo' \in [Photos -> PhotoStatuses]
      /\ \A q \in Photos : photo'[q] = IF q = p THEN "uploading" ELSE photo[q]
  BY <1>1 DEF IInv, Typed, PhotoStatuses
<1>3. Typed'
  BY <1>1, <1>2 DEF IInv, Typed, Calls, SentTyped, followUp, uploader, server, review, history
<1>4. FollowUp'
  BY <1>1, FormFollowUp
<1>5. Counted' /\ Placed'
  BY <1>1 DEF IInv, Counted, Placed, server, history
<1>6. OneAtATime'
  BY <1>1, <1>2 DEF IInv, OneAtATime, Uploading
<1>7. RequesterGuarded' /\ PhotosTogether'
  BY <1>1, <1>2 DEF IInv, RequesterGuarded, PhotosTogether, form, server
<1>8. Uploads' /\ AnalysesOfTickets'
  BY <1>1 DEF IInv, Uploads, AnalysesOfTickets, server
<1> QED
  BY <1>3, <1>4, <1>5, <1>6, <1>7, <1>8 DEF IInv

LEMMA UploadAnsweredKeeps ==
    ASSUME IInv, NEW p \in Photos, UploadAnswered(p)
    PROVE  IInv'
<1>1. /\ stage = "uploading" /\ Uploading(p) /\ call' = "none"
      /\ \/ /\ call = "done" /\ photo' = [photo EXCEPT ![p] = "success"]
            /\ uploaded' = uploaded \cup {p}
         \/ photo' = [photo EXCEPT ![p] = "error"] /\ uploaded' = uploaded
      /\ UNCHANGED <<concern, stage, guard, current, told>>
      /\ UNCHANGED <<followUp, server, review, excused>>
  BY DEF UploadAnswered
<1>2. /\ photo' \in [Photos -> PhotoStatuses]
      /\ \A q \in Photos : q # p => photo'[q] = photo[q]
      /\ photo'[p] \in {"success", "error"}
      /\ photo'[p] = "success" => call = "done"
  BY <1>1 DEF IInv, Typed, PhotoStatuses
<1>3. call = "done" => p \in attached[current]
  BY <1>1 DEF IInv, OneAtATime
<1>4. Typed'
  BY <1>1, <1>2 DEF IInv, Typed, Calls, SentTyped, followUp, uploader, server, review
<1>5. FollowUp'
  BY <1>1, FormFollowUp
<1>6. Counted' /\ Placed'
  BY <1>1 DEF IInv, Counted, Placed, server
<1>7. OneAtATime'
  <2>1. \A q \in Photos : photo'[q] # "uploading"
    BY <1>1, <1>2 DEF IInv, OneAtATime, Uploading
  <2> QED
    BY <2>1 DEF OneAtATime, Uploading
<1>8. RequesterGuarded'
  BY <1>1 DEF IInv, RequesterGuarded, form
<1>9. PhotosTogether'
  BY <1>1, <1>2, <1>3 DEF IInv, PhotosTogether, form, server
<1>10. Uploads' /\ AnalysesOfTickets'
  BY <1>1, <1>3 DEF IInv, Uploads, AnalysesOfTickets, server
<1> QED
  BY <1>4, <1>5, <1>6, <1>7, <1>8, <1>9, <1>10 DEF IInv

LEMMA UploadsTriedKeeps ==
    ASSUME IInv, UploadsTried
    PROVE  IInv'
<1>1. /\ stage = "uploading" /\ call = "none" /\ guard' = guard
      /\ \/ stage' = "queueing" /\ call' = "sent" /\ uploaded # {} /\ told' = told
         \/ stage' = "leaving" /\ call' = "none" /\ told' \notin {"queued", "unavailable"}
      /\ UNCHANGED <<concern, photo, targets, uploaded, current>>
      /\ UNCHANGED <<followUp, server, review, history>>
  BY DEF UploadsTried, Leave
<1>2. Typed'
  BY <1>1 DEF IInv, Typed, Stages, Calls, SentTyped, followUp, uploader, server, review, history
<1>3. FollowUp'
  BY <1>1, FormFollowUp
<1>4. Counted' /\ Placed' /\ OneAtATime'
  BY <1>1 DEF IInv, Counted, Placed, OneAtATime, Uploading, server, history
<1>5. RequesterGuarded' /\ PhotosTogether'
  BY <1>1 DEF IInv, RequesterGuarded, PhotosTogether, Submitting, form, server
<1>6. Uploads' /\ AnalysesOfTickets'
  BY <1>1 DEF IInv, Uploads, AnalysesOfTickets, server
<1> QED
  BY <1>2, <1>3, <1>4, <1>5, <1>6 DEF IInv

LEMMA QueueAnsweredKeeps ==
    ASSUME IInv, QueueAnswered
    PROVE  IInv'
<1>1. /\ stage = "queueing" /\ call = "done" /\ guard' = guard
      /\ stage' = "leaving" /\ call' = "none" /\ told' = "queued"
      /\ UNCHANGED <<concern, photo, targets, uploaded, current>>
      /\ UNCHANGED <<followUp, server, review, history>>
  BY DEF QueueAnswered, Leave
<1>2. Typed'
  BY <1>1 DEF IInv, Typed, Stages, Calls, SentTyped, followUp, uploader, server, review, history
<1>3. FollowUp'
  BY <1>1, FormFollowUp
<1>4. Counted' /\ Placed' /\ OneAtATime'
  BY <1>1 DEF IInv, Counted, Placed, OneAtATime, Uploading, server, history
<1>5. RequesterGuarded' /\ PhotosTogether'
  BY <1>1 DEF IInv, RequesterGuarded, PhotosTogether, Submitting, form, server
<1>6. Uploads' /\ AnalysesOfTickets'
  BY <1>1 DEF IInv, Uploads, AnalysesOfTickets, Analysed, server
<1> QED
  BY <1>2, <1>3, <1>4, <1>5, <1>6 DEF IInv

\* The staff's form counts on it that the ticket is there already.
LEMMA QueueFailedKeeps ==
    ASSUME IInv, QueueFailed
    PROVE  IInv'
<1>1. /\ stage = "queueing" /\ call = "failed" /\ call' = "none"
      /\ \/ /\ form = "requester" /\ stage' = "leaving" /\ told' = "unavailable"
            /\ guard' = guard /\ excused' = excused
         \/ /\ form # "requester" /\ stage' = "filling" /\ told' = "not created"
            /\ guard' = FALSE /\ excused' = excused + 1
      /\ UNCHANGED <<concern, photo, targets, uploaded, current>>
      /\ UNCHANGED <<followUp, server, review>>
  BY DEF QueueFailed, Leave, BackToForm
<1>2. Typed'
  <2>1. stage' \in Stages /\ call' \in Calls
    BY <1>1 DEF Stages, Calls
  <2>2. excused \in Nat /\ guard \in BOOLEAN
    BY DEF IInv, Typed
  <2>3. guard' \in BOOLEAN
    BY <1>1, <2>2
  <2>4. excused' \in Nat
    <3>1. excused' = excused \/ excused' = excused + 1
      BY <1>1
    <3> QED
      BY <2>2, <3>1
  <2> QED
    BY <1>1, <2>1, <2>3, <2>4 DEF IInv, Typed, SentTyped, followUp, uploader, server, review
<1>3. FollowUp'
  BY <1>1, FormFollowUp
<1>4. Counted'
  <2>1. \/ stage' = "leaving" /\ excused' = excused
        \/ stage' = "filling" /\ excused' = excused + 1
    BY <1>1
  <2>2. tickets' = tickets
    BY <1>1 DEF server
  <2>3. tickets \in Nat /\ excused \in Nat /\ tickets <= 1 + excused
    BY DEF IInv, Typed, Counted
  <2> QED
    BY <2>1, <2>2, <2>3 DEF Counted
<1>5. Placed' /\ OneAtATime'
  BY <1>1 DEF IInv, Placed, OneAtATime, Uploading, server
<1>6. RequesterGuarded' /\ PhotosTogether'
  BY <1>1 DEF IInv, RequesterGuarded, PhotosTogether, Submitting, form, server
<1>7. Uploads' /\ AnalysesOfTickets'
  BY <1>1 DEF IInv, Uploads, AnalysesOfTickets, server
<1> QED
  BY <1>2, <1>3, <1>4, <1>5, <1>6, <1>7 DEF IInv

LEMMA ArriveKeeps ==
    ASSUME IInv, Arrive
    PROVE  IInv'
<1>1. /\ stage = "leaving" /\ stage' = "page" /\ photo' = [p \in Photos |-> "absent"]
      /\ uploaded' = {} /\ guard' = FALSE
      /\ UNCHANGED <<concern, call, current, told>>
      /\ UNCHANGED <<followUp, server, review, history>>
  BY DEF Arrive
<1>2. Typed'
  BY <1>1 DEF IInv, Typed, Stages, PhotoStatuses, SentTyped, followUp, uploader, server, review, history
<1>3. FollowUp'
  BY <1>1, FormFollowUp
<1>4. Counted' /\ Placed' /\ OneAtATime'
  BY <1>1 DEF IInv, Counted, Placed, OneAtATime, Uploading, server, history
<1>5. RequesterGuarded' /\ PhotosTogether'
  BY <1>1 DEF RequesterGuarded, PhotosTogether, Submitting
<1>6. Uploads' /\ AnalysesOfTickets'
  BY <1>1 DEF IInv, Uploads, AnalysesOfTickets, server
<1> QED
  BY <1>2, <1>3, <1>4, <1>5, <1>6 DEF IInv

-----------------------------------------------------------------------------
\* The server's part.
LEMMA ServeKeeps ==
    ASSUME IInv, Serve
    PROVE  IInv'
<1>1. /\ call = "sent" /\ call' = "done"
      /\ UNCHANGED <<concern, stage, guard, photo, targets, uploaded, current, told>>
      /\ UNCHANGED <<followUp, review, history>>
      /\ stage \in {"creating", "uploading", "queueing"}
  BY DEF Serve
<1>2. FollowUp'
  BY <1>1, FormFollowUp
<1>3. /\ tickets \in Nat /\ current \in Nat /\ current <= tickets /\ excused' = excused
      /\ stage \in {"uploading", "queueing"} => current \in Tickets
  BY <1>1 DEF IInv, Typed, Placed, Tickets, history
<1>4. CASE stage = "creating"
  <2>1. tickets' = tickets + 1 /\ UNCHANGED <<attached, analyses>>
    BY <1>4 DEF Serve
  <2>2. tickets < MaxTickets /\ tickets <= excused
    BY <1>1, <1>4 DEF IInv, Counted
  <2>3. Typed'
    <3>1. tickets' \in 0 .. MaxTickets
      BY <1>3, <2>1, <2>2, BoundsAssumption
    <3> QED
      BY <1>1, <2>1, <3>1 DEF IInv, Typed, Calls, SentTyped, followUp, uploader, review, history
  <2>4. Counted' /\ Placed'
    <3>1. tickets' <= 1 + excused /\ current' <= tickets' /\ tickets' # 0
      BY <1>1, <1>3, <2>1, <2>2 DEF IInv, Typed
    <3> QED
      BY <1>1, <1>3, <1>4, <3>1 DEF Counted, Placed
  <2>5. OneAtATime'
    BY <1>1, <1>4 DEF IInv, OneAtATime, Uploading
  <2>6. RequesterGuarded' /\ PhotosTogether' /\ Uploads'
    BY <1>1, <1>4, <2>1 DEF IInv, RequesterGuarded, PhotosTogether, Uploads, form
  <2>7. AnalysesOfTickets'
    <3>1. \A t \in Tickets : t > tickets' => analyses'[t] = << >>
      BY <1>3, <2>1 DEF IInv, AnalysesOfTickets, Tickets
    <3>2. analyses'[tickets'] = << >>
      <4>1. tickets' \in Tickets /\ tickets' > tickets
        BY <1>3, <2>1, <2>2, BoundsAssumption DEF Tickets
      <4> QED
        BY <2>1, <4>1 DEF IInv, AnalysesOfTickets
    <3> QED
      BY <1>1, <1>4, <3>1, <3>2 DEF AnalysesOfTickets
  <2> QED
    BY <1>2, <2>3, <2>4, <2>5, <2>6, <2>7 DEF IInv
<1>5. CASE stage = "uploading"
  <2>1. /\ attached' = [attached EXCEPT ![current] = @ \cup {p \in Photos : Uploading(p)}]
        /\ UNCHANGED <<tickets, analyses>>
    BY <1>5 DEF Serve
  <2>2. /\ attached' \in [Tickets -> SUBSET Photos]
        /\ attached'[current] = attached[current] \cup {p \in Photos : Uploading(p)}
    BY <1>3, <1>5, <2>1 DEF IInv, Typed
  <2>3. Typed'
    BY <1>1, <2>1, <2>2 DEF IInv, Typed, Calls, SentTyped, followUp, uploader, review, history
  <2>4. Counted' /\ Placed'
    BY <1>1, <1>3, <1>5, <2>1 DEF IInv, Counted, Placed
  <2>5. OneAtATime'
    BY <1>1, <2>2 DEF IInv, OneAtATime, Uploading
  <2>6. RequesterGuarded' /\ PhotosTogether'
    BY <1>1, <2>2 DEF IInv, RequesterGuarded, PhotosTogether, form
  <2>7. Uploads' /\ AnalysesOfTickets'
    BY <1>1, <1>5, <2>1, <2>2 DEF IInv, Uploads, AnalysesOfTickets
  <2> QED
    BY <1>2, <2>3, <2>4, <2>5, <2>6, <2>7 DEF IInv
<1>6. CASE stage = "queueing"
  <2> DEFINE new == [status |-> "queued", photos |-> uploaded, decision |-> "none",
                     final |-> NoClass, chosen |-> NoClass, by |-> "nobody"]
  <2>1. /\ analyses' = [analyses EXCEPT ![current] = queue_ticket_image_analysis(@, uploaded)]
        /\ UNCHANGED <<tickets, attached>>
    BY <1>6 DEF Serve
  <2>2. analyses[current] = << >>
    BY <1>1, <1>6 DEF IInv, AnalysesOfTickets
  <2>3. new \in Analysis /\ new.photos = uploaded
    BY DEF Analysis, IInv, Typed
  <2>4. queue_ticket_image_analysis(analyses[current], uploaded) = Append(<< >>, new)
    BY <2>2 DEF queue_ticket_image_analysis, Active
  <2> HIDE DEF new
  <2>5. /\ Append(<< >>, new) \in Seq(Analysis) /\ Append(<< >>, new) # << >>
        /\ Append(<< >>, new)[1] = new
    BY <2>3
  <2>6. /\ analyses' \in [Tickets -> Seq(Analysis)]
        /\ \A t \in Tickets : t # current => analyses'[t] = analyses[t]
        /\ analyses'[current] # << >> /\ analyses'[current][1].photos = uploaded
    BY <1>3, <1>6, <2>1, <2>3, <2>4, <2>5 DEF IInv, Typed
  <2>7. Typed'
    BY <1>1, <2>1, <2>6 DEF IInv, Typed, Calls, SentTyped, followUp, uploader, review, history
  <2>8. Counted' /\ Placed'
    BY <1>1, <1>3, <1>6, <2>1 DEF IInv, Counted, Placed
  <2>9. OneAtATime'
    BY <1>1, <1>6 DEF IInv, OneAtATime, Uploading
  <2>10. RequesterGuarded' /\ PhotosTogether' /\ Uploads'
    BY <1>1, <2>1 DEF IInv, RequesterGuarded, PhotosTogether, Uploads, form
  <2>11. AnalysesOfTickets'
    <3>1. \A t \in Tickets : t > tickets' => analyses'[t] = << >>
      BY <1>3, <1>6, <2>1, <2>6 DEF IInv, AnalysesOfTickets, Tickets
    <3>2. Analysed'
      BY <1>1, <2>6 DEF Analysed
    <3> QED
      BY <1>1, <1>6, <3>1, <3>2 DEF AnalysesOfTickets
  <2> QED
    BY <1>2, <2>7, <2>8, <2>9, <2>10, <2>11 DEF IInv
<1> QED
  BY <1>1, <1>4, <1>5, <1>6

LEMMA FailKeeps ==
    ASSUME IInv, Fail
    PROVE  IInv'
<1>1. /\ call \in {"sent", "done"} /\ call' = "failed"
      /\ excused' = excused + IF stage = "creating" /\ call = "done" THEN 1 ELSE 0
      /\ UNCHANGED <<concern, stage, guard, photo, targets, uploaded, current, told>>
      /\ UNCHANGED <<followUp, server, review>>
  BY DEF Fail
<1>2. Typed'
  <2>1. excused' \in Nat /\ call' \in Calls
    BY <1>1 DEF IInv, Typed, Calls
  <2> QED
    BY <1>1, <2>1 DEF IInv, Typed, SentTyped, followUp, uploader, server, review
<1>3. FollowUp'
  BY <1>1 DEF IInv, FollowUp, followUp, uploader
<1>4. Counted'
  <2>1. /\ tickets' = tickets /\ tickets \in Nat /\ excused \in Nat /\ tickets <= 1 + excused
        /\ excused' = excused \/ excused' = excused + 1
    BY <1>1 DEF IInv, Typed, Counted, server
  <2>2. tickets <= 1 + excused'
    BY <2>1
  <2>3. stage = "filling" \/ stage = "creating" => tickets <= excused'
    <3>1. CASE stage = "creating" /\ call = "done"
      BY <1>1, <2>1, <3>1
    <3>2. CASE ~(stage = "creating" /\ call = "done")
      BY <1>1, <2>1, <3>2 DEF IInv, Counted
    <3> QED
      BY <3>1, <3>2
  <2> QED
    BY <1>1, <2>1, <2>2, <2>3 DEF Counted
<1>5. Placed' /\ OneAtATime'
  BY <1>1 DEF IInv, Placed, OneAtATime, Uploading, server
<1>6. RequesterGuarded' /\ PhotosTogether'
  BY <1>1 DEF IInv, RequesterGuarded, PhotosTogether, form, server
<1>7. Uploads' /\ AnalysesOfTickets'
  BY <1>1 DEF IInv, Uploads, AnalysesOfTickets, Analysed, server
<1> QED
  BY <1>2, <1>3, <1>4, <1>5, <1>6, <1>7 DEF IInv

-----------------------------------------------------------------------------
LEMMA InitInv == Init => IInv
<1> SUFFICES ASSUME Init PROVE IInv
  OBVIOUS
<1>1. /\ concern \in Concerns /\ stage \in {"filling", "page"} /\ guard = FALSE
      /\ photo = [p \in Photos |-> "absent"] /\ uploaded = {} /\ call = "none"
      /\ late = NoPhoto /\ lateCall = "none" /\ batch = {} /\ uploadedIds = {} /\ requeue = Idle
      /\ tickets = current /\ excused = 0 /\ choice = Recommended
      /\ sent = [i \in Slots |-> NotSent]
      /\ concern.photos \subseteq Photos
  BY ConcernsAssumption DEF Init
<1>2. current = (IF stage = "filling" THEN 0 ELSE 1)
  BY DEF Init
<1>3. /\ attached \in [Tickets -> SUBSET Photos] /\ analyses \in [Tickets -> Seq(Analysis)]
      /\ \A t \in Tickets : t > current => analyses[t] = << >>
  <2> DEFINE new == [status |-> "queued", photos |-> concern.photos, decision |-> "none",
                     final |-> NoClass, chosen |-> NoClass, by |-> "nobody"]
             first == queue_ticket_image_analysis(<< >>, concern.photos)
  <2>1. new \in Analysis
    BY <1>1 DEF Analysis
  <2>2. first = Append(<< >>, new)
    BY DEF queue_ticket_image_analysis, Active
  <2> HIDE DEF new
  <2>3. first \in Seq(Analysis)
    <3>1. Append(<< >>, new) \in Seq(Analysis)
      BY <2>1
    <3> QED
      BY <2>2, <3>1
  <2> HIDE DEF first
  <2>4. CASE stage = "filling"
    <3>1. attached = [t \in Tickets |-> {}] /\ analyses = [t \in Tickets |-> << >>]
      BY <2>4 DEF Init
    <3>2. << >> \in Seq(Analysis)
      OBVIOUS
    <3> QED
      BY <3>1, <3>2
  <2>5. CASE stage = "page"
    <3>1. /\ attached = [t \in Tickets |-> IF t = 1 THEN concern.photos ELSE {}]
          /\ analyses = [t \in Tickets |-> IF t = 1 THEN first ELSE << >>]
      BY <2>5 DEF Init, first
    <3>2. << >> \in Seq(Analysis)
      OBVIOUS
    <3>3. current = 1
      BY <1>2, <2>5
    <3> QED
      BY <1>1, <2>3, <3>1, <3>2, <3>3 DEF Tickets
  <2> QED
    BY <1>1, <2>4, <2>5
<1>4. Typed
  <2>1. /\ stage \in Stages /\ call \in Calls /\ photo \in [Photos -> PhotoStatuses]
        /\ requeue \in [phase : {"none", "reading", "sent", "done", "failed"},
                        photos : SUBSET Photos]
    BY <1>1 DEF Stages, Calls, PhotoStatuses, Idle
  <2>2. current \in 0 .. MaxTickets
    BY <1>2, BoundsAssumption
  <2>3. SentTyped
    BY <1>1 DEF SentTyped, NotSent
  <2> QED
    BY <1>1, <1>3, <2>1, <2>2, <2>3, RecommendedAssumption DEF Typed
<1>5. FollowUp
  BY <1>1 DEF FollowUp, Idle
<1>6. Counted /\ Placed
  BY <1>1, <1>2 DEF Counted, Placed
<1>7. OneAtATime
  BY <1>1 DEF OneAtATime, Uploading
<1>8. RequesterGuarded /\ PhotosTogether
  BY <1>1 DEF RequesterGuarded, PhotosTogether, Submitting
<1>9. Uploads /\ AnalysesOfTickets
  BY <1>1, <1>3 DEF Uploads, AnalysesOfTickets
<1> QED
  BY <1>4, <1>5, <1>6, <1>7, <1>8, <1>9 DEF IInv

LEMMA NextInv == IInv /\ [Next]_vars => IInv'
<1> SUFFICES ASSUME IInv, [Next]_vars PROVE IInv'
  OBVIOUS
<1>1. CASE Intake
  <2>1. concern.photos \subseteq Photos
    BY ConcernsAssumption DEF IInv, Typed
  <2> QED
    BY <1>1, <2>1, EditKeeps, UploadNextKeeps, UploadAnsweredKeeps, SubmitKeeps,
       CreateAnsweredKeeps, CreateFailedKeeps, UploadsTriedKeeps, QueueAnsweredKeeps,
       QueueFailedKeeps, ArriveKeeps, ServeKeeps, FailKeeps DEF Intake
<1>2. CASE Page
  BY <1>2, PageQuiet, RequeueServed DEF Page
<1>3. CASE Work
  BY <1>3, WorkKeeps
<1>4. CASE Review
  BY <1>4, PanelKeeps, DecisionKeeps DEF Review
<1>5. CASE UNCHANGED vars
  <2>1. /\ UNCHANGED submission /\ UNCHANGED followUp /\ UNCHANGED server /\ UNCHANGED excused
        /\ UNCHANGED choice /\ UNCHANGED sent
    BY <1>5 DEF vars, review, history
  <2>2. Typed'
    BY <2>1 DEF IInv, Typed, submission, SentTyped, followUp, uploader, server
  <2>3. FollowUp'
    BY <2>1 DEF IInv, FollowUp, submission, followUp, uploader
  <2>4. Undisturbed
    BY <2>1 DEF Undisturbed, server
  <2> QED
    BY <2>2, <2>3, <2>4, UndisturbedKeeps
<1> QED
  BY <1>1, <1>2, <1>3, <1>4, <1>5 DEF Next

LEMMA Invariance == Spec => []IInv
<1>1. Init => IInv
  BY InitInv
<1>2. IInv /\ [Next]_vars => IInv'
  BY NextInv
<1> QED
  BY <1>1, <1>2, PTL DEF Spec

-----------------------------------------------------------------------------
\* A concern becomes more tickets than one only for the reasons that are counted, however many
\* photos there are and however often it is submitted.
THEOREM OneTicket == Spec => []OneTicketPerConcern
<1>1. IInv => OneTicketPerConcern
  BY DEF IInv, Counted, OneTicketPerConcern
<1> QED
  BY <1>1, Invariance, PTL

\* A photo that the requester's form shows as uploaded is on the ticket the form leads to.
THEOREM PhotosAreTogether == Spec => []PhotosTogether
<1>1. IInv => PhotosTogether
  BY DEF IInv
<1> QED
  BY <1>1, Invariance, PTL

\* Who is told that the analysis is queued, or that it is unavailable, leaves for a ticket of
\* which that is true of every photo uploaded.
THEOREM ToldTheTruth == Spec => []ToldOfAnalysis
<1>1. IInv => ToldOfAnalysis
  BY DEF IInv, Uploads, AnalysesOfTickets, Analysed, ToldOfAnalysis
<1> QED
  BY <1>1, Invariance, PTL

=============================================================================
