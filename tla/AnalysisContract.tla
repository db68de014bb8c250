--------------------------- MODULE AnalysisContract ---------------------------
(***************************************************************************)
(* What the image-analysis pipeline promises of the analyses of a ticket,  *)
(* without queues, workers or transactions: an analysis is queued, then    *)
(* processing, then completed or failed.  Only a delivery that comes late  *)
(* or twice takes a failed analysis up again, and a completed one keeps    *)
(* its result for good; a review records the result it was made on.        *)
(***************************************************************************)
CONSTANTS Analyses, Results, None

VARIABLES status, result, reviewed

vars == <<status, result, reviewed>>

Init ==
  /\ status = [a \in Analyses |-> "absent"]
  /\ result = [a \in Analyses |-> None]
  /\ reviewed = [a \in Analyses |-> None]

Move(a, from, to) ==
  /\ status[a] \in from
  /\ status' = [status EXCEPT ![a] = to]

Queue(a) ==
  /\ Move(a, {"absent"}, "queued")
  /\ UNCHANGED <<result, reviewed>>

Start(a) ==
  /\ Move(a, {"queued", "processing", "failed"}, "processing")
  /\ UNCHANGED <<result, reviewed>>

Fail(a) ==
  /\ Move(a, {"processing", "failed"}, "failed")
  /\ UNCHANGED <<result, reviewed>>

Complete(a) ==
  /\ Move(a, {"processing", "failed"}, "completed")
  /\ \E r \in Results : result' = [result EXCEPT ![a] = r]
  /\ UNCHANGED reviewed

Review(a) ==
  /\ status[a] = "completed"
  /\ reviewed' = [reviewed EXCEPT ![a] = result[a]]
  /\ UNCHANGED <<status, result>>

Next ==
  \E a \in Analyses :
    Queue(a) \/ Start(a) \/ Fail(a) \/ Complete(a) \/ Review(a)

Spec == Init /\ [][Next]_vars
=============================================================================
