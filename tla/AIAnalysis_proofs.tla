--------------------------- MODULE AIAnalysis_proofs ---------------------------
(***************************************************************************)
(* The analysis pipeline, for any number of analyses, clients and workers, *)
(* crashes and redeliveries: it implements AnalysisContract, and with as   *)
(* many attempts as Celery makes it leaves no analysis without a carrier.  *)
(*                                                                         *)
(* A late answer is harmless because a worker only ever answers for a row  *)
(* that has been taken into processing (JobsStarted), and a transaction    *)
(* only ever publishes a row it alone is creating (CreationsDisjoint).     *)
(***************************************************************************)
EXTENDS AIAnalysis, TLAPS

JobsStarted ==
  \A w \in Workers : job[w].phase # "idle" =>
    /\ job[w].message \in Message
    /\ row[job[w].message.analysis].status \in {"processing"} \union Settled

CreationsDisjoint ==
  /\ \A c \in Clients : creating[c] # None => row[creating[c]].status = "uncommitted"
  /\ \A c, d \in Clients : creating[c] # None /\ creating[c] = creating[d] => c = d

AInv == TypeOK /\ JobsStarted /\ CreationsDisjoint

-----------------------------------------------------------------------------
LEMMA AInvInit ==
  ASSUME Init
  PROVE  AInv
<1>1. AbsentRow \in Row /\ IdleJob \in Job
  BY DEF AbsentRow, Row, IdleJob, Job, Invisible, MaxRetries
<1>2. TypeOK
  BY <1>1, BoundsAssumption DEF Init, TypeOK
<1>3. JobsStarted /\ CreationsDisjoint
  BY DEF Init, JobsStarted, CreationsDisjoint, IdleJob
<1> QED
  BY <1>2, <1>3 DEF AInv

\* Two rules the steps of the workers share.  First: once a row is taken into
\* processing, no worker and no review takes it back further than that.
WorkersWrite ==
  \A b \in Analyses :
    \/ row'[b].status = row[b].status
    \/ /\ row[b].status \in Active \union Settled
       /\ row'[b].status \in {"processing"} \union Settled

LEMMA WorkersWriteKeepsInvariants ==
  ASSUME AInv, WorkersWrite, UNCHANGED creating,
         \A w \in Workers : job'[w] = job[w] \/ job'[w].phase = "idle" \/
           /\ job'[w].message \in Message
           /\ row'[job'[w].message.analysis].status \in {"processing"} \union Settled
  PROVE  JobsStarted' /\ CreationsDisjoint'
<1>1. \A m \in Message : m.analysis \in Analyses
  BY DEF Message
<1>2. JobsStarted'
  BY <1>1 DEF AInv, JobsStarted, WorkersWrite, Active, Settled
<1>3. \A c \in Clients : creating[c] # None => creating[c] \in Analyses
  BY DEF AInv, TypeOK
<1>4. CreationsDisjoint'
  BY <1>3 DEF AInv, CreationsDisjoint, WorkersWrite, Active, Settled
<1> QED
  BY <1>2, <1>4

\* Second: the broker holds a natural number of copies of each message.
LEMMA BrokerTyped ==
  ASSUME AInv, NEW m \in Message
  PROVE  /\ Publish(m) => broker' \in [Message -> Nat]
         /\ broker[m] > 0 /\ broker' = [broker EXCEPT ![m] = @ - 1]
              => broker' \in [Message -> Nat]
<1>1. broker \in [Message -> Nat] /\ broker[m] \in Nat
  BY DEF AInv, TypeOK
<1>2. broker[m] + 1 \in Nat /\ (broker[m] > 0 => broker[m] - 1 \in Nat)
  BY <1>1
<1> QED
  BY <1>1, <1>2 DEF Publish

LEMMA MessageTyped ==
  ASSUME NEW m \in Message
  PROVE  /\ m.analysis \in Analyses /\ m.retries \in 0..MaxRetries
         /\ Attempt(m) \in 1..(MaxRetries + 1)
  BY DEF Message, Attempt, MaxRetries

LEMMA QueueAnalysisAInv ==
  ASSUME AInv, NEW c \in Clients, QueueAnalysis(c)
  PROVE  AInv'
<1> USE DEF AInv
<1>1. PICK a \in Analyses :
        /\ row[a].status = "absent"
        /\ SetStatus(a, "uncommitted")
        /\ Publish([analysis |-> a, retries |-> 0])
        /\ creating' = [creating EXCEPT ![c] = a]
  BY DEF QueueAnalysis
<1>2. row \in [Analyses -> Row] /\ broker \in [Message -> Nat]
      /\ [analysis |-> a, retries |-> 0] \in Message
  BY DEF TypeOK, Message, MaxRetries
<1>3. \A b \in Analyses : row'[b].status = IF b = a THEN "uncommitted"
                                           ELSE row[b].status
  BY <1>1, <1>2 DEF SetStatus, Row
<1>4. row' \in [Analyses -> Row]
  BY <1>1, <1>2 DEF SetStatus, Row, Invisible
<1>5. broker' \in [Message -> Nat]
  BY <1>1, <1>2 DEF Publish
<1>6. TypeOK'
  BY <1>1, <1>4, <1>5 DEF TypeOK, QueueAnalysis
<1>7. JobsStarted'
  <2>1. job' = job
    BY DEF QueueAnalysis
  <2>2. \A m \in Message : m.analysis \in Analyses
    BY DEF Message
  <2> QED
    BY <1>1, <1>3, <2>1, <2>2 DEF JobsStarted, Settled
<1>8. CreationsDisjoint'
  BY <1>1, <1>3, NoneAssumption DEF TypeOK, CreationsDisjoint
<1> QED
  BY <1>6, <1>7, <1>8

LEMMA EndCreationAInv ==
  ASSUME AInv, NEW c \in Clients, EndCreation(c)
  PROVE  AInv'
<1> USE DEF AInv
<1> DEFINE a == creating[c]
<1>1. PICK st \in {"queued", "rolled_back"} :
        /\ SetStatus(a, st)
        /\ creating' = [creating EXCEPT ![c] = None]
        /\ creating[c] # None
        /\ UNCHANGED <<broker, job, lost, crashes, redeliveries>>
  BY DEF EndCreation, CommitAnalysis, RollBackAnalysis
<1>2. row \in [Analyses -> Row] /\ a \in Analyses /\ row[a].status = "uncommitted"
  BY <1>1 DEF TypeOK, CreationsDisjoint
<1>3. \A b \in Analyses : row'[b].status = IF b = a THEN st ELSE row[b].status
  BY <1>1, <1>2 DEF SetStatus, Row
<1>4. row' \in [Analyses -> Row]
  BY <1>1, <1>2 DEF SetStatus, Row, Invisible, Active
<1>5. TypeOK'
  BY <1>1, <1>4 DEF TypeOK
<1>6. JobsStarted'
  <2>1. \A m \in Message : m.analysis \in Analyses
    BY DEF Message
  <2> QED
    BY <1>1, <1>2, <1>3, <2>1 DEF JobsStarted, Settled
<1>7. CreationsDisjoint'
  BY <1>1, <1>2, <1>3 DEF TypeOK, CreationsDisjoint
<1> QED
  BY <1>5, <1>6, <1>7

LEMMA ReceiveAInv ==
  ASSUME AInv, NEW w \in Workers, Receive(w)
  PROVE  AInv'
<1>1. PICK m \in Message :
        /\ job[w].phase = "idle" /\ broker[m] > 0
        /\ broker' = [broker EXCEPT ![m] = @ - 1]
        /\ UNCHANGED <<creating, crashes, redeliveries>>
        /\ \/ /\ UNCHANGED <<row, job>>
              /\ lost' \in {lost, lost \union {m.analysis}}
           \/ /\ row[m.analysis].status \in Active \union {"failed"}
              /\ row' = [row EXCEPT
                   ![m.analysis].status   = "processing",
                   ![m.analysis].attempts = Larger(@, Attempt(m))]
              /\ job' = [job EXCEPT ![w] = [phase |-> "calling", message |-> m]]
              /\ lost' = lost
  BY DEF Receive, ReceiveNotFound, ReceiveCompleted, StartProcessing, Take
<1>2. /\ m.analysis \in Analyses /\ Attempt(m) \in 0..(MaxRetries + 1)
      /\ row \in [Analyses -> Row] /\ job \in [Workers -> Job]
      /\ lost \subseteq Analyses
  BY MessageTyped DEF AInv, TypeOK, MaxRetries
<1>3. broker' \in [Message -> Nat]
  BY <1>1, BrokerTyped
<1>4. CASE UNCHANGED <<row, job>>
  <2>1. lost' \subseteq Analyses
    BY <1>1, <1>2
  <2>2. TypeOK'
    BY <1>1, <1>3, <1>4, <2>1 DEF AInv, TypeOK
  <2>3. WorkersWrite
    BY <1>4 DEF WorkersWrite
  <2> QED
    BY <1>1, <1>4, <2>2, <2>3, WorkersWriteKeepsInvariants DEF AInv
<1>5. CASE ~UNCHANGED <<row, job>>
  <2>1. /\ row[m.analysis].status \in Active \union {"failed"}
        /\ row' = [row EXCEPT
             ![m.analysis].status   = "processing",
             ![m.analysis].attempts = Larger(@, Attempt(m))]
        /\ job' = [job EXCEPT ![w] = [phase |-> "calling", message |-> m]]
        /\ lost' = lost
    BY <1>1, <1>5
  <2>2. Larger(row[m.analysis].attempts, Attempt(m)) \in 0..(MaxRetries + 1)
    BY <1>2 DEF Larger, Row
  <2>3. row' \in [Analyses -> Row]
    <3> DEFINE n == Larger(row[m.analysis].attempts, Attempt(m))
    <3>1. row' = [row EXCEPT ![m.analysis] =
                    [row[m.analysis] EXCEPT !.status = "processing", !.attempts = n]]
      BY <1>2, <2>1
    <3> HIDE DEF n
    <3>2. [row[m.analysis] EXCEPT !.status = "processing", !.attempts = n] \in Row
      BY <1>2, <2>2 DEF n, Row, Active
    <3> QED
      BY <1>2, <3>1, <3>2
  <2>4. \A b \in Analyses : row'[b].status = IF b = m.analysis THEN "processing"
                                             ELSE row[b].status
    BY <1>2, <2>1 DEF Row
  <2>5. job' \in [Workers -> Job]
    BY <1>2, <2>1 DEF Job
  <2>6. TypeOK'
    BY <1>1, <1>3, <2>1, <2>3, <2>5 DEF AInv, TypeOK
  <2>7. WorkersWrite
    BY <2>1, <2>4 DEF WorkersWrite, Active, Settled
  <2>8. \A v \in Workers : job'[v] = IF v = w THEN [phase |-> "calling", message |-> m]
                                     ELSE job[v]
    BY <1>2, <2>1
  <2> QED
    BY <1>1, <1>2, <2>4, <2>6, <2>7, <2>8, WorkersWriteKeepsInvariants DEF AInv
<1> QED
  BY <1>4, <1>5

LEMMA AnswerAInv ==
  ASSUME AInv, NEW w \in Workers, Answer(w)
  PROVE  AInv'
<1> DEFINE m == job[w].message
           a == m.analysis
<1>1. /\ job[w].phase = "calling" /\ m \in Message /\ a \in Analyses
      /\ row[a].status \in {"processing"} \union Settled
      /\ row \in [Analyses -> Row] /\ job \in [Workers -> Job]
      /\ Attempt(m) \in 0..(MaxRetries + 1)
  <2>1. job[w].phase = "calling"
    BY DEF Answer, AlreadyCompleted, Complete, GiveUp, AskForRetry
  <2> QED
    BY <2>1, MessageTyped DEF AInv, TypeOK, JobsStarted, MaxRetries
<1>2. UNCHANGED <<creating, broker, lost, crashes, redeliveries>>
  BY DEF Answer, AlreadyCompleted, Complete, GiveUp, AskForRetry
<1>3. \/ Finish(w)
      \/ job' = [job EXCEPT ![w].phase = "retrying"]
  BY DEF Answer, AlreadyCompleted, Complete, GiveUp, AskForRetry
<1>4. job' \in [Workers -> Job]
  BY <1>1, <1>3 DEF Finish, IdleJob, Job
<1>5. \A v \in Workers : \/ job'[v] = job[v]
                         \/ job'[v].phase = "idle"
                         \/ job'[v].message = m
  BY <1>1, <1>3 DEF Finish, IdleJob, Job
<1>6. \/ row' = row
      \/ \E r \in Results :
           row' = [row EXCEPT ![a].status = "completed", ![a].result = r]
      \/ \E st \in {"failed", "processing"} :
           row' = [row EXCEPT ![a].status = st, ![a].attempts = Attempt(m)]
  BY DEF Answer, AlreadyCompleted, Complete, GiveUp, AskForRetry
<1> HIDE DEF m, a
<1>7. row' \in [Analyses -> Row]
  <2>1. ASSUME NEW r \in Results,
               row' = [row EXCEPT ![a].status = "completed", ![a].result = r]
        PROVE  row' \in [Analyses -> Row]
    BY <1>1, <2>1 DEF Row, Settled
  <2>2. ASSUME NEW st \in {"failed", "processing"},
               row' = [row EXCEPT ![a].status = st, ![a].attempts = Attempt(m)]
        PROVE  row' \in [Analyses -> Row]
    <3> DEFINE n == Attempt(m)
    <3>1. row' = [row EXCEPT ![a] =
                    [row[a] EXCEPT !.status = st, !.attempts = n]]
      BY <1>1, <2>2
    <3>2. n \in 0..(MaxRetries + 1)
      BY <1>1
    <3> HIDE DEF n
    <3>3. [row[a] EXCEPT !.status = st, !.attempts = n] \in Row
      BY <1>1, <2>2, <3>2 DEF Row, Settled, Active
    <3> QED
      BY <1>1, <3>1, <3>3
  <2> QED
    BY <1>1, <1>6, <2>1, <2>2
<1>8. \A b \in Analyses :
        \/ row'[b].status = row[b].status
        \/ b = a /\ row'[b].status \in {"processing"} \union Settled
  BY <1>1, <1>6 DEF Row, Settled
<1>9. WorkersWrite
  BY <1>1, <1>8 DEF WorkersWrite, Active, Settled
<1>10. TypeOK'
  BY <1>2, <1>4, <1>7 DEF AInv, TypeOK
<1>11. row'[a].status \in {"processing"} \union Settled
  BY <1>1, <1>8
<1>12. \A v \in Workers :
         \/ job'[v] = job[v]
         \/ job'[v].phase = "idle"
         \/ /\ job'[v].message \in Message
            /\ row'[job'[v].message.analysis].status \in {"processing"} \union Settled
  BY <1>1, <1>5, <1>11 DEF a
<1> QED
  BY <1>2, <1>9, <1>10, <1>12, WorkersWriteKeepsInvariants DEF AInv

LEMMA RetryAInv ==
  ASSUME AInv, NEW w \in Workers, Retry(w)
  PROVE  AInv'
<1> DEFINE m == job[w].message
           again == [m EXCEPT !.retries = @ + 1]
<1>1. /\ job[w].phase = "retrying" /\ m \in Message
      /\ job \in [Workers -> Job] /\ broker \in [Message -> Nat]
  BY DEF Retry, AInv, TypeOK, JobsStarted
<1>2. /\ \/ m.retries < MaxRetries /\ Publish(again)
         \/ UNCHANGED broker
      /\ Finish(w) /\ UNCHANGED <<row, creating, lost, crashes, redeliveries>>
  BY DEF Retry
<1>3. m.retries < MaxRetries => again \in Message
  BY <1>1 DEF Message, MaxRetries
<1> HIDE DEF again
<1>4. broker' \in [Message -> Nat]
  BY <1>1, <1>2, <1>3, BrokerTyped
<1>5. job' \in [Workers -> Job]
      /\ \A v \in Workers : job'[v] = job[v] \/ job'[v].phase = "idle"
  BY <1>1, <1>2 DEF Finish, IdleJob, Job
<1>6. TypeOK' /\ WorkersWrite
  BY <1>2, <1>4, <1>5 DEF AInv, TypeOK, WorkersWrite
<1> QED
  BY <1>2, <1>5, <1>6, WorkersWriteKeepsInvariants DEF AInv

LEMMA MishapAInv ==
  ASSUME AInv, (\E w \in Workers : Crash(w)) \/ Redeliver
  PROVE  AInv'
<1>1. CASE Redeliver
  <2>1. PICK m \in Message : Publish(m)
    BY <1>1 DEF Redeliver
  <2>2. broker' \in [Message -> Nat]
    BY <2>1, BrokerTyped
  <2>3. TypeOK' /\ WorkersWrite
    BY <1>1, <2>2, BoundsAssumption DEF Redeliver, AInv, TypeOK, WorkersWrite
  <2> QED
    BY <1>1, <2>3, WorkersWriteKeepsInvariants DEF Redeliver, AInv
<1>2. ASSUME NEW w \in Workers, Crash(w)
      PROVE  AInv'
  <2>1. job \in [Workers -> Job] /\ job[w].message.analysis \in Analyses
    BY <1>2, MessageTyped DEF Crash, AInv, TypeOK, JobsStarted
  <2>2. job' \in [Workers -> Job]
        /\ \A v \in Workers : job'[v] = job[v] \/ job'[v].phase = "idle"
    BY <1>2, <2>1 DEF Crash, Finish, IdleJob, Job
  <2>3. TypeOK' /\ WorkersWrite
    BY <1>2, <2>1, <2>2, BoundsAssumption DEF Crash, AInv, TypeOK, WorkersWrite
  <2> QED
    BY <1>2, <2>2, <2>3, WorkersWriteKeepsInvariants DEF Crash, AInv
<1> QED
  BY <1>1, <1>2

LEMMA ReviewAInv ==
  ASSUME AInv, NEW a \in Analyses, Review(a)
  PROVE  AInv'
<1>1. row \in [Analyses -> Row]
      /\ row' = [row EXCEPT ![a].reviewed = row[a].result]
      /\ UNCHANGED <<creating, broker, job, lost, crashes, redeliveries>>
  BY DEF Review, AInv, TypeOK
<1>2. row' \in [Analyses -> Row]
      /\ \A b \in Analyses : row'[b].status = row[b].status
  BY <1>1 DEF Row
<1>3. TypeOK' /\ WorkersWrite
  BY <1>1, <1>2 DEF AInv, TypeOK, WorkersWrite
<1> QED
  BY <1>1, <1>3, WorkersWriteKeepsInvariants DEF AInv

LEMMA NextAInv ==
  ASSUME AInv, [Next]_vars
  PROVE  AInv'
<1>1. CASE UNCHANGED vars
  BY <1>1 DEF vars, AInv, TypeOK, JobsStarted, CreationsDisjoint
<1>2. CASE Next
  BY <1>2, QueueAnalysisAInv, EndCreationAInv, ReceiveAInv, AnswerAInv,
     RetryAInv, MishapAInv, ReviewAInv DEF Next
<1> QED
  BY <1>1, <1>2

\* Rows, messages and jobs keep their types, workers answer only for rows
\* taken into processing, and no two transactions create the same row.
THEOREM PipelineInvariant == Spec => []AInv
  BY AInvInit, NextAInv, PTL DEF Spec

\* Type correctness of the pipeline.
THEOREM PipelineTypes == Spec => []TypeOK
  BY PipelineInvariant, PTL DEF AInv

-----------------------------------------------------------------------------
(***************************************************************************)
(* The pipeline implements its contract.  Every step changes one row at    *)
(* most, so it is enough to look at what the contract shows of that row.   *)
(***************************************************************************)
Shown(r) == IF r.status \in Invisible THEN "absent" ELSE r.status

OnlyRow(a) == \A b \in Analyses \ {a} : row'[b] = row[b]
SameResult(a) == row'[a].result = row[a].result
SameReview(a) == row'[a].reviewed = row[a].reviewed

LEMMA ContractMove ==
  ASSUME NEW a \in Analyses, NEW from, NEW to, OnlyRow(a),
         Shown(row[a]) \in from, Shown(row'[a]) = to
  PROVE  Contract!Move(a, from, to)
  BY DEF OnlyRow, Shown, Contract!Move

LEMMA ContractReviewed ==
  ASSUME NEW a \in Analyses, OnlyRow(a), SameReview(a)
  PROVE  UNCHANGED [b \in Analyses |-> row[b].reviewed]
  BY DEF OnlyRow, SameReview

LEMMA ContractResult ==
  ASSUME NEW a \in Analyses, OnlyRow(a), SameResult(a)
  PROVE  UNCHANGED [b \in Analyses |-> row[b].result]
  BY DEF OnlyRow, SameResult

LEMMA ContractStutter ==
  ASSUME NEW a \in Analyses, OnlyRow(a), SameResult(a), SameReview(a),
         Shown(row'[a]) = Shown(row[a])
  PROVE  UNCHANGED Contract!vars
<1>1. UNCHANGED [b \in Analyses |-> IF row[b].status \in Invisible THEN "absent"
                                    ELSE row[b].status]
  BY DEF OnlyRow, Shown
<1> QED
  BY <1>1, ContractResult, ContractReviewed DEF Contract!vars

\* Queue, Start and Fail leave results and reviews alone.
LEMMA ContractProgress ==
  ASSUME NEW a \in Analyses, OnlyRow(a), SameResult(a), SameReview(a),
         \/ Shown(row[a]) = "absent" /\ Shown(row'[a]) = "queued"
         \/ /\ Shown(row[a]) \in {"queued", "processing", "failed"}
            /\ Shown(row'[a]) = "processing"
         \/ /\ Shown(row[a]) \in {"processing", "failed"}
            /\ Shown(row'[a]) = "failed"
  PROVE  Contract!Next
<1>1. UNCHANGED <<[b \in Analyses |-> row[b].result],
                  [b \in Analyses |-> row[b].reviewed]>>
  BY ContractResult, ContractReviewed
<1>2. \/ Contract!Move(a, {"absent"}, "queued")
      \/ Contract!Move(a, {"queued", "processing", "failed"}, "processing")
      \/ Contract!Move(a, {"processing", "failed"}, "failed")
  BY ContractMove
<1> QED
  BY <1>1, <1>2 DEF Contract!Next, Contract!Queue, Contract!Start, Contract!Fail

LEMMA ContractComplete ==
  ASSUME NEW a \in Analyses, OnlyRow(a), SameReview(a),
         Shown(row[a]) \in {"processing", "failed"},
         Shown(row'[a]) = "completed",
         row'[a].result \in Results
  PROVE  Contract!Next
<1>1. Contract!Move(a, {"processing", "failed"}, "completed")
  BY ContractMove
<1>2. UNCHANGED [b \in Analyses |-> row[b].reviewed]
  BY ContractReviewed
<1>3. PICK r \in Results : row'[a].result = r
  OBVIOUS
<1>4. [b \in Analyses |-> row'[b].result]
        = [[b \in Analyses |-> row[b].result] EXCEPT ![a] = r]
  <2>1. \A b \in Analyses : row'[b].result = IF b = a THEN r ELSE row[b].result
    BY <1>3 DEF OnlyRow
  <2> QED
    BY <2>1
<1> QED
  BY <1>1, <1>2, <1>4 DEF Contract!Next, Contract!Complete

LEMMA ContractReview ==
  ASSUME NEW a \in Analyses, OnlyRow(a), SameResult(a),
         row[a].status = "completed", row'[a].status = row[a].status,
         row'[a].reviewed = row[a].result
  PROVE  Contract!Next
<1>1. UNCHANGED [b \in Analyses |-> IF row[b].status \in Invisible THEN "absent"
                                    ELSE row[b].status]
  BY DEF OnlyRow
<1>2. UNCHANGED [b \in Analyses |-> row[b].result]
  BY ContractResult
<1>3. [b \in Analyses |-> row'[b].reviewed]
        = [[b \in Analyses |-> row[b].reviewed] EXCEPT ![a] =
             [b \in Analyses |-> row[b].result][a]]
  BY DEF OnlyRow
<1>4. row[a].status \notin Invisible
  BY DEF Invisible
<1> QED
  BY <1>1, <1>2, <1>3, <1>4 DEF Contract!Next, Contract!Review

LEMMA StepImplements ==
  ASSUME AInv, [Next]_vars
  PROVE  [Contract!Next]_(Contract!vars)
<1>1. row \in [Analyses -> Row]
  BY DEF AInv, TypeOK
<1>2. CASE row' = row
  <2>1. UNCHANGED Contract!vars
    BY <1>2 DEF Contract!vars
  <2> QED
    BY <2>1
<1>3. ASSUME NEW c \in Clients, QueueAnalysis(c)
      PROVE  UNCHANGED Contract!vars
  <2>1. PICK a \in Analyses : row[a].status = "absent" /\ SetStatus(a, "uncommitted")
    BY <1>3 DEF QueueAnalysis
  <2>2. OnlyRow(a) /\ SameResult(a) /\ SameReview(a)
        /\ Shown(row[a]) = Shown(row'[a])
    BY <1>1, <2>1 DEF SetStatus, OnlyRow, SameResult, SameReview, Shown,
                      Invisible, Row
  <2> QED
    BY <2>2, ContractStutter
<1>4. ASSUME NEW c \in Clients, EndCreation(c)
      PROVE  [Contract!Next]_(Contract!vars)
  <2> DEFINE a == creating[c]
  <2>1. PICK st \in {"queued", "rolled_back"} : SetStatus(a, st) /\ a # None
    BY <1>4 DEF EndCreation, CommitAnalysis, RollBackAnalysis
  <2>2. a \in Analyses /\ row[a].status = "uncommitted"
    BY <2>1 DEF AInv, TypeOK, CreationsDisjoint
  <2> HIDE DEF a
  <2>3. OnlyRow(a) /\ SameResult(a) /\ SameReview(a) /\ row'[a].status = st
    BY <1>1, <2>1, <2>2 DEF SetStatus, OnlyRow, SameResult, SameReview, Row
  <2>4. \/ st = "queued" /\ Contract!Next
        \/ st = "rolled_back" /\ UNCHANGED Contract!vars
    BY <2>2, <2>3, ContractProgress, ContractStutter DEF Shown, Invisible
  <2> QED
    BY <2>4
<1>5. ASSUME NEW w \in Workers, StartProcessing(w)
      PROVE  Contract!Next
  <2>1. PICK m \in Message :
          /\ row[m.analysis].status \in Active \union {"failed"}
          /\ row' = [row EXCEPT
               ![m.analysis].status   = "processing",
               ![m.analysis].attempts = Larger(@, Attempt(m))]
    BY <1>5 DEF StartProcessing
  <2> DEFINE a == m.analysis
  <2>2. a \in Analyses
    BY MessageTyped
  <2>3. OnlyRow(a) /\ SameResult(a) /\ SameReview(a)
        /\ row'[a].status = "processing"
    BY <1>1, <2>1, <2>2 DEF OnlyRow, SameResult, SameReview, Row
  <2>4. Shown(row[a]) \in {"queued", "processing", "failed"}
        /\ Shown(row'[a]) = "processing"
    BY <2>1, <2>3 DEF Shown, Invisible, Active
  <2> QED
    BY <2>2, <2>3, <2>4, ContractProgress
<1>6. ASSUME NEW w \in Workers, Answer(w), row' # row
      PROVE  Contract!Next
  <2> DEFINE m == job[w].message
             a == m.analysis
  <2>1. job[w].phase = "calling" /\ row[a].status # "completed"
        /\ \/ \E r \in Results : row' = [row EXCEPT ![a].status = "completed",
                                                   ![a].result = r]
           \/ \E st \in {"failed", "processing"} :
                row' = [row EXCEPT ![a].status = st, ![a].attempts = Attempt(m)]
    BY <1>6 DEF Answer, AlreadyCompleted, Complete, GiveUp, AskForRetry
  <2>2. m \in Message /\ row[a].status \in {"processing", "failed"}
    BY <2>1 DEF AInv, JobsStarted, Settled
  <2>3. a \in Analyses
    BY <2>2, MessageTyped
  <2> HIDE DEF a, m
  <2>4. Shown(row[a]) \in {"processing", "failed"}
    BY <2>2 DEF Shown, Invisible
  <2>5. ASSUME NEW r \in Results,
               row' = [row EXCEPT ![a].status = "completed", ![a].result = r]
        PROVE  Contract!Next
    <3>1. OnlyRow(a) /\ SameReview(a) /\ row'[a].result = r
          /\ row'[a].status = "completed"
      BY <1>1, <2>3, <2>5 DEF OnlyRow, SameReview, Row
    <3>2. Shown(row'[a]) = "completed"
      BY <3>1 DEF Shown, Invisible
    <3> QED
      BY <2>3, <2>4, <3>1, <3>2, ContractComplete
  <2>6. ASSUME NEW st \in {"failed", "processing"},
               row' = [row EXCEPT ![a].status = st, ![a].attempts = Attempt(m)]
        PROVE  Contract!Next
    <3>1. OnlyRow(a) /\ SameResult(a) /\ SameReview(a) /\ row'[a].status = st
      BY <1>1, <2>3, <2>6 DEF OnlyRow, SameResult, SameReview, Row
    <3>2. Shown(row'[a]) = st
      BY <3>1 DEF Shown, Invisible
    <3> QED
      BY <2>3, <2>4, <3>1, <3>2, ContractProgress
  <2> QED
    BY <2>1, <2>5, <2>6
<1>7. ASSUME NEW a \in Analyses, Review(a)
      PROVE  Contract!Next
  <2>1. OnlyRow(a) /\ SameResult(a) /\ row[a].status = "completed"
        /\ row'[a].status = row[a].status /\ row'[a].reviewed = row[a].result
    BY <1>1, <1>7 DEF Review, OnlyRow, SameResult, Row
  <2> QED
    BY <2>1, ContractReview
<1>8. ASSUME NEW w \in Workers,
             Receive(w) \/ Retry(w) \/ Crash(w) \/ Redeliver, ~StartProcessing(w)
      PROVE  row' = row
  BY <1>8 DEF Receive, ReceiveNotFound, ReceiveCompleted, Retry, Crash, Redeliver
<1>9. Redeliver => row' = row
  BY DEF Redeliver
<1> QED
  BY <1>2, <1>3, <1>4, <1>5, <1>6, <1>7, <1>8, <1>9 DEF Next, Receive, vars

LEMMA InitImplements ==
  ASSUME Init
  PROVE  Contract!Init
<1>1. \A a \in Analyses :
        /\ row[a].status = "absent" /\ row[a].result = None
        /\ row[a].reviewed = None
  BY DEF Init, AbsentRow
<1> QED
  BY <1>1 DEF Contract!Init, Invisible

\* Late and duplicated deliveries never take a completed analysis back,
\* replace its result, or change what a review was made on.
THEOREM PipelineImplementsContract == Spec => ImplementsContract
  BY PipelineInvariant, InitImplements, StepImplements, PTL
     DEF Spec, ImplementsContract, Contract!Spec

-----------------------------------------------------------------------------
(***************************************************************************)
(* Carriers.  A row in progress is carried because each step that takes a  *)
(* message out of the broker or out of a worker either passes it on, or    *)
(* settles the row, or drops the message; and the last one of Celery's     *)
(* retries is never asked for one more (Retriable).                        *)
(***************************************************************************)
InProgress(a) == row[a].status \in Active \union {"uncommitted"}

Retriable ==
  \A w \in Workers : job[w].phase = "retrying" => Attempt(job[w].message) < MaxAttempts

CInv ==
  /\ AInv
  /\ Retriable
  /\ \A a \in Analyses : InProgress(a) /\ a \notin lost => Carried(a)

LEMMA CInvInit ==
  ASSUME Init
  PROVE  CInv
<1>1. Retriable
  BY DEF Init, Retriable, IdleJob
<1>2. \A a \in Analyses : ~InProgress(a)
  BY DEF Init, InProgress, AbsentRow, Active
<1> QED
  BY <1>1, <1>2, AInvInit DEF CInv

\* Steps that put messages into the broker and leave the workers alone.
LEMMA CreationCInv ==
  ASSUME CInv, NEW c \in Clients, QueueAnalysis(c) \/ EndCreation(c)
  PROVE  CInv'
<1>1. AInv /\ AInv'
  BY QueueAnalysisAInv, EndCreationAInv DEF CInv
<1>2. Retriable'
  BY DEF CInv, Retriable, QueueAnalysis, EndCreation, CommitAnalysis,
         RollBackAnalysis
<1>3. CASE QueueAnalysis(c)
  <2>1. PICK b \in Analyses :
          /\ SetStatus(b, "uncommitted")
          /\ Publish([analysis |-> b, retries |-> 0])
    BY <1>3 DEF QueueAnalysis
  <2> DEFINE m == [analysis |-> b, retries |-> 0]
  <2>2. m \in Message /\ m.analysis = b /\ broker \in [Message -> Nat]
        /\ row \in [Analyses -> Row] /\ job' = job /\ lost' = lost
    BY <1>1, <1>3 DEF AInv, TypeOK, Message, MaxRetries, QueueAnalysis
  <2> HIDE DEF m
  <2>3. /\ broker'[m] = broker[m] + 1 /\ broker[m] \in Nat
        /\ \A n \in Message \ {m} : broker'[n] = broker[n]
    BY <2>1, <2>2 DEF Publish, m
  <2>4. Carried(b)'
    BY <2>2, <2>3 DEF Carried
  <2>5. \A a \in Analyses : Carried(a) => Carried(a)'
    BY <2>2, <2>3 DEF Carried
  <2>6. \A a \in Analyses \ {b} : row'[a] = row[a]
    BY <2>1, <2>2 DEF SetStatus
  <2> QED
    BY <1>1, <1>2, <2>2, <2>4, <2>5, <2>6 DEF CInv, InProgress
<1>4. CASE EndCreation(c)
  <2>1. creating[c] \in Analyses /\ row[creating[c]].status = "uncommitted"
        /\ UNCHANGED <<broker, job, lost>>
    BY <1>1, <1>4 DEF AInv, TypeOK, CreationsDisjoint, EndCreation,
                      CommitAnalysis, RollBackAnalysis
  <2>2. \A a \in Analyses \ {creating[c]} : row'[a] = row[a]
    BY <1>1, <1>4 DEF AInv, TypeOK, EndCreation, CommitAnalysis,
                      RollBackAnalysis, SetStatus
  <2>3. \A a \in Analyses : Carried(a)' <=> Carried(a)
    BY <2>1 DEF Carried
  <2> QED
    BY <1>1, <1>2, <2>1, <2>2, <2>3 DEF CInv, InProgress
<1> QED
  BY <1>3, <1>4

LEMMA ReceiveCInv ==
  ASSUME CInv, NEW w \in Workers, Receive(w)
  PROVE  CInv'
<1>1. AInv /\ AInv' /\ job \in [Workers -> Job] /\ broker \in [Message -> Nat]
      /\ row \in [Analyses -> Row]
  BY ReceiveAInv DEF CInv, AInv, TypeOK
<1>2. PICK m \in Message :
        /\ Take(w, m)
        /\ \/ /\ UNCHANGED <<row, job>>
              /\ \/ lost' = lost \union {m.analysis}
                 \/ row[m.analysis].status = "completed" /\ lost' = lost
           \/ /\ row' = [row EXCEPT
                   ![m.analysis].status   = "processing",
                   ![m.analysis].attempts = Larger(@, Attempt(m))]
              /\ job' = [job EXCEPT ![w] = [phase |-> "calling", message |-> m]]
              /\ lost' = lost
  BY DEF Receive, ReceiveNotFound, ReceiveCompleted, StartProcessing
<1>3. job[w].phase = "idle" /\ m.analysis \in Analyses
      /\ \A n \in Message \ {m} : broker'[n] = broker[n]
  BY <1>1, <1>2, MessageTyped DEF Take
<1>4. CASE UNCHANGED <<row, job>>
  <2>1. \A a \in Analyses \ {m.analysis} : Carried(a) => Carried(a)'
    BY <1>3, <1>4 DEF Carried
  <2>2. Retriable'
    BY <1>4 DEF CInv, Retriable
  <2>3. job'[w].phase # "calling"
    BY <1>3, <1>4
  <2>4. m.analysis \in lost' \/ ~InProgress(m.analysis)'
    BY <1>1, <1>2, <1>4, <2>3 DEF InProgress, Active
  <2>5. lost \subseteq lost' /\ row' = row
    BY <1>2, <1>4
  <2> QED
    BY <1>1, <2>1, <2>2, <2>4, <2>5 DEF CInv, InProgress
<1>5. CASE ~UNCHANGED <<row, job>>
  <2>1. /\ row' = [row EXCEPT
             ![m.analysis].status   = "processing",
             ![m.analysis].attempts = Larger(@, Attempt(m))]
        /\ job' = [job EXCEPT ![w] = [phase |-> "calling", message |-> m]]
        /\ lost' = lost
    BY <1>2, <1>5
  <2>2. /\ job'[w] = [phase |-> "calling", message |-> m]
        /\ \A v \in Workers \ {w} : job'[v] = job[v]
        /\ \A a \in Analyses \ {m.analysis} : row'[a] = row[a]
    BY <1>1, <2>1
  <2>3. Carried(m.analysis)'
    BY <2>2 DEF Carried
  <2>4. \A a \in Analyses \ {m.analysis} : Carried(a) => Carried(a)'
    BY <1>3, <2>2 DEF Carried
  <2>5. Retriable'
    BY <2>2 DEF CInv, Retriable
  <2> QED
    BY <1>1, <2>1, <2>2, <2>3, <2>4, <2>5 DEF CInv, InProgress
<1> QED
  BY <1>4, <1>5

LEMMA AnswerCInv ==
  ASSUME CInv, NEW w \in Workers, Answer(w)
  PROVE  CInv'
<1>1. AInv /\ AInv' /\ job \in [Workers -> Job] /\ row \in [Analyses -> Row]
      /\ job[w].phase = "calling" /\ UNCHANGED <<broker, lost>>
  BY AnswerAInv DEF CInv, AInv, TypeOK, Answer, AlreadyCompleted, Complete,
                    GiveUp, AskForRetry
<1>2. PICK m \in Message, b \in Analyses : m = job[w].message /\ b = m.analysis
  BY <1>1, MessageTyped DEF AInv, JobsStarted
<1>3. \/ /\ job' = [job EXCEPT ![w] = IdleJob]
         /\ row'[b].status \in {"completed", "failed"}
      \/ /\ job' = [job EXCEPT ![w].phase = "retrying"]
         /\ Attempt(m) < MaxAttempts
  BY <1>1, <1>2 DEF Answer, AlreadyCompleted, Complete, GiveUp, AskForRetry,
                    Finish, Row
<1>4. \A a \in Analyses \ {b} : row'[a] = row[a]
  BY <1>1, <1>2 DEF Answer, AlreadyCompleted, Complete, GiveUp, AskForRetry
<1>5. \A v \in Workers \ {w} : job'[v] = job[v]
  BY <1>1, <1>3
<1>6. \A a \in Analyses \ {b} : Carried(a) => Carried(a)'
  BY <1>1, <1>2, <1>5 DEF Carried
<1>7. ~InProgress(b)' \/ Carried(b)'
  <2>1. CASE row'[b].status \in {"completed", "failed"}
    BY <2>1 DEF InProgress, Active
  <2>2. CASE job' = [job EXCEPT ![w].phase = "retrying"]
    <3>1. job'[w].phase = "retrying" /\ job'[w].message = m
      BY <1>1, <1>2, <2>2 DEF Job
    <3> QED
      BY <1>2, <3>1 DEF Carried
  <2> QED
    BY <1>3, <2>1, <2>2
<1>8. Retriable'
  <2>1. job'[w].phase = "retrying" => job'[w].message = m /\ Attempt(m) < MaxAttempts
    BY <1>1, <1>2, <1>3 DEF Job, IdleJob
  <2> QED
    BY <1>5, <2>1 DEF CInv, Retriable
<1> QED
  BY <1>1, <1>2, <1>4, <1>6, <1>7, <1>8 DEF CInv, InProgress

LEMMA RetryCInv ==
  ASSUME MaxAttempts <= MaxRetries + 1, CInv, NEW w \in Workers, Retry(w)
  PROVE  CInv'
<1>1. AInv /\ AInv' /\ job \in [Workers -> Job] /\ broker \in [Message -> Nat]
      /\ job[w].phase = "retrying" /\ UNCHANGED <<row, lost>>
      /\ job' = [job EXCEPT ![w] = IdleJob]
  BY RetryAInv DEF CInv, AInv, TypeOK, Retry, Finish
<1>2. PICK m \in Message, b \in Analyses : m = job[w].message /\ b = m.analysis
  BY <1>1, MessageTyped DEF AInv, JobsStarted
<1>3. m.retries < MaxRetries
  <2>1. Attempt(m) < MaxAttempts /\ m.retries \in Nat
    BY <1>1, <1>2 DEF CInv, Retriable, Message, MaxRetries
  <2> QED
    BY <2>1, AttemptsAssumption DEF Attempt, MaxRetries
<1>4. PICK again \in Message : Publish(again) /\ again.analysis = b
  <2>1. [m EXCEPT !.retries = @ + 1] \in Message
        /\ [m EXCEPT !.retries = @ + 1].analysis = b
    BY <1>2, <1>3 DEF Message, MaxRetries
  <2>2. Publish([m EXCEPT !.retries = @ + 1])
    BY <1>2, <1>3 DEF Retry
  <2> QED
    BY <2>1, <2>2
<1>5. /\ broker'[again] = broker[again] + 1 /\ broker[again] \in Nat
      /\ \A n \in Message \ {again} : broker'[n] = broker[n]
  BY <1>1, <1>4 DEF Publish
<1>6. Carried(b)'
  BY <1>4, <1>5 DEF Carried
<1>7. \A v \in Workers \ {w} : job'[v] = job[v]
  BY <1>1
<1>8. \A a \in Analyses \ {b} : Carried(a) => Carried(a)'
  BY <1>1, <1>2, <1>5, <1>7 DEF Carried
<1>9. Retriable'
  BY <1>1, <1>7 DEF CInv, Retriable, IdleJob
<1> QED
  BY <1>1, <1>6, <1>8, <1>9 DEF CInv, InProgress

LEMMA MishapCInv ==
  ASSUME CInv, (\E w \in Workers : Crash(w)) \/ Redeliver
  PROVE  CInv'
<1>1. AInv /\ AInv'
  BY MishapAInv DEF CInv
<1>2. CASE Redeliver
  <2>1. PICK m \in Message : broker[m] > 0 /\ Publish(m)
    BY <1>2 DEF Redeliver
  <2>2. \A n \in Message : broker[n] > 0 => broker'[n] > 0
    BY <1>1, <2>1 DEF AInv, TypeOK, Publish
  <2>3. UNCHANGED <<row, job, lost>>
    BY <1>2 DEF Redeliver
  <2>4. \A a \in Analyses : Carried(a) => Carried(a)'
    BY <2>2, <2>3 DEF Carried
  <2> QED
    BY <1>1, <2>3, <2>4 DEF CInv, InProgress, Retriable
<1>3. ASSUME NEW w \in Workers, Crash(w)
      PROVE  CInv'
  <2> DEFINE b == job[w].message.analysis
  <2>1. /\ job' = [job EXCEPT ![w] = IdleJob] /\ job \in [Workers -> Job]
        /\ lost' = lost \union {b} /\ UNCHANGED <<row, broker>>
    BY <1>1, <1>3 DEF Crash, Finish, AInv, TypeOK
  <2>2. \A v \in Workers \ {w} : job'[v] = job[v]
    BY <2>1
  <2>3. \A a \in Analyses \ {b} : Carried(a) => Carried(a)'
    BY <2>1, <2>2 DEF Carried
  <2>4. Retriable'
    BY <2>1, <2>2 DEF CInv, Retriable, IdleJob
  <2> QED
    BY <1>1, <2>1, <2>3, <2>4 DEF CInv, InProgress
<1> QED
  BY <1>2, <1>3

LEMMA ReviewCInv ==
  ASSUME CInv, NEW a \in Analyses, Review(a)
  PROVE  CInv'
<1>1. AInv' /\ row \in [Analyses -> Row] /\ UNCHANGED <<broker, job, lost>>
      /\ row' = [row EXCEPT ![a].reviewed = row[a].result]
  BY ReviewAInv DEF CInv, AInv, TypeOK, Review
<1>2. \A b \in Analyses : row'[b].status = row[b].status
  BY <1>1 DEF Row
<1>3. \A b \in Analyses : Carried(b)' <=> Carried(b)
  BY <1>1 DEF Carried
<1> QED
  BY <1>1, <1>2, <1>3 DEF CInv, InProgress, Retriable

LEMMA NextCInv ==
  ASSUME MaxAttempts <= MaxRetries + 1, CInv, [Next]_vars
  PROVE  CInv'
<1>1. CASE UNCHANGED vars
  <2>1. AInv'
    BY <1>1, NextAInv DEF CInv
  <2> QED
    BY <1>1, <2>1 DEF vars, CInv, InProgress, Retriable, Carried
<1>2. CASE Next
  BY <1>2, CreationCInv, ReceiveCInv, AnswerCInv, RetryCInv, MishapCInv,
     ReviewCInv DEF Next
<1> QED
  BY <1>1, <1>2

\* While the attempts allowed are no more than Celery makes, retries neither
\* stop early nor leave a row behind: a row in progress has a message or a
\* worker, unless a message of it was dropped.
THEOREM RetriesCarryTheAnalysis ==
  ASSUME MaxAttempts <= MaxRetries + 1
  PROVE  Spec => []ActiveIsCarried
<1>1. Init => CInv
  BY CInvInit
<1>2. CInv /\ [Next]_vars => CInv'
  BY NextCInv
<1>3. CInv => ActiveIsCarried
  BY DEF CInv, InProgress, ActiveIsCarried
<1> QED
  BY <1>1, <1>2, <1>3, PTL DEF Spec
=============================================================================
