--------------------------- MODULE QueryCache_proofs ---------------------------
(***************************************************************************)
(* Invariants of QueryCache for any plans and any number of changes.       *)
(*                                                                         *)
(* OwnChangeShown speaks of a screen at rest only. To be inductive it      *)
(* needs what is so on the way there: once an invalidation has reached the *)
(* query (Reached), data older than the user's change is marked stale and  *)
(* an answer on its way is not older than it (Fresh), unless the           *)
(* invalidation met a fetch it did not replace.                            *)
(***************************************************************************)
EXTENDS QueryCache, TLAPS

\* The invalidation under way has reached the query; at rest, those of the past have.
Reached == change = "settling" => \E i \in 1 .. step : plan.steps[i]

Fresh ==
    /\ data # None /\ data < own => stale
    /\ fetch = "answered" => answer >= own
    /\ open /\ fetch = "none" /\ ~error => data = None \/ data >= own

\* Nothing in the cache is newer than the server.
NoneNewer ==
    /\ own <= server /\ answer <= server /\ (data # None => data <= server)
    /\ change = "applied" => own <= sentOwn /\ sentOwn <= server

\* What the screens and the controls guarantee.
Shape ==
    /\ plan \in Plans
    /\ change = "settling" => step >= 1
    /\ open /\ fetch = "none" => data # None \/ error
    /\ plan.needed /\ change # "ready" => data # None

\* Only the answer of a change can be newer than that of a fetch.
AnswerNewer == ~plan.put /\ fetch = "answered" /\ data # None => answer >= data

\* Every change reaches the query in the end.
AllReached == \A p \in Plans : \E i \in 1 .. Len(p.steps) : p.steps[i]

\* A change whose answer replaces the data reaches the query with the first set.
PutsReachFirst == \A p \in Plans : p.put => p.steps[1]

FreshOnceReached == AllReached /\ Reached /\ ~missed => Fresh

IInv == TypeOK /\ Shape /\ NoneNewer /\ AnswerNewer /\ FreshOnceReached

-----------------------------------------------------------------------------
\* A plan has at least one set of keys.
LEMMA PlanShape ==
    ASSUME NEW p \in Plans
    PROVE  /\ p \in PlanType /\ Len(p.steps) \in Nat /\ Len(p.steps) >= 1
           /\ \A i \in 1 .. Len(p.steps) : p.steps[i] \in BOOLEAN
<1>1. p \in PlanType /\ p.steps # << >> /\ p.steps \in Seq(BOOLEAN)
  BY PlansAssumption DEF PlanType
<1> QED BY <1>1

\* No version is None.
LEMMA NoneIsNone == None \in Nat /\ Versions \subseteq Nat /\ \A v \in Versions : v # None
  BY MaxVersionAssumption DEF None, Versions

\* A change below the bound makes a version.
LEMMA NextVersion ==
    ASSUME NEW v \in Versions, v < MaxVersion
    PROVE  v + 1 \in Versions
  BY MaxVersionAssumption DEF Versions

-----------------------------------------------------------------------------
(***************************************************************************)
(* The query.                                                              *)
(***************************************************************************)
\* A screen that opens fetches what is missing or stale.
LEMMA OpenKeeps ==
    ASSUME IInv, Open
    PROVE  IInv'
<1> USE NoneIsNone DEF Open, Ask, cache, request, mutation
<1>1. TypeOK'
  BY DEF IInv, TypeOK
<1>2. Shape'
  BY DEF IInv, Shape, TypeOK
<1>3. NoneNewer'
  BY DEF IInv, NoneNewer, TypeOK
<1>4. AnswerNewer'
  BY DEF IInv, AnswerNewer, NoneNewer, TypeOK
<1>5. ASSUME AllReached PROVE Reached' /\ ~missed' => Fresh'
  BY <1>5 DEF IInv, FreshOnceReached, Reached, Fresh, Shape, NoneNewer, TypeOK
<1> QED
  BY <1>1, <1>2, <1>3, <1>4, <1>5 DEF IInv, FreshOnceReached, AllReached

\* A screen that closes hides its data.
LEMMA CloseKeeps ==
    ASSUME IInv, Close
    PROVE  IInv'
<1> USE NoneIsNone DEF Close, cache, request, mutation
<1>1. TypeOK'
  BY DEF IInv, TypeOK
<1>2. Shape'
  BY DEF IInv, Shape, TypeOK
<1>3. NoneNewer'
  BY DEF IInv, NoneNewer, TypeOK
<1>4. AnswerNewer'
  BY DEF IInv, AnswerNewer, NoneNewer, TypeOK
<1>5. ASSUME AllReached PROVE Reached' /\ ~missed' => Fresh'
  BY <1>5 DEF IInv, FreshOnceReached, Reached, Fresh, Shape, NoneNewer, TypeOK
<1> QED
  BY <1>1, <1>2, <1>3, <1>4, <1>5 DEF IInv, FreshOnceReached, AllReached

\* Data only grows stale.
LEMMA AgeKeeps ==
    ASSUME IInv, Age
    PROVE  IInv'
<1> USE NoneIsNone DEF Age, cache, request, mutation
<1>1. TypeOK'
  BY DEF IInv, TypeOK
<1>2. Shape'
  BY DEF IInv, Shape, TypeOK
<1>3. NoneNewer'
  BY DEF IInv, NoneNewer, TypeOK
<1>4. AnswerNewer'
  BY DEF IInv, AnswerNewer, NoneNewer, TypeOK
<1>5. ASSUME AllReached PROVE Reached' /\ ~missed' => Fresh'
  BY <1>5 DEF IInv, FreshOnceReached, Reached, Fresh, Shape, NoneNewer, TypeOK
<1> QED
  BY <1>1, <1>2, <1>3, <1>4, <1>5 DEF IInv, FreshOnceReached, AllReached

\* Nobody sees what is collected.
LEMMA CollectKeeps ==
    ASSUME IInv, Collect
    PROVE  IInv'
<1> USE NoneIsNone DEF Collect, cache, request, mutation
<1>1. TypeOK'
  BY DEF IInv, TypeOK
<1>2. Shape'
  BY DEF IInv, Shape, TypeOK
<1>3. NoneNewer'
  BY DEF IInv, NoneNewer, TypeOK
<1>4. AnswerNewer'
  BY DEF IInv, AnswerNewer, NoneNewer, TypeOK
<1>5. ASSUME AllReached PROVE Reached' /\ ~missed' => Fresh'
  BY <1>5 DEF IInv, FreshOnceReached, Reached, Fresh, Shape, NoneNewer, TypeOK
<1> QED
  BY <1>1, <1>2, <1>3, <1>4, <1>5 DEF IInv, FreshOnceReached, AllReached

\* The server answers with its newest.
LEMMA ServeFetchKeeps ==
    ASSUME IInv, ServeFetch
    PROVE  IInv'
<1> USE NoneIsNone DEF ServeFetch, cache, request, mutation
<1>1. TypeOK'
  BY DEF IInv, TypeOK
<1>2. Shape'
  BY DEF IInv, Shape, TypeOK
<1>3. NoneNewer'
  BY DEF IInv, NoneNewer, TypeOK
<1>4. AnswerNewer'
  BY DEF IInv, AnswerNewer, NoneNewer, TypeOK
<1>5. ASSUME AllReached PROVE Reached' /\ ~missed' => Fresh'
  BY <1>5 DEF IInv, FreshOnceReached, Reached, Fresh, Shape, NoneNewer, TypeOK
<1> QED
  BY <1>1, <1>2, <1>3, <1>4, <1>5 DEF IInv, FreshOnceReached, AllReached

\* A lost answer brings nothing.
LEMMA LoseFetchKeeps ==
    ASSUME IInv, LoseFetch
    PROVE  IInv'
<1> USE NoneIsNone DEF LoseFetch, cache, request, mutation
<1>1. TypeOK'
  BY DEF IInv, TypeOK
<1>2. Shape'
  BY DEF IInv, Shape, TypeOK
<1>3. NoneNewer'
  BY DEF IInv, NoneNewer, TypeOK
<1>4. AnswerNewer'
  BY DEF IInv, AnswerNewer, NoneNewer, TypeOK
<1>5. ASSUME AllReached PROVE Reached' /\ ~missed' => Fresh'
  BY <1>5 DEF IInv, FreshOnceReached, Reached, Fresh, Shape, NoneNewer, TypeOK
<1> QED
  BY <1>1, <1>2, <1>3, <1>4, <1>5 DEF IInv, FreshOnceReached, AllReached

\* An answer as new as the user's change makes up for what was missed.
LEMMA ReceiveFetchKeeps ==
    ASSUME IInv, ReceiveFetch
    PROVE  IInv'
<1> USE NoneIsNone DEF ReceiveFetch, cache, request, mutation
<1>1. TypeOK'
  BY DEF IInv, TypeOK
<1>2. Shape'
  BY DEF IInv, Shape, TypeOK
<1>3. NoneNewer'
  BY DEF IInv, NoneNewer, TypeOK
<1>4. AnswerNewer'
  BY DEF IInv, AnswerNewer, NoneNewer, TypeOK
<1>5. ASSUME AllReached PROVE Reached' /\ ~missed' => Fresh'
  BY <1>5 DEF IInv, FreshOnceReached, Reached, Fresh, Shape, NoneNewer, TypeOK
<1> QED
  BY <1>1, <1>2, <1>3, <1>4, <1>5 DEF IInv, FreshOnceReached, AllReached

\* A fetch tried again brings nothing yet.
LEMMA RetryFetchKeeps ==
    ASSUME IInv, RetryFetch
    PROVE  IInv'
<1> USE NoneIsNone DEF RetryFetch, cache, request, mutation
<1>1. TypeOK'
  BY DEF IInv, TypeOK
<1>2. Shape'
  BY DEF IInv, Shape, TypeOK
<1>3. NoneNewer'
  BY DEF IInv, NoneNewer, TypeOK
<1>4. AnswerNewer'
  BY DEF IInv, AnswerNewer, NoneNewer, TypeOK
<1>5. ASSUME AllReached PROVE Reached' /\ ~missed' => Fresh'
  BY <1>5 DEF IInv, FreshOnceReached, Reached, Fresh, Shape, NoneNewer, TypeOK
<1> QED
  BY <1>1, <1>2, <1>3, <1>4, <1>5 DEF IInv, FreshOnceReached, AllReached

\* A fetch given up leaves an error and stale data.
LEMMA GiveUpFetchKeeps ==
    ASSUME IInv, GiveUpFetch
    PROVE  IInv'
<1> USE NoneIsNone DEF GiveUpFetch, cache, request, mutation
<1>1. TypeOK'
  BY DEF IInv, TypeOK
<1>2. Shape'
  BY DEF IInv, Shape, TypeOK
<1>3. NoneNewer'
  BY DEF IInv, NoneNewer, TypeOK
<1>4. AnswerNewer'
  BY DEF IInv, AnswerNewer, NoneNewer, TypeOK
<1>5. ASSUME AllReached PROVE Reached' /\ ~missed' => Fresh'
  BY <1>5 DEF IInv, FreshOnceReached, Reached, Fresh, Shape, NoneNewer, TypeOK
<1> QED
  BY <1>1, <1>2, <1>3, <1>4, <1>5 DEF IInv, FreshOnceReached, AllReached

-----------------------------------------------------------------------------
(***************************************************************************)
(* The mutation.                                                           *)
(***************************************************************************)
\* A change is sent from a screen that has what it needs.
LEMMA SendChangeKeeps ==
    ASSUME IInv, SendChange
    PROVE  IInv'
<1> USE NoneIsNone DEF SendChange, cache, request, mutation
<1>1. TypeOK'
  BY DEF IInv, TypeOK
<1>2. Shape'
  BY DEF IInv, Shape, TypeOK
<1>3. NoneNewer'
  BY DEF IInv, NoneNewer, TypeOK
<1>4. AnswerNewer'
  BY DEF IInv, AnswerNewer, NoneNewer, TypeOK
<1>5. ASSUME AllReached PROVE Reached' /\ ~missed' => Fresh'
  BY <1>5 DEF IInv, FreshOnceReached, Reached, Fresh, Shape, NoneNewer, TypeOK
<1> QED
  BY <1>1, <1>2, <1>3, <1>4, <1>5 DEF IInv, FreshOnceReached, AllReached

\* A change applied is the newest version.
LEMMA ApplyChangeKeeps ==
    ASSUME IInv, ApplyChange
    PROVE  IInv'
<1> USE NoneIsNone DEF ApplyChange, cache, request, mutation
<1>1. TypeOK'
  BY NextVersion DEF IInv, TypeOK
<1>2. Shape'
  BY DEF IInv, Shape, TypeOK
<1>3. NoneNewer'
  BY DEF IInv, NoneNewer, TypeOK
<1>4. AnswerNewer'
  BY DEF IInv, AnswerNewer, NoneNewer, TypeOK
<1>5. ASSUME AllReached PROVE Reached' /\ ~missed' => Fresh'
  BY <1>5 DEF IInv, FreshOnceReached, Reached, Fresh, Shape, NoneNewer, TypeOK
<1> QED
  BY <1>1, <1>2, <1>3, <1>4, <1>5 DEF IInv, FreshOnceReached, AllReached

\* A change refused is none.
LEMMA FailChangeKeeps ==
    ASSUME IInv, FailChange
    PROVE  IInv'
<1> USE NoneIsNone DEF FailChange, cache, request, mutation
<1>1. TypeOK'
  BY DEF IInv, TypeOK
<1>2. Shape'
  BY DEF IInv, Shape, TypeOK
<1>3. NoneNewer'
  BY DEF IInv, NoneNewer, TypeOK
<1>4. AnswerNewer'
  BY DEF IInv, AnswerNewer, NoneNewer, TypeOK
<1>5. ASSUME AllReached PROVE Reached' /\ ~missed' => Fresh'
  BY <1>5 DEF IInv, FreshOnceReached, Reached, Fresh, Shape, NoneNewer, TypeOK
<1> QED
  BY <1>1, <1>2, <1>3, <1>4, <1>5 DEF IInv, FreshOnceReached, AllReached

\* The change of another only makes the server newer.
LEMMA OtherChangeKeeps ==
    ASSUME IInv, OtherChange
    PROVE  IInv'
<1> USE NoneIsNone DEF OtherChange, cache, request, mutation
<1>1. TypeOK'
  BY NextVersion DEF IInv, TypeOK
<1>2. Shape'
  BY DEF IInv, Shape, TypeOK
<1>3. NoneNewer'
  BY DEF IInv, NoneNewer, TypeOK
<1>4. AnswerNewer'
  BY DEF IInv, AnswerNewer, NoneNewer, TypeOK
<1>5. ASSUME AllReached PROVE Reached' /\ ~missed' => Fresh'
  BY <1>5 DEF IInv, FreshOnceReached, Reached, Fresh, Shape, NoneNewer, TypeOK
<1> QED
  BY <1>1, <1>2, <1>3, <1>4, <1>5 DEF IInv, FreshOnceReached, AllReached

-----------------------------------------------------------------------------
(***************************************************************************)
(* Invalidation.                                                           *)
(***************************************************************************)
\* Once the query has been reached its data is fresh, or an invalidation was missed: reached
\* before, it was fresh already; reached now, it is marked stale, and refetched if it is seen.
LEMMA InvalidateFresh ==
    ASSUME TypeOK, TypeOK', NEW i \in 1 .. Len(plan.steps), plan \in Plans,
           Invalidate(i, data', IF change = "applied" THEN stale /\ ~plan.put ELSE stale),
           change' = "settling", plan' = plan, open' = open,
           ~missed /\ (\E j \in 1 .. i - 1 : plan.steps[j]) => Fresh,
           (data' = data /\ own' = own /\ error' = error /\ change # "applied") \/ i = 1,
           open /\ fetch = "none" => data' # None \/ error'
    PROVE  Reached' /\ ~missed' => Fresh'
<1>1. plan.steps[i] \in BOOLEAN
  BY PlanShape
<1>2. CASE plan.steps[i]
  BY <1>2, NoneIsNone DEF Invalidate, Ask, Fresh, request, TypeOK
<1>3. CASE ~plan.steps[i]
  <2>1. Reached' => i # 1 /\ \E j \in 1 .. i - 1 : plan.steps[j]
    BY <1>3, PlanShape DEF Reached, Invalidate
  <2> QED
    BY <1>3, <2>1 DEF Invalidate, Fresh, request
<1> QED
  BY <1>1, <1>2, <1>3

LEMMA ReceiveChangeKeeps ==
    ASSUME IInv, ReceiveChange
    PROVE  IInv'
<1> USE NoneIsNone, PlanShape DEF ReceiveChange, request
<1>1. TypeOK'
  <2>1. plan \in Plans /\ plan' = plan /\ 1 \in 0 .. Len(plan.steps) /\ plan.steps[1] \in BOOLEAN
    BY DEF IInv, Shape, TypeOK
  <2>2. step' \in 0 .. Len(plan'.steps) /\ awaiting' \in BOOLEAN /\ missed' \in BOOLEAN
    BY <2>1 DEF IInv, TypeOK, Invalidate
  <2>3. stale' \in BOOLEAN
    BY <2>1 DEF IInv, TypeOK, Invalidate
  <2>4. fetch' \in {"none", "asked", "answered", "failed"} /\ answer' \in Versions
        /\ retried' \in BOOLEAN
    BY <2>1 DEF IInv, TypeOK, Invalidate, Ask
  <2> QED
    BY <2>1, <2>2, <2>3, <2>4 DEF IInv, TypeOK, PlanType
<1>2. Shape'
  BY DEF IInv, Shape, TypeOK, Invalidate, Ask
<1>3. NoneNewer'
  BY DEF IInv, NoneNewer, TypeOK, Invalidate, Ask
<1>4. AnswerNewer'
  BY DEF IInv, AnswerNewer, NoneNewer, TypeOK, Shape, PlanType, Invalidate, Ask
<1>5. ASSUME AllReached PROVE Reached' /\ ~missed' => Fresh'
  <2>1. 1 \in 1 .. Len(plan.steps) /\ plan \in Plans
    BY DEF IInv, Shape
  <2>2. open /\ fetch = "none" => data' # None \/ error'
    BY DEF IInv, Shape, TypeOK
  <2> QED
    BY <1>1, <1>5, <2>1, <2>2, InvalidateFresh DEF IInv, FreshOnceReached
<1> QED
  BY <1>1, <1>2, <1>3, <1>4, <1>5 DEF IInv, FreshOnceReached, AllReached

LEMMA NextSetKeeps ==
    ASSUME IInv, NextSet
    PROVE  IInv'
<1> USE NoneIsNone, PlanShape DEF NextSet, request
<1>1. TypeOK'
  <2>1. plan \in Plans /\ plan' = plan /\ step + 1 \in 0 .. Len(plan.steps)
        /\ plan.steps[step + 1] \in BOOLEAN
    BY DEF IInv, Shape, TypeOK
  <2>2. step' \in 0 .. Len(plan'.steps) /\ awaiting' \in BOOLEAN /\ missed' \in BOOLEAN
    BY <2>1 DEF IInv, TypeOK, Invalidate
  <2>3. stale' \in BOOLEAN
    BY <2>1 DEF IInv, TypeOK, Invalidate
  <2>4. fetch' \in {"none", "asked", "answered", "failed"} /\ answer' \in Versions
        /\ retried' \in BOOLEAN
    BY <2>1 DEF IInv, TypeOK, Invalidate, Ask
  <2> QED
    BY <2>1, <2>2, <2>3, <2>4 DEF IInv, TypeOK, PlanType
<1>2. Shape'
  BY DEF IInv, Shape, TypeOK, Invalidate, Ask
<1>3. NoneNewer'
  BY DEF IInv, NoneNewer, TypeOK, Invalidate, Ask
<1>4. AnswerNewer'
  BY DEF IInv, AnswerNewer, NoneNewer, TypeOK, Shape, PlanType, Invalidate, Ask
<1>5. ASSUME AllReached PROVE Reached' /\ ~missed' => Fresh'
  <2>1. step + 1 \in 1 .. Len(plan.steps) /\ plan \in Plans /\ step \in Nat
    BY DEF IInv, Shape, TypeOK
  <2>2. ~missed /\ (\E j \in 1 .. (step + 1) - 1 : plan.steps[j]) => Fresh
    BY <1>5, <2>1 DEF IInv, FreshOnceReached, Reached
  <2>3. open /\ fetch = "none" => data' # None \/ error'
    BY DEF IInv, Shape, TypeOK
  <2> QED
    BY <1>1, <2>1, <2>2, <2>3, InvalidateFresh DEF IInv
<1> QED
  BY <1>1, <1>2, <1>3, <1>4, <1>5 DEF IInv, FreshOnceReached, AllReached

\* A change that has resolved has reached the query.
LEMMA ResolveKeeps ==
    ASSUME IInv, Resolve
    PROVE  IInv'
<1> USE NoneIsNone DEF Resolve, cache, request
<1>1. TypeOK'
  <2>1. plan' = plan /\ plan \in Plans /\ step' \in 0 .. Len(plan.steps)
    BY PlanShape DEF IInv, Shape
  <2> QED
    BY <2>1 DEF IInv, TypeOK
<1>2. Shape'
  BY DEF IInv, Shape, TypeOK
<1>3. NoneNewer'
  BY DEF IInv, NoneNewer, TypeOK
<1>4. AnswerNewer'
  BY DEF IInv, AnswerNewer
<1>5. ASSUME AllReached PROVE Reached' /\ ~missed' => Fresh'
  <2>1. Reached
    BY <1>5 DEF Reached, AllReached, IInv, Shape
  <2> QED
    BY <1>5, <2>1 DEF IInv, FreshOnceReached, Fresh
<1> QED
  BY <1>1, <1>2, <1>3, <1>4, <1>5 DEF IInv, FreshOnceReached, AllReached

-----------------------------------------------------------------------------
(***************************************************************************)
(* The specification.                                                      *)
(***************************************************************************)
LEMMA InitInv == Init => IInv
<1> SUFFICES ASSUME Init PROVE IInv
  OBVIOUS
<1> USE NoneIsNone, PlanShape DEF Init
<1>1. TypeOK
  <2>1. 0 \in Versions
    BY MaxVersionAssumption DEF Versions
  <2>2. plan \in PlanType /\ 0 \in 0 .. Len(plan.steps)
    OBVIOUS
  <2> QED
    BY <2>1, <2>2 DEF TypeOK
<1>2. Shape /\ NoneNewer /\ AnswerNewer
  BY DEF Shape, NoneNewer, AnswerNewer
<1>3. FreshOnceReached
  BY DEF FreshOnceReached, Fresh
<1> QED
  BY <1>1, <1>2, <1>3 DEF IInv

LEMMA StutterKeeps ==
    ASSUME IInv, UNCHANGED vars
    PROVE  IInv'
  BY DEF vars, cache, request, mutation, IInv, TypeOK, Shape, NoneNewer, AnswerNewer,
         FreshOnceReached, AllReached, Reached, Fresh

LEMMA NextInv == IInv /\ [Next]_vars => IInv'
<1> SUFFICES ASSUME IInv, [Next]_vars PROVE IInv'
  OBVIOUS
<1>1. CASE Open \/ Close \/ Age \/ Collect
  BY <1>1, OpenKeeps, CloseKeeps, AgeKeeps, CollectKeeps
<1>2. CASE FetchStep
  BY <1>2, ServeFetchKeeps, LoseFetchKeeps, ReceiveFetchKeeps, RetryFetchKeeps, GiveUpFetchKeeps
     DEF FetchStep
<1>3. CASE ChangeStep
  BY <1>3, ApplyChangeKeeps, FailChangeKeeps, ReceiveChangeKeeps, NextSetKeeps, ResolveKeeps
     DEF ChangeStep
<1>4. CASE SendChange \/ OtherChange
  BY <1>4, SendChangeKeeps, OtherChangeKeeps
<1> QED
  BY <1>1, <1>2, <1>3, <1>4, StutterKeeps DEF Next

LEMMA Invariance == Spec => []IInv
  BY InitInv, NextInv, PTL DEF Spec

\* Every variable of the cache, the screen and the mutation keeps its type.
THEOREM TypeCorrect == Spec => []TypeOK
<1>1. IInv => TypeOK
  BY DEF IInv
<1> QED
  BY <1>1, Invariance, PTL

\* If every change reaches the query in the end (AllReached), a resolved change of the user is
\* never shown undone: invalidateQueries, refetching and retrying included.
THEOREM OwnChangeIsShown == AllReached => (Spec => []OwnChangeShown)
<1> SUFFICES ASSUME AllReached PROVE Spec => []OwnChangeShown
  OBVIOUS
<1>1. IInv => OwnChangeShown
  BY DEF IInv, FreshOnceReached, Reached, Fresh, Shape, OwnChangeShown
<1> QED
  BY <1>1, Invariance, PTL

\* An invalidation leaves a fetch alone only where nobody sees it, whatever the plan.
THEOREM InvalidationMissesOnlyUnseen == Spec => MissedOnlyUnseen
<1>1. IInv /\ IInv' /\ [Next]_vars => [~missed /\ missed' => ~open \/ ~plan.needed]_vars
  <2> SUFFICES ASSUME IInv, IInv', [Next]_vars, ~missed, missed'
               PROVE  ~open \/ ~plan.needed
    OBVIOUS
  <2>1. ReceiveChange \/ NextSet
    BY DEF Next, FetchStep, ChangeStep, Open, Close, Age, Collect, SendChange, OtherChange,
           ServeFetch, LoseFetch, ReceiveFetch, RetryFetch, GiveUpFetch, ApplyChange, FailChange,
           Resolve, vars
  <2>2. change' = "settling" /\ plan' = plan /\ open' = open /\ (open => data' = None)
    BY <2>1, PlanShape DEF ReceiveChange, NextSet, Invalidate
  <2> QED
    BY <2>2 DEF IInv, Shape
<1> QED
  BY <1>1, Invariance, PTL DEF Spec, MissedOnlyUnseen

\* If, besides, a change whose answer replaces the data reaches the query at once, an open screen
\* never goes back to an older version.
THEOREM ShownOnlyGoesForward == AllReached /\ PutsReachFirst => (Spec => ShownNeverGoesBack)
<1> SUFFICES ASSUME AllReached, PutsReachFirst PROVE Spec => ShownNeverGoesBack
  OBVIOUS
<1> DEFINE Bound == IF plan.put THEN (IF data >= own THEN own ELSE data) ELSE data
<1>1. IInv /\ [Next]_vars => [open /\ data # None /\ data' # None /\ ~missed => data' >= Bound]_vars
  <2> SUFFICES ASSUME IInv, [Next]_vars, open, data # None, data' # None, ~missed
               PROVE  data' >= Bound
    OBVIOUS
  <2>1. data \in Nat /\ own \in Nat /\ sentOwn \in Nat /\ answer \in Nat /\ plan \in Plans
        /\ plan.put \in BOOLEAN /\ (change = "applied" => own <= sentOwn)
    BY NoneIsNone, PlanShape DEF IInv, TypeOK, Shape, NoneNewer, PlanType
  <2>2. CASE data' = data
    BY <2>1, <2>2
  <2>3. CASE ReceiveFetch
    <3>1. CASE plan.put
      <4>1. Reached
        BY <2>1, <3>1 DEF IInv, Shape, TypeOK, Reached, PutsReachFirst
      <4>2. answer >= own
        BY <2>3, <4>1 DEF IInv, FreshOnceReached, Fresh, ReceiveFetch
      <4> QED
        BY <2>1, <2>3, <3>1, <4>2 DEF ReceiveFetch
    <3>2. CASE ~plan.put
      BY <2>1, <2>3, <3>2 DEF ReceiveFetch, IInv, AnswerNewer
    <3> QED
      BY <2>1, <3>1, <3>2
  <2>4. CASE ReceiveChange
    BY <2>1, <2>4 DEF ReceiveChange
  <2>5. data' = data \/ ReceiveFetch \/ ReceiveChange
    BY DEF Next, FetchStep, ChangeStep, Open, Close, Age, Collect, SendChange, OtherChange,
           ServeFetch, LoseFetch, RetryFetch, GiveUpFetch, ApplyChange, FailChange, NextSet,
           Resolve, vars, cache
  <2> QED
    BY <2>2, <2>3, <2>4, <2>5
<1> QED
  BY <1>1, Invariance, PTL DEF Spec, ShownNeverGoesBack

=============================================================================
