----------------------------- MODULE QueryCache -----------------------------
(***************************************************************************)
(* The client's query cache (TanStack Query as the query provider sets it  *)
(* up): one cached query on a screen that opens and closes, one mutation   *)
(* of the user that changes what the query reads, and other users' changes.*)
(* The records on the server are abstracted to a version number.           *)
(*                                                                         *)
(* A plan says how the mutation treats the query once it is answered:      *)
(* whether its answer replaces the cached data (put), for each set of keys *)
(* it invalidates, in order, whether the query's key is among them (steps),*)
(* whether the screen of the query is the one that offers the mutation     *)
(* (here), and whether it does only once the query has data (needed).      *)
(***************************************************************************)
EXTENDS Naturals, Sequences

CONSTANTS Plans,        \* the plans of the (query, mutation) pairs of the client
          MaxVersion    \* bound: changes of the records, by the user or by others

None == MaxVersion + 1  \* no data yet

Versions == 0 .. MaxVersion

PlanType == [put : BOOLEAN, here : BOOLEAN, needed : BOOLEAN, steps : Seq(BOOLEAN)]

ASSUME PlansAssumption ==
    Plans \subseteq PlanType /\ \A p \in Plans : p.steps # << >>
ASSUME MaxVersionAssumption == MaxVersion \in Nat

VARIABLES
    plan,      \* the pair looked at
    server,    \* the version the server has
    open,      \* the screen of the query is open
    data,      \* the cached version, or None
    stale,     \* the data is invalidated, or older than staleTime (30 s)
    error,     \* the last fetch failed
    fetch,     \* "none", "asked", "answered" or "failed"
    answer,    \* what the server answered the fetch
    retried,   \* the fetch has been retried (retry: 1)
    change,    \* the mutation: "ready", "sent", "applied", "settling"
    step,      \* the set of keys being invalidated
    awaiting,  \* the invalidation waits for the refetch of the query
    own,       \* the version of the user's last change that was answered
    sentOwn,   \* the version of the change under way, once applied
    missed     \* an invalidation met a fetch it did not replace

cache == <<data, stale, error>>
request == <<fetch, answer, retried>>
mutation == <<change, step, awaiting, own, sentOwn>>
vars == <<plan, server, open, cache, request, mutation, missed>>

TypeOK ==
    /\ plan \in PlanType /\ server \in Versions /\ open \in BOOLEAN
    /\ data \in Versions \cup {None} /\ stale \in BOOLEAN /\ error \in BOOLEAN
    /\ fetch \in {"none", "asked", "answered", "failed"}
    /\ answer \in Versions /\ retried \in BOOLEAN
    /\ change \in {"ready", "sent", "applied", "settling"}
    /\ step \in 0 .. Len(plan.steps) /\ awaiting \in BOOLEAN
    /\ own \in Versions /\ sentOwn \in Versions /\ missed \in BOOLEAN

Init ==
    /\ plan \in Plans /\ server = 0 /\ open = FALSE
    /\ data = None /\ stale = FALSE /\ error = FALSE
    /\ fetch = "none" /\ answer = 0 /\ retried = FALSE
    /\ change = "ready" /\ step = 0 /\ awaiting = FALSE /\ own = 0 /\ sentOwn = 0
    /\ missed = FALSE

---------------------------------------------------------------------------
\* The query.

Ask == fetch' = "asked" /\ retried' = FALSE /\ answer' = answer

\* The screen opens: without data, with stale data or after an error the query is fetched,
\* unless a fetch is under way.
Open ==
    /\ ~open /\ open' = TRUE
    /\ IF fetch = "none" /\ (data = None \/ stale) THEN Ask ELSE UNCHANGED request
    /\ UNCHANGED <<plan, server, cache, mutation, missed>>

\* The screen closes; a fetch under way goes on.
Close == open /\ open' = FALSE /\ UNCHANGED <<plan, server, cache, request, mutation, missed>>

\* staleTime has passed.
Age ==
    /\ data # None /\ ~stale /\ stale' = TRUE
    /\ UNCHANGED <<plan, server, open, data, error, request, mutation, missed>>

\* gcTime has passed since the screen closed; no request takes that long.
Collect ==
    /\ ~open /\ fetch = "none" /\ change = "ready" /\ data # None
    /\ data' = None /\ stale' = FALSE /\ error' = FALSE
    /\ UNCHANGED <<plan, server, open, request, mutation, missed>>

\* The server answers with what it has now.
ServeFetch ==
    /\ fetch = "asked" /\ fetch' = "answered" /\ answer' = server
    /\ UNCHANGED <<plan, server, open, cache, retried, mutation, missed>>

\* The request or its answer is lost, or the server fails.
LoseFetch ==
    /\ fetch \in {"asked", "answered"} /\ fetch' = "failed"
    /\ UNCHANGED <<plan, server, open, cache, answer, retried, mutation, missed>>

\* The answer arrives: it replaces the data and clears any invalidation.
ReceiveFetch ==
    /\ fetch = "answered" /\ fetch' = "none"
    /\ data' = answer /\ stale' = FALSE /\ error' = FALSE
    /\ awaiting' = FALSE /\ missed' = (missed /\ answer < own)
    /\ UNCHANGED <<plan, server, open, answer, retried, change, step, own, sentOwn>>

\* A failed fetch is tried once more, then the query is in error.
\* Wrong: a fetch is tried again for ever.
RetryFetchForEver ==
    /\ fetch = "failed" /\ fetch' = "asked"
    /\ UNCHANGED <<plan, server, open, cache, answer, retried, mutation, missed>>

RetryFetch ==
    /\ fetch = "failed" /\ ~retried /\ fetch' = "asked" /\ retried' = TRUE
    /\ UNCHANGED <<plan, server, open, cache, answer, mutation, missed>>

\* Wrong: the mutation is not told that the refetch failed.
GiveUpFetchSilently ==
    /\ fetch = "failed" /\ retried /\ fetch' = "none"
    /\ error' = TRUE /\ stale' = TRUE
    /\ UNCHANGED <<plan, server, open, data, answer, retried, mutation, missed>>

GiveUpFetch ==
    /\ fetch = "failed" /\ retried /\ fetch' = "none"
    /\ error' = TRUE /\ stale' = TRUE /\ awaiting' = FALSE
    /\ UNCHANGED <<plan, server, open, data, answer, retried, change, step, own, sentOwn, missed>>

---------------------------------------------------------------------------
\* The mutation.

\* The user changes what the query shows, on its screen or on another; the control is disabled
\* while a change is pending.
SendChange ==
    /\ open = plan.here /\ change = "ready" /\ (plan.needed => data # None)
    /\ server < MaxVersion
    /\ change' = "sent"
    /\ UNCHANGED <<plan, server, open, cache, request, step, awaiting, own, sentOwn, missed>>

\* Wrong: the change is sent, and applied, twice.
ApplyChangeTwice ==
    /\ change = "sent" /\ server < MaxVersion
    /\ server' = server + 2 /\ change' = "applied" /\ sentOwn' = server + 2
    /\ UNCHANGED <<plan, open, cache, request, step, awaiting, own, missed>>

ApplyChange ==
    /\ change = "sent" /\ server < MaxVersion
    /\ server' = server + 1 /\ change' = "applied" /\ sentOwn' = server + 1
    /\ UNCHANGED <<plan, open, cache, request, step, awaiting, own, missed>>

\* The change is refused, or its answer is lost: nothing is invalidated, mutations have no retry.
FailChange ==
    /\ change \in {"sent", "applied"} /\ change' = "ready"
    /\ UNCHANGED <<plan, server, open, cache, request, step, awaiting, own, sentOwn, missed>>

OtherChange ==
    /\ server < MaxVersion /\ server' = server + 1
    /\ UNCHANGED <<plan, open, cache, request, mutation, missed>>

\* Wrong: a fetch under way is always joined.
InvalidateJoining(i, d, s) ==
    /\ step' = i
    /\ IF ~plan.steps[i]
       THEN stale' = s /\ awaiting' = FALSE /\ UNCHANGED <<request, missed>>
       ELSE /\ stale' = TRUE /\ awaiting' = open
            /\ IF open /\ fetch = "none"
               THEN Ask /\ UNCHANGED missed
               ELSE UNCHANGED request /\ missed' = (missed \/ fetch # "none")

\* invalidateQueries of the i-th set: the data is stale and a query on an open screen is
\* refetched. A fetch under way is replaced, unless there is no data yet: then it is joined.
\* A query on a closed screen is not refetched, and a fetch of it under way is left alone.
\* d and s are the data and the staleness the invalidation finds.
Invalidate(i, d, s) ==
    /\ step' = i
    /\ IF ~plan.steps[i]
       THEN stale' = s /\ awaiting' = FALSE /\ UNCHANGED <<request, missed>>
       ELSE /\ stale' = TRUE /\ awaiting' = open
            /\ IF open /\ (fetch = "none" \/ d # None)
               THEN Ask /\ UNCHANGED missed
               ELSE UNCHANGED request /\ missed' = (missed \/ fetch # "none")

\* The answer of the change arrives: its data is put in the cache, the first set is invalidated.
ReceiveChange ==
    /\ change = "applied" /\ change' = "settling"
    /\ own' = sentOwn
    /\ data' = IF plan.put THEN sentOwn ELSE data
    /\ error' = (error /\ ~plan.put)
    /\ Invalidate(1, data', stale /\ ~plan.put)
    /\ UNCHANGED <<plan, server, open, sentOwn>>

NextSet ==
    /\ change = "settling" /\ ~awaiting /\ step < Len(plan.steps)
    /\ Invalidate(step + 1, data, stale)
    /\ UNCHANGED <<plan, server, open, data, error, change, own, sentOwn>>

\* The last refetch has settled: the mutation resolves.
Resolve ==
    /\ change = "settling" /\ ~awaiting /\ step = Len(plan.steps)
    /\ change' = "ready" /\ step' = 0 /\ awaiting' = FALSE
    /\ UNCHANGED <<plan, server, open, cache, request, own, sentOwn, missed>>

---------------------------------------------------------------------------
FetchStep == ServeFetch \/ LoseFetch \/ ReceiveFetch \/ RetryFetch \/ GiveUpFetch
ChangeStep == ApplyChange \/ FailChange \/ ReceiveChange \/ NextSet \/ Resolve
Next == Open \/ Close \/ Age \/ Collect \/ SendChange \/ OtherChange \/ FetchStep \/ ChangeStep

\* Requests are answered or fail, and the client's own steps are taken.
Fairness == WF_vars(FetchStep) /\ WF_vars(ChangeStep)
Spec == Init /\ [][Next]_vars /\ Fairness

---------------------------------------------------------------------------
\* Properties.

\* What the screen shows is never older than a change of the user that has resolved, unless the
\* invalidation met a fetch it did not replace.
OwnChangeShown ==
    open /\ change = "ready" /\ fetch = "none" /\ ~error /\ ~missed =>
        data # None /\ data >= own

\* While the screen is open its data never goes back to an older version, unless the invalidation
\* met a fetch it did not replace. The answer of a change may be older than what another user's
\* change has already brought; not than the user's own.
ShownNeverGoesBack ==
    [][open /\ data # None /\ data' # None /\ ~missed =>
           data' >= IF plan.put THEN (IF data >= own THEN own ELSE data) ELSE data]_vars

\* An invalidation meets a fetch it does not replace only on a closed screen, or on one that
\* offers the change without having its data.
MissedOnlyUnseen == [][~missed /\ missed' => ~open \/ ~plan.needed]_vars

\* Every change is answered, refused or lost, and the control is enabled again.
ChangeResolves == change # "ready" ~> change = "ready"

\* A screen that stays open gets its data or an error.
ScreenSettles == open ~> (~open \/ data # None \/ error)

=============================================================================
