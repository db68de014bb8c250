---------------------------- MODULE ClientTables ----------------------------
(***************************************************************************)
(* The vocabulary in which the client is described: requests, cached       *)
(* queries, mutations and screens are records of tables indexed by the     *)
(* names the source gives them.                                            *)
(***************************************************************************)
EXTENDS Access, Naturals

\* A request of services/api: whom the server lets through, and the records it reads or changes.
Reads(gate, what) == [kind |-> "read", gate |-> gate, what |-> what]
Writes(gate, what) == [kind |-> "write", gate |-> gate, what |-> what]

\* A cached query: its key and the request that answers it.
Query(key, request) == [key |-> key, request |-> request]

\* A mutation: its request and, once answered, the keys whose data the answer replaces (puts) and
\* the keys it invalidates, set after set: a set waits for the refetches of the one before it.
Mutation(request, then) == [request |-> request, puts |-> {}, then |-> then]
MutationPutting(request, puts, then) == [request |-> request, puts |-> puts, then |-> then]

\* await invalidateQueries(k1); await invalidateQueries(k2); ...
OneByOne(keys) == [i \in 1 .. Len(keys) |-> {keys[i]}]
\* await Promise.all([invalidateQueries(k1), ...])
AllAtOnce(keys) == <<keys>>

\* A screen: the queries it runs, those it needs the data of before it offers anything, the
\* mutations it offers and the pages it links to. All but needs are (name, gate) pairs.
Screen(reads, needs, offers, links) ==
    [reads |-> reads, needs |-> needs, offers |-> offers, links |-> links]
Shows(reads) == Screen(reads, {}, {}, {})
Offers(offers) == Screen({}, {}, offers, {})
Links(links) == Screen({}, {}, {}, links)

\* A screen with another inside it.
a ++ b == Screen(a.reads \cup b.reads, a.needs \cup b.needs, a.offers \cup b.offers,
                 a.links \cup b.links)

\* A component that runs its queries and only then wraps what it shows in a guard.
Guarded(gate, s) ==
    [s EXCEPT !.offers = {<<o[1], o[2] \cap gate>> : o \in s.offers},
              !.links = {<<l[1], l[2] \cap gate>> : l \in s.links}]

\* A component shown behind a guard: nothing of it runs without.
Inside(gate, s) ==
    [Guarded(gate, s) EXCEPT !.reads = {<<q[1], q[2] \cap gate>> : q \in s.reads}]

\* A page of the router: who may open it, and its screen.
Page(guard, screen) == [guard |-> guard, screen |-> screen]

=============================================================================
