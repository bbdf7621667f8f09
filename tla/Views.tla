------------------------------- MODULE Views -------------------------------
(***************************************************************************)
(* What a page or panel of the web client shows while the queries it reads *)
(* are asked, answered, refused, retried and asked again.  Which view it   *)
(* is, is a row of ViewTables.  The query client (main.tsx) retries once   *)
(* and keeps the data of a query whose refetch failed; no view has a       *)
(* button to try again.                                                    *)
(***************************************************************************)
EXTENDS Naturals, FiniteSets

CONSTANTS
    ViewRows,        \* the views (ViewTables)
    MaxRefetches,    \* refetches of each query: an invalidation, or a mount with stale data
    KnownFalse,      \* views that may call a list empty that is not known to be
    KnownLoaders,    \* views that may keep their loader
    KnownCrashes     \* views that may throw

ASSUME ViewAssumption == MaxRefetches \in Nat

\* The view waits for every list it may call empty, looks at its failure, and asks
\* for it at once.
Waits(v) ==
    \A lists \in v.none : lists \subseteq (v.wait \cap v.fail) \ ({"workspace"} \cup {a[1] : a \in v.after})

\* The views are careful, known exceptions apart.
Careful ==
    \A v \in ViewRows :
        /\ v.name \in KnownFalse \/ Waits(v)
        /\ v.lacking # "content"
        /\ v.lacking = "crash" => v.name \in KnownCrashes

VARIABLES
    view,       \* the row of the view
    stored,     \* does localStorage name a workspace?
    data,       \* data[q]: "unknown", an empty answer "none", or "some"
    status,     \* status[q] of useQuery
    fetch,      \* fetch[q]: "idle", "fetching", or "retrying" after one failure
    refetches   \* refetches[q] so far

viewVars == <<view, stored, data, status, fetch, refetches>>

\* "workspace" is the id, found in the query "workspaces".
Read(q) == IF q = "workspace" THEN "workspaces" ELSE q
QueriesOf(v) ==
    {Read(q) : q \in v.wait \cup v.fail \cup v.need \cup UNION v.none \cup UNION {{a[1], a[2]} : a \in v.after}}
Queries == QueriesOf(view)

ViewTypeOK ==
    /\ view \in ViewRows /\ stored \in BOOLEAN
    /\ data \in [Queries -> {"unknown", "none", "some"}]
    /\ status \in [Queries -> {"pending", "error", "success"}]
    /\ fetch \in [Queries -> {"idle", "fetching", "retrying"}]
    /\ refetches \in [Queries -> 0..MaxRefetches]
    /\ \A q \in Queries : /\ status[q] = "pending" => data[q] = "unknown"
                          /\ status[q] = "success" => data[q] # "unknown"

\* What must be known before a query is asked, and whether it is.
Has(p) == data[Read(p)] = "some" \/ (p = "workspace" /\ stored)
Enabled(q) == \A a \in view.after : a[1] = q => Has(a[2])

\* An enabled query is asked as soon as the view is mounted.
Fetching(q) == fetch[q] # "idle" \/ (Enabled(q) /\ status[q] = "pending")
IsLoading(q) == status[q] = "pending" /\ Fetching(q)

ViewInit ==
    /\ view \in ViewRows /\ stored \in BOOLEAN
    /\ data = [q \in Queries |-> "unknown"] /\ status = [q \in Queries |-> "pending"]
    /\ fetch = [q \in Queries |-> "idle"] /\ refetches = [q \in Queries |-> 0]

----------------------------------------------------------------------------
\* What a needed object answers is never empty: not found is a failure.
Answers(q) == IF q \in {Read(n) : n \in view.need} \ {"workspaces"} THEN {"some"} ELSE {"none", "some"}

Answer(q) ==
    /\ Fetching(q)
    /\ \E d \in Answers(q) : data' = [data EXCEPT ![q] = d]
    /\ status' = [status EXCEPT ![q] = "success"] /\ fetch' = [fetch EXCEPT ![q] = "idle"]
    /\ UNCHANGED <<view, stored, refetches>>

\* A failed attempt: the first is retried.
Miss(q) ==
    /\ Fetching(q)
    /\ IF fetch[q] = "retrying"
       THEN status' = [status EXCEPT ![q] = "error"] /\ fetch' = [fetch EXCEPT ![q] = "idle"]
       ELSE fetch' = [fetch EXCEPT ![q] = "retrying"] /\ UNCHANGED status
    /\ UNCHANGED <<view, stored, data, refetches>>

\* A mutation's invalidation, or the view mounted again.  Without data the
\* query is pending anew.
AskAgain(q) ==
    /\ Enabled(q) /\ ~Fetching(q) /\ refetches[q] < MaxRefetches
    /\ refetches' = [refetches EXCEPT ![q] = @ + 1]
    /\ fetch' = [fetch EXCEPT ![q] = "fetching"]
    /\ status' = [status EXCEPT ![q] = IF data[q] = "unknown" THEN "pending" ELSE @]
    /\ UNCHANGED <<view, stored, data>>

ViewNext == \E q \in Queries : Answer(q) \/ Miss(q) \/ AskAgain(q)

\* A request the browser sends ends: it is answered, refused or broken off.
Ends == \E q \in Queries : Answer(q) \/ Miss(q)
Fairness == WF_viewVars(Ends)

ViewSpec == ViewInit /\ [][ViewNext]_viewVars /\ Fairness

----------------------------------------------------------------------------
\* Mutant: the views no longer look at isError.
ScreenBlind ==
    IF \E q \in view.wait : IsLoading(q) THEN "loading"
    ELSE IF \E q \in view.need : ~Has(q) THEN view.lacking
    ELSE "content"

\* The guards at the head of every view, in their order.
Screen ==
    IF \E q \in view.wait : IsLoading(q) THEN "loading"
    ELSE IF \E q \in view.fail : status[q] = "error" THEN "error"
    ELSE IF \E q \in view.need : ~Has(q) THEN view.lacking
    ELSE "content"

\* A list is called empty only after the server answered that it is: a read
\* that failed, runs, or was never asked for is not an empty list.  And no
\* failed read makes a view throw.
EmptyIsTold ==
    /\ Screen = "content" /\ view.name \notin KnownFalse =>
           \A lists \in view.none :
               (\A q \in lists : data[q] # "some") => \A q \in lists : data[q] = "none"
    /\ Screen = "crash" => view.name \in KnownCrashes

\* A loader gives way: to the content, or to the failure.
LoadingEnds == Screen = "loading" ~> Screen # "loading" \/ view.name \in KnownLoaders
=============================================================================
