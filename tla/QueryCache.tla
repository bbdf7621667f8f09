----------------------------- MODULE QueryCache -----------------------------
(***************************************************************************)
(* The client's cache of server data: one entry of the TanStack Query      *)
(* client of web/src/main.tsx, mounted and unmounted by components, filled *)
(* by fetches, and invalidated by the onSuccess callbacks of the mutation  *)
(* hooks under web/src/hooks.  Entries do not interact, so one entry,      *)
(* chosen at the start, stands for all of them.                            *)
(*                                                                         *)
(* Only this tab's own mutations change the server here: what other users  *)
(* write is seen when an entry is older than staleTime, as the code        *)
(* intends.                                                                *)
(***************************************************************************)
CONSTANTS
    Keys,           \* query keys
    Mutations,      \* mutation hooks
    Tables,         \* the server's tables
    Callers,        \* components that may have a mutation under way
    Reads,          \* Reads[k]: tables the endpoint behind key k answers from
    Writes,         \* Writes[m]: tables the endpoint behind mutation m changes
    Hits,           \* Hits[m]: keys the hook's onSuccess invalidates
    KnownGaps,      \* pairs <<m, k>> the hooks are known not to cover
    RequestsMayFail  \* may a request be lost, or its answer?

ASSUME TablesAssumption ==
    /\ Reads \in [Keys -> SUBSET Tables]
    /\ Writes \in [Mutations -> SUBSET Tables]
    /\ Hits \in [Mutations -> SUBSET Keys]
    /\ KnownGaps \subseteq Mutations \X Keys
    /\ RequestsMayFail \in BOOLEAN

\* What mutation m means to the entry k: does its endpoint change what the entry
\* shows, does its onSuccess invalidate it, is the pair a known gap?
Kind(m, k) ==
    [ changes |-> Writes[m] \cap Reads[k] # {},
      hits |-> k \in Hits[m],
      gap |-> <<m, k>> \in KnownGaps ]

\* The hooks invalidate every key that shows what they change, known gaps apart.
\* A pair of web/src/hooks that breaks it breaks NoSilentStale in the run query_cache.
HooksCover ==
    \A m \in Mutations, k \in Keys :
        (Writes[m] \cap Reads[k] # {} /\ <<m, k>> \notin KnownGaps) => k \in Hits[m]

\* The mutations that concern an entry, told apart by what they mean to it.
Kinds(k) == {d \in {Kind(m, k) : m \in Mutations} : d.changes \/ d.hits}

AnyKind == [changes : BOOLEAN, hits : BOOLEAN, gap : BOOLEAN]
NoMutation == [at |-> "idle"]
Pending == {NoMutation} \cup [at : {"sent", "applied"}, does : AnyKind]

VARIABLES
    key,        \* the entry of this behaviour,
    kinds,      \* and what the mutations of the client mean to it
    mounted,    \* does a component observe it?
    data,       \* what it shows: nothing, the server's state, an older one
    valid,      \* not isInvalidated
    fetch,      \* the fetch under way and what it has read
    retried,    \* has that fetch failed once already?
    pending,    \* each caller's mutation
    missed      \* a change was made that no onSuccess will tell the entry of

entryVars == <<key, kinds, mounted, data, valid, fetch, retried, pending, missed>>

EntryTypeOK ==
    /\ key \in Keys
    /\ kinds \subseteq AnyKind
    /\ mounted \in BOOLEAN
    /\ data \in {"none", "fresh", "stale"}
    /\ valid \in BOOLEAN
    /\ fetch \in {"idle", "failed", "sent", "readfresh", "readstale"}
    /\ retried \in BOOLEAN
    /\ pending \in [Callers -> Pending]
    /\ missed \in BOOLEAN

EntryInit ==
    /\ key \in Keys
    /\ kinds = Kinds(key)
    /\ mounted = FALSE
    /\ data = "none"
    /\ valid = TRUE
    /\ fetch = "idle"
    /\ retried = FALSE
    /\ pending = [c \in Callers |-> NoMutation]
    /\ missed = FALSE

\* A fetch begins, or begins again: nothing of the server's state is read yet.
Send ==
    /\ fetch' = "sent"
    /\ retried' = FALSE

KeepFetch == UNCHANGED <<fetch, retried>>

NoFetch == fetch \in {"idle", "failed"}

----------------------------------------------------------------------------
\* Observers: a component mounts; an entry with no data, an invalidated one or
\* one past its staleTime is fetched, and a fetch already under way is joined.
Mount(old) ==
    /\ ~mounted
    /\ mounted' = TRUE
    /\ IF NoFetch /\ (data = "none" \/ ~valid \/ old) THEN Send ELSE KeepFetch
    /\ UNCHANGED <<key, kinds, data, valid, pending, missed>>

\* The last component goes: the fetch under way goes on without its retry.
Unmount ==
    /\ mounted
    /\ mounted' = FALSE
    /\ UNCHANGED <<key, kinds, data, valid, fetch, retried, pending, missed>>

\* An unobserved entry is collected after gcTime.
Collect ==
    /\ ~mounted
    /\ NoFetch
    /\ fetch' = "idle"
    /\ data' = "none"
    /\ valid' = TRUE
    /\ missed' = FALSE
    /\ UNCHANGED <<key, kinds, mounted, retried, pending>>

----------------------------------------------------------------------------
\* Fetches: the server answers from its state of that moment, then the answer
\* arrives and clears isInvalidated.
Read ==
    /\ fetch = "sent"
    /\ fetch' = "readfresh"
    /\ UNCHANGED <<key, kinds, mounted, data, valid, retried, pending, missed>>

Land ==
    /\ fetch \in {"readfresh", "readstale"}
    /\ data' = IF fetch = "readfresh" THEN "fresh" ELSE "stale"
    /\ valid' = TRUE
    /\ missed' = (missed /\ fetch = "readstale")
    /\ fetch' = "idle"
    /\ retried' = FALSE
    /\ UNCHANGED <<key, kinds, mounted, pending>>

\* Mutant: another name for the failed status, and no retry.
FetchFailsForGood ==
    /\ RequestsMayFail
    /\ ~NoFetch
    /\ fetch' = "error"
    /\ retried' = FALSE
    /\ UNCHANGED <<key, kinds, mounted, data, valid, pending, missed>>

\* A failed fetch is retried once while observed, then the entry keeps what it
\* had, and a component that had nothing shows the error.
FetchFails ==
    /\ RequestsMayFail
    /\ ~NoFetch
    /\ IF mounted /\ ~retried
       THEN fetch' = "sent" /\ retried' = TRUE
       ELSE fetch' = "failed" /\ retried' = FALSE
    /\ UNCHANGED <<key, kinds, mounted, data, valid, pending, missed>>

----------------------------------------------------------------------------
\* Mutations: mutate() sends the request, the server commits it, the answer
\* runs onSuccess, mounted or not.
Mutate(c) ==
    /\ pending[c] = NoMutation
    /\ \E d \in kinds : pending' = [pending EXCEPT ![c] = [at |-> "sent", does |-> d]]
    /\ UNCHANGED <<key, kinds, mounted, data, valid, fetch, retried, missed>>

Apply(c) ==
    /\ pending[c].at = "sent"
    /\ pending' = [pending EXCEPT ![c].at = "applied"]
    /\ IF pending[c].does.changes
       THEN /\ data' = IF data = "none" THEN "none" ELSE "stale"
            /\ fetch' = IF fetch = "readfresh" THEN "readstale" ELSE fetch
            /\ missed' = (missed \/ pending[c].does.gap)
       ELSE UNCHANGED <<data, fetch, missed>>
    /\ UNCHANGED <<key, kinds, mounted, valid, retried>>

\* Mutants: an invalidation that only marks the entry, or lets the fetch under way
\* stand for the new one.
InvalidateMarks ==
    /\ valid' = FALSE
    /\ UNCHANGED <<key, kinds, mounted, data, fetch, retried, missed>>

InvalidateJoins ==
    /\ valid' = FALSE
    /\ IF mounted /\ NoFetch THEN Send ELSE KeepFetch
    /\ UNCHANGED <<key, kinds, mounted, data, missed>>

\* invalidateQueries: the entry is marked; an observed one is fetched again at
\* once.  A fetch under way is cancelled for the new one only when there is
\* data to show meanwhile; otherwise, and when nothing observes the entry, it
\* goes on, and lands as valid whatever it read before the change.
Invalidate ==
    /\ valid' = FALSE
    /\ IF mounted /\ (NoFetch \/ data # "none") THEN Send ELSE KeepFetch
    /\ missed' = (missed \/ (fetch = "readstale" /\ (~mounted \/ data = "none")))
    /\ UNCHANGED <<key, kinds, mounted, data>>

MutationSucceeds(c) ==
    /\ pending[c].at = "applied"
    /\ pending' = [pending EXCEPT ![c] = NoMutation]
    /\ IF pending[c].does.hits
       THEN Invalidate
       ELSE UNCHANGED <<key, kinds, mounted, data, valid, fetch, retried, missed>>

\* The request, or its answer, is lost: onError, and no invalidation.
MutationFails(c) ==
    /\ RequestsMayFail
    /\ pending[c] # NoMutation
    /\ pending' = [pending EXCEPT ![c] = NoMutation]
    /\ missed' = (missed \/ (pending[c].at = "applied" /\ pending[c].does.changes))
    /\ UNCHANGED <<key, kinds, mounted, data, valid, fetch, retried>>

----------------------------------------------------------------------------
EntryNext ==
    \/ \E old \in BOOLEAN : Mount(old)
    \/ Unmount
    \/ Collect
    \/ Read
    \/ Land
    \/ FetchFails
    \/ \E c \in Callers :
        \/ Mutate(c)
        \/ Apply(c)
        \/ MutationSucceeds(c)
        \/ MutationFails(c)

\* The browser and the server go on with what is under way; users owe nothing.
EntryFairness ==
    /\ WF_entryVars(Read)
    /\ WF_entryVars(Land)
    /\ \A c \in Callers : WF_entryVars(Apply(c)) /\ WF_entryVars(MutationSucceeds(c))

EntrySpec == EntryInit /\ [][EntryNext]_entryVars /\ EntryFairness

----------------------------------------------------------------------------
\* Changes this tab has made whose onSuccess is still to come and covers the entry.
UnderWay ==
    {c \in Callers : pending[c].at = "applied" /\ pending[c].does.changes /\ ~pending[c].does.gap}

\* What the entry shows, or is about to show, as settled is the server's state:
\* data older than one of this tab's changes is marked or being fetched again, or
\* the change is not answered yet.  Only a lost answer, a known gap of the hooks
\* or a fetch that outlived the invalidation leaves it (MutationSucceeds, Invalidate,
\* Land against web/src/main.tsx 'mutations invalidate their keys').
NoSilentStale ==
    /\ (data = "stale" /\ valid) => (missed \/ UnderWay # {})
    /\ fetch = "readstale" => (missed \/ UnderWay # {})

\* Once the tab makes no more changes and a component stays, the entry comes to
\* show the server's state for good, however changes and fetches overlapped
\* before: no invalidation is lost between a cancelled fetch and its successor.
EventuallyFresh ==
    <>[](mounted /\ ~missed /\ fetch # "failed" /\ \A c \in Callers : pending[c] = NoMutation)
        => <>[](data = "fresh")
=============================================================================
