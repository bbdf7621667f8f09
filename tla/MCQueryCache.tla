---------------------------- MODULE MCQueryCache ----------------------------
(* Every query key and mutation hook of the client, for QueryCache.        *)
EXTENDS QueryCache, QueryTables

MCKeys == DOMAIN AllQueries
MCMutations == DOMAIN AllMutations
MCTables == UNION {AllQueries[k] : k \in MCKeys} \cup UNION {AllMutations[m].writes : m \in MCMutations}
MCReads == AllQueries
MCWrites == [m \in MCMutations |-> AllMutations[m].writes]
MCHits == [m \in MCMutations |-> Invalidated(m)]
MCGaps == HookGaps

\* Every gap is one: the endpoint changes what the key answers from, and the hook
\* does not invalidate it.
ASSUME GapsAreReal ==
    \A gap \in HookGaps :
        /\ MCWrites[gap[1]] \cap MCReads[gap[2]] # {}
        /\ gap[2] \notin MCHits[gap[1]]
=============================================================================
