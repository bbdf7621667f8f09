------------------------- MODULE ClientStateProofs -------------------------
(***************************************************************************)
(* What the client keeps between requests: its login sessions              *)
(* (ClientSession), for every number of tabs, users, calls and refreshes,  *)
(* and an entry of its query cache (QueryCache), for every set of          *)
(* query keys, hooks and callers.                                          *)
(***************************************************************************)
EXTENDS ClientSession, QueryCache, TLAPS

Covered(d) == (d.changes /\ ~d.gap) => d.hits

PendingCovered ==
    /\ \A d \in kinds : Covered(d)
    /\ \A c \in Callers : pending[c] # NoMutation => Covered(pending[c].does)

CacheInv == EntryTypeOK /\ PendingCovered /\ NoSilentStale

LEMMA KindsTyped == \A k \in Keys : Kinds(k) \subseteq AnyKind
<1> SUFFICES ASSUME NEW k \in Keys, NEW d \in Kinds(k) PROVE d \in AnyKind
  OBVIOUS
<1>1. PICK m \in Mutations : d = Kind(m, k)
  BY DEF Kinds
<1> QED
  BY <1>1 DEF Kind, AnyKind

LEMMA KindsCovered ==
    ASSUME HooksCover
    PROVE  \A k \in Keys : \A d \in Kinds(k) : Covered(d)
<1> SUFFICES ASSUME NEW k \in Keys, NEW d \in Kinds(k) PROVE Covered(d)
  OBVIOUS
<1>1. PICK m \in Mutations : d = Kind(m, k)
  BY DEF Kinds
<1> QED
  BY <1>1, HooksCover DEF HooksCover, Kind, Covered

\* Type correctness of the cache entry.
THEOREM CacheTypeCorrect == EntrySpec => []EntryTypeOK
<1>1. EntryInit => EntryTypeOK
  BY KindsTyped DEF EntryInit, EntryTypeOK, Pending, NoMutation
<1>2. EntryTypeOK /\ [EntryNext]_entryVars => EntryTypeOK'
  <2> SUFFICES ASSUME EntryTypeOK, [EntryNext]_entryVars PROVE EntryTypeOK'
    OBVIOUS
  <2> USE DEF EntryTypeOK, Send, KeepFetch, NoFetch
  <2>1. ASSUME NEW old \in BOOLEAN, Mount(old) PROVE EntryTypeOK'
    BY <2>1 DEF Mount
  <2>2. CASE Unmount
    BY <2>2 DEF Unmount
  <2>3. CASE Collect
    BY <2>3 DEF Collect
  <2>4. CASE Read
    BY <2>4 DEF Read
  <2>5. CASE Land
    BY <2>5 DEF Land
  <2>6. CASE FetchFails
    BY <2>6 DEF FetchFails
  <2>7. ASSUME NEW c \in Callers, Mutate(c) PROVE EntryTypeOK'
    BY <2>7 DEF Mutate, Pending
  <2>8. ASSUME NEW c \in Callers, Apply(c) PROVE EntryTypeOK'
    <3>1. pending'[c] \in Pending
      BY <2>8 DEF Apply, Pending, NoMutation
    <3> QED
      BY <2>8, <3>1 DEF Apply
  <2>9. ASSUME NEW c \in Callers, MutationSucceeds(c) PROVE EntryTypeOK'
    BY <2>9 DEF MutationSucceeds, Invalidate, Pending
  <2>10. ASSUME NEW c \in Callers, MutationFails(c) PROVE EntryTypeOK'
    BY <2>10 DEF MutationFails, Pending
  <2>11. CASE UNCHANGED entryVars
    BY <2>11 DEF entryVars
  <2> QED
    BY <2>1, <2>2, <2>3, <2>4, <2>5, <2>6, <2>7, <2>8, <2>9, <2>10, <2>11 DEF EntryNext
<1> QED
  BY <1>1, <1>2, PTL DEF EntrySpec

\* No hook's onSuccess leaves the entry showing, as settled, what its mutation has
\* made old, whatever fetches, mounts and other mutations overlap it.
THEOREM NoSilentStaleHolds ==
    ASSUME HooksCover
    PROVE  EntrySpec => []NoSilentStale
<1>1. EntryInit => CacheInv
  BY KindsTyped, KindsCovered DEF EntryInit, CacheInv, EntryTypeOK, Pending, NoMutation, PendingCovered, NoSilentStale
<1>2. CacheInv /\ EntryTypeOK' /\ [EntryNext]_entryVars => CacheInv'
  <2> SUFFICES ASSUME CacheInv, EntryTypeOK', [EntryNext]_entryVars PROVE PendingCovered' /\ NoSilentStale'
    BY DEF CacheInv
  <2> USE DEF CacheInv, EntryTypeOK, PendingCovered, NoSilentStale, UnderWay, Send, KeepFetch, NoFetch
  <2>1. ASSUME NEW old \in BOOLEAN, Mount(old) PROVE PendingCovered' /\ NoSilentStale'
    BY <2>1 DEF Mount
  <2>2. CASE Unmount
    BY <2>2 DEF Unmount
  <2>3. CASE Collect
    BY <2>3 DEF Collect
  <2>4. CASE Read
    BY <2>4 DEF Read
  <2>5. CASE Land
    BY <2>5 DEF Land
  <2>6. CASE FetchFails
    BY <2>6 DEF FetchFails
  <2>7. ASSUME NEW c \in Callers, Mutate(c) PROVE PendingCovered' /\ NoSilentStale'
    <3>1. PICK d \in kinds : pending' = [pending EXCEPT ![c] = [at |-> "sent", does |-> d]]
      BY <2>7 DEF Mutate
    <3>2. PendingCovered'
      BY <2>7, <3>1 DEF Mutate
    <3>3. \A b \in UnderWay : b # c
      BY <2>7 DEF Mutate, NoMutation
    <3>4. UnderWay \subseteq UnderWay'
      BY <3>1, <3>3
    <3>5. NoSilentStale'
      BY <2>7, <3>4 DEF Mutate
    <3> QED
      BY <3>2, <3>5
  <2>8. ASSUME NEW c \in Callers, Apply(c) PROVE PendingCovered' /\ NoSilentStale'
    <3>1. pending[c] # NoMutation /\ pending[c] \in Pending
      BY <2>8 DEF Apply, NoMutation
    <3>2. /\ pending'[c].at = "applied" /\ pending'[c].does = pending[c].does
          /\ \A b \in Callers \ {c} : pending'[b] = pending[b]
      BY <2>8, <3>1 DEF Apply, Pending, NoMutation
    <3>3. pending[c].does \in AnyKind
      BY <3>1 DEF Pending
    <3>4. PendingCovered'
      BY <2>8, <3>1, <3>2 DEF Apply
    <3>5. UnderWay \subseteq UnderWay'
      BY <3>2
    <3>6. CASE pending[c].does.changes
      <4>1. missed' \/ c \in UnderWay'
        BY <2>8, <3>2, <3>3, <3>6 DEF Apply, AnyKind
      <4> QED
        BY <3>4, <4>1
    <3>7. CASE ~pending[c].does.changes
      <4>1. NoSilentStale'
        BY <2>8, <3>5, <3>7 DEF Apply
      <4> QED
        BY <3>4, <4>1
    <3> QED
      BY <3>6, <3>7
  <2>9. ASSUME NEW c \in Callers, MutationSucceeds(c) PROVE PendingCovered' /\ NoSilentStale'
    <3>1. pending[c] # NoMutation /\ pending' = [pending EXCEPT ![c] = NoMutation]
      BY <2>9 DEF MutationSucceeds, NoMutation
    <3>2. PendingCovered'
      BY <2>9, <3>1 DEF MutationSucceeds, Invalidate
    <3>3. CASE pending[c].does.hits
      BY <2>9, <3>2, <3>3 DEF MutationSucceeds, Invalidate
    <3>4. CASE ~pending[c].does.hits
      <4>1. c \notin UnderWay
        BY <3>1, <3>4 DEF Covered
      <4>2. UnderWay \subseteq UnderWay'
        BY <3>1, <4>1
      <4> QED
        BY <2>9, <3>2, <3>4, <4>2 DEF MutationSucceeds
    <3> QED
      BY <3>3, <3>4
  <2>10. ASSUME NEW c \in Callers, MutationFails(c) PROVE PendingCovered' /\ NoSilentStale'
    <3>1. /\ pending' = [pending EXCEPT ![c] = NoMutation]
          /\ UNCHANGED <<kinds, data, valid, fetch>>
          /\ missed' = (missed \/ (pending[c].at = "applied" /\ pending[c].does.changes))
      BY <2>10 DEF MutationFails
    <3>2. PendingCovered'
      BY <3>1
    <3>3. CASE c \in UnderWay
      BY <3>1, <3>2, <3>3
    <3>4. CASE c \notin UnderWay
      <4>1. UnderWay \subseteq UnderWay'
        BY <3>1, <3>4
      <4> QED
        BY <3>1, <3>2, <4>1
    <3> QED
      BY <3>3, <3>4
  <2>11. CASE UNCHANGED entryVars
    BY <2>11 DEF entryVars
  <2> QED
    BY <2>1, <2>2, <2>3, <2>4, <2>5, <2>6, <2>7, <2>8, <2>9, <2>10, <2>11 DEF EntryNext
<1>3. CacheInv => NoSilentStale
  BY DEF CacheInv
<1> QED
  BY <1>1, <1>2, <1>3, CacheTypeCorrect, PTL DEF EntrySpec

----------------------------------------------------------------------------
\* The login session.

\* What the parts of a tab say of one another: a refresh without an expired token
\* runs only while the page loads and no call is under way, any other has a call
\* waiting for it, and a call turned away has an expired token.
TabInv(t) ==
    /\ status[t] \in {"closed", "unauthenticated"} => refresh[t] = NoRefresh
    /\ status[t] = "authenticated" /\ refresh[t] # NoRefresh => \E c \in AllCalls : call[t][c].at = "waiting"
    /\ refresh[t].at = "none" => refresh[t] = NoRefresh
    /\ refresh[t].at \in {"rotated", "me"} => ~refresh[t].stale
    /\ refresh[t] # NoRefresh /\ ~refresh[t].stale =>
           status[t] = "loading" /\ \A c \in AllCalls : call[t][c] = Idle
    /\ \A c \in AllCalls :
         /\ call[t][c].at = "idle" => call[t][c] = Idle
         /\ c # "me" /\ call[t][c] # Idle => status[t] = "authenticated" /\ path[t] = "app"
         /\ c = "me" /\ call[t][c] # Idle => status[t] = "loading"
         /\ c = "me" /\ call[t][c].at = "sent" => refresh[t] = NoRefresh
         /\ call[t][c].at = "waiting" \/ call[t][c].stale => Stale(t)
    /\ leaving[t].at # "none" => status[t] = "authenticated"
    /\ entering[t].at # "none" => status[t] = "unauthenticated"
    /\ token[t].live => token[t].user \in Users

\* Cookies name sessions that exist, or none.
Named ==
    /\ cookie <= Len(sessions)
    /\ \A t \in Tabs : /\ refresh[t].cookie <= Len(sessions)
                       /\ leaving[t].cookie <= Len(sessions)
                       /\ entering[t].cookie <= Len(sessions)
                       /\ entering[t].at = "issued" => entering[t].cookie # NoCookie
                       /\ refresh[t].at = "rotated" => refresh[t].cookie # NoCookie

TabsInv == TypeOK /\ Named /\ \A t \in Tabs : TabInv(t)

LEMMA Values ==
    /\ NoToken \in Tokens /\ Idle \in CallStates /\ NoRefresh \in Refreshes
    /\ NoExit \in Exits /\ NoEntry \in Entries
    /\ NoExit.at = "none" /\ NoExit.cookie = 0 /\ NoEntry.at = "none" /\ NoEntry.cookie = 0
    /\ NoCookie \in Cookies /\ NoCookie = 0 /\ MaxSessions \in Nat
    /\ Idle.at = "idle" /\ ~Idle.stale /\ NoRefresh.at = "none" /\ ~NoRefresh.stale /\ NoRefresh.cookie = NoCookie
    /\ ~NoToken.live
  BY SessionAssumption DEF NoToken, Tokens, Idle, CallStates, NoRefresh, Refreshes, NoExit, Exits, NoEntry, Entries, NoCookie, Cookies,
     NoUser

\* A tab that a step leaves alone keeps what holds of it.
LEMMA Untouched ==
    ASSUME NEW t \in Tabs, TabInv(t),
           path'[t] = path[t], status'[t] = status[t], token'[t] = token[t],
           call'[t] = call[t], refresh'[t] = refresh[t], entering'[t] = entering[t], leaving'[t] = leaving[t]
    PROVE  TabInv(t)'
  BY DEF TabInv, Stale

\* Where a page load leads, with a token or without.
LEMMA LoadLemma ==
    ASSUME TypeOK, NEW t \in Tabs, NEW held \in Tokens, held.live => held.user \in Users,
           Load(t, held), path' \in [Tabs -> {"login", "app"}]
    PROVE  /\ status' \in [Tabs -> {"closed", "loading", "authenticated", "unauthenticated"}]
           /\ user' \in [Tabs -> Users \cup {NoUser}] /\ guard' \in [Tabs -> BOOLEAN]
           /\ token' \in [Tabs -> Tokens] /\ call' \in [Tabs -> [AllCalls -> CallStates]]
           /\ refresh' \in [Tabs -> Refreshes] /\ leaving' \in [Tabs -> Exits]
           /\ entering' \in [Tabs -> Entries] /\ entering'[t] = NoEntry
           /\ refresh'[t] \in {NoRefresh, [at |-> "posted", cookie |-> cookie, stale |-> FALSE]}
           /\ leaving'[t] = NoExit
           /\ \A s \in Tabs \ {t} :
                /\ status'[s] = status[s] /\ token'[s] = token[s] /\ call'[s] = call[s]
                /\ refresh'[s] = refresh[s] /\ leaving'[s] = leaving[s] /\ entering'[s] = entering[s]
           /\ TabInv(t)'
<1> USE Values DEF TypeOK
<1> DEFINE asks(c) == c = "me" /\ held # NoToken
           new == [c \in AllCalls |->
                     IF asks(c) THEN [at |-> "sent", stale |-> ~held.live, again |-> FALSE] ELSE Idle]
           post == [at |-> "posted", cookie |-> cookie, stale |-> FALSE]
<1>1. new \in [AllCalls -> CallStates] /\ post \in Refreshes /\ post # NoRefresh
  BY DEF CallStates, Refreshes, Tokens, NoRefresh
<1>2. /\ status' = [status EXCEPT ![t] = "loading"] /\ user' = [user EXCEPT ![t] = NoUser]
      /\ guard' = [guard EXCEPT ![t] = FALSE] /\ token' = [token EXCEPT ![t] = held]
      /\ call' = [call EXCEPT ![t] = new]
      /\ refresh' = [refresh EXCEPT ![t] = IF held = NoToken THEN post ELSE NoRefresh]
      /\ leaving' = [leaving EXCEPT ![t] = NoExit] /\ entering' = [entering EXCEPT ![t] = NoEntry]
  BY DEF Load
<1>3. /\ status'[t] = "loading" /\ token'[t] = held /\ call'[t] = new
      /\ refresh'[t] = IF held = NoToken THEN post ELSE NoRefresh
      /\ leaving'[t].at = "none" /\ entering'[t].at = "none"
  BY <1>2
<1> HIDE DEF new
<1>4. TabInv(t)'
  <2>1. ASSUME NEW c \in AllCalls
        PROVE  /\ ~asks(c) => new[c] = Idle
               /\ asks(c) => new[c] = [at |-> "sent", stale |-> ~held.live, again |-> FALSE]
    BY DEF new
  <2>2. post.at = "posted" /\ ~post.stale
    OBVIOUS
  <2> HIDE DEF post
  <2>3. CASE held = NoToken
    <3>1. \A c \in AllCalls : call'[t][c] = Idle
      BY <1>3, <2>1, <2>3
    <3>2. refresh'[t] = post /\ token'[t] = NoToken
      BY <1>3, <2>3
    <3> QED
      BY <1>1, <1>3, <2>2, <3>1, <3>2 DEF TabInv
  <2>4. CASE held # NoToken
    <3>1. /\ \A c \in AllCalls \ {"me"} : call'[t][c] = Idle
          /\ call'[t]["me"] = [at |-> "sent", stale |-> ~held.live, again |-> FALSE]
      BY <1>3, <2>1, <2>4 DEF AllCalls
    <3>2. refresh'[t] = NoRefresh /\ Stale(t)' = ~held.live
      BY <1>3, <2>4 DEF Stale
    <3> QED
      BY <1>3, <3>1, <3>2 DEF TabInv
  <2> QED
    BY <2>3, <2>4
<1> QED
  BY <1>1, <1>2, <1>3, <1>4

LEMMA OneTab ==
    ASSUME TabsInv, NEW t \in Tabs, TypeOK', Named', TabInv(t)',
           \A s \in Tabs \ {t} :
              /\ path'[s] = path[s] /\ status'[s] = status[s] /\ token'[s] = token[s]
              /\ call'[s] = call[s] /\ refresh'[s] = refresh[s] /\ leaving'[s] = leaving[s] /\ entering'[s] = entering[s]
    PROVE  TabsInv'
  BY Untouched DEF TabsInv

\* The sessions when one of them is rotated or revoked.
Marked(n, x) == [sessions EXCEPT ![n].state = x]

LEMMA StateSet ==
    ASSUME TypeOK, NEW n \in DOMAIN sessions, NEW x \in {"live", "ended"} \cup Tabs
    PROVE  /\ Marked(n, x) \in Seq(Sessions)
           /\ Len(Marked(n, x)) = Len(sessions) /\ DOMAIN Marked(n, x) = DOMAIN sessions
           /\ Marked(n, x)[n].state = x /\ Marked(n, x)[n].user = sessions[n].user
           /\ \A m \in DOMAIN sessions \ {n} : Marked(n, x)[m] = sessions[m]
<1>1. sessions \in Seq(Sessions)
  BY DEF TypeOK
<1>2. sessions[n] \in Sessions
  BY <1>1
<1>3. [sessions[n] EXCEPT !.state = x] \in Sessions
  BY <1>2 DEF Sessions
<1>4. [sessions[n] EXCEPT !.state = x].state = x /\ [sessions[n] EXCEPT !.state = x].user = sessions[n].user
  BY <1>2 DEF Sessions
<1> DEFINE row == [sessions[n] EXCEPT !.state = x]
           new == [sessions EXCEPT ![n] = row]
<1>5. Marked(n, x) = new
  BY <1>1 DEF Marked
<1> HIDE DEF row
<1>6. /\ new \in Seq(Sessions) /\ Len(new) = Len(sessions) /\ DOMAIN new = DOMAIN sessions /\ new[n] = row
      /\ \A m \in DOMAIN sessions \ {n} : new[m] = sessions[m]
  BY <1>1, <1>3 DEF row
<1> QED
  BY <1>4, <1>5, <1>6 DEF row

\* What a suspension does to the sessions.
LEMMA AllRevoked ==
    ASSUME TypeOK, NEW u \in Users, RevokeAll(u)
    PROVE  /\ sessions' \in Seq(Sessions) /\ Len(sessions') = Len(sessions) /\ DOMAIN sessions' = DOMAIN sessions
           /\ \A n \in DOMAIN sessions :
                 \/ sessions'[n] = sessions[n]
                 \/ sessions'[n].state = "ended" /\ sessions[n].state = "live"
<1>1. sessions \in Seq(Sessions)
  BY DEF TypeOK
<1>2. ASSUME NEW n \in DOMAIN sessions
      PROVE  /\ sessions[n] \in Sessions /\ [sessions[n] EXCEPT !.state = "ended"] \in Sessions
             /\ [sessions[n] EXCEPT !.state = "ended"].state = "ended"
  <2>1. sessions[n] \in Sessions
    BY <1>1
  <2> QED
    BY <2>1 DEF Sessions
<1> QED
  BY <1>1, <1>2 DEF RevokeAll

\* What expiry does to them.
LEMMA OneExpired ==
    ASSUME TypeOK, NEW k \in DOMAIN sessions, SessionExpires(k)
    PROVE  /\ sessions' \in Seq(Sessions) /\ Len(sessions') = Len(sessions) /\ DOMAIN sessions' = DOMAIN sessions
           /\ \A n \in DOMAIN sessions :
                 \/ sessions'[n] = sessions[n]
                 \/ sessions'[n].state = "ended" /\ sessions[n].state = "live"
<1>1. sessions' = Marked(k, "ended") /\ sessions[k].state = "live"
  BY DEF SessionExpires, Live, Marked
<1> QED
  BY <1>1, StateSet

LEMMA TabsInit == Init => TabsInv
<1> SUFFICES ASSUME Init PROVE TabsInv
  OBVIOUS
<1> USE Values
<1>1. TypeOK
  BY DEF Init, TypeOK
<1>2. Named
  BY DEF Init, Named
<1>3. ASSUME NEW t \in Tabs PROVE TabInv(t)
  BY DEF Init, TabInv
<1> QED
  BY <1>1, <1>2, <1>3 DEF TabsInv

LEMMA TabsStep == TabsInv /\ [Next]_vars => TabsInv'
<1> SUFFICES ASSUME TabsInv, [Next]_vars PROVE TabsInv'
  OBVIOUS
<1> USE Values
<1>0. /\ TypeOK /\ Named /\ Len(sessions) \in Nat /\ DOMAIN sessions = 1..Len(sessions)
      /\ \A t \in Tabs : TabInv(t)
      /\ \A n \in DOMAIN sessions : sessions[n] \in Sessions
  BY DEF TabsInv, TypeOK
<1>1. ASSUME \/ \E u \in Users : RevokeAll(u) \/ SetUserStatus(u)
             \/ \E n \in DOMAIN sessions : SessionExpires(n)
      PROVE  TabsInv'
  <2>1. UNCHANGED outside /\ barred' \subseteq Users
    BY <1>0, <1>1 DEF RevokeAll, SetUserStatus, SessionExpires, TypeOK
  <2>2. sessions' \in Seq(Sessions) /\ Len(sessions') = Len(sessions)
    BY <1>0, <1>1, AllRevoked, OneExpired DEF SetUserStatus, TypeOK
  <2>3. TypeOK'
    BY <1>0, <2>1, <2>2 DEF outside, TypeOK, view
  <2>4. Named'
    BY <1>0, <2>1, <2>2 DEF outside, Named
  <2>5. \A t \in Tabs : TabInv(t)'
    BY <1>0, <2>1, Untouched DEF outside, view
  <2> QED
    BY <2>3, <2>4, <2>5 DEF TabsInv
<1>2. ASSUME NEW t \in Tabs, Open(t) \/ Reload(t) PROVE TabsInv'
  <2>1. PICK held \in Tokens : Load(t, held) /\ (held.live => held.user \in Users)
    BY <1>0, <1>2 DEF Open, Reload, TypeOK, TabInv
  <2>2. UNCHANGED <<server, path>>
    BY <1>2 DEF Open, Reload
  <2>3. TypeOK'
    BY <1>0, <2>1, <2>2, LoadLemma DEF TypeOK, server
  <2>4. Named'
    <3>1. /\ UNCHANGED <<sessions, cookie>> /\ leaving'[t].cookie = 0
          /\ entering'[t].cookie = 0 /\ entering'[t].at = "none"
          /\ refresh'[t].at # "rotated" /\ refresh'[t].cookie \in {0, cookie}
          /\ \A s \in Tabs \ {t} : refresh'[s] = refresh[s] /\ leaving'[s] = leaving[s] /\ entering'[s] = entering[s]
      BY <1>0, <2>1, <2>2, LoadLemma DEF TypeOK, server
    <3> QED
      BY <1>0, <3>1 DEF Named
  <2> QED
    BY <1>0, <2>1, <2>2, <2>3, <2>4, LoadLemma, OneTab DEF TypeOK
<1>3. ASSUME NEW t \in Tabs, Render(t) \/ LeaveLogin(t) PROVE TabsInv'
  <2>1. TypeOK' /\ Named'
    BY <1>0, <1>3 DEF Render, LeaveLogin, TypeOK, Named, server, Guarded
  <2>2. /\ UNCHANGED <<status, token, call, refresh, entering, leaving>>
        /\ path'[t] = path[t] \/ path'[t] = "app"
    BY <1>0, <1>3 DEF Render, LeaveLogin, TypeOK, Guarded
  <2>3. TabInv(t)'
    BY <1>0, <2>2 DEF TabInv, Stale
  <2> QED
    BY <1>0, <1>3, <2>1, <2>2, <2>3, OneTab DEF Render, LeaveLogin, TypeOK
<1>4. ASSUME NEW t \in Tabs, Expire(t) PROVE TabsInv'
  <2> DEFINE new == [c \in AllCalls |->
           IF call[t][c].at = "sent" THEN [call[t][c] EXCEPT !.stale = TRUE] ELSE call[t][c]]
  <2>1. /\ token' = [token EXCEPT ![t].live = FALSE] /\ call' = [call EXCEPT ![t] = new]
        /\ token[t].live /\ refresh[t].at # "me" /\ UNCHANGED <<server, view, refresh, entering, leaving>>
    BY <1>4 DEF Expire
  <2>2. new \in [AllCalls -> CallStates] /\ call'[t] = new
    <3>1. \A c \in AllCalls : call[t][c] \in CallStates
      BY <1>0 DEF TypeOK
    <3>2. \A c \in AllCalls : [call[t][c] EXCEPT !.stale = TRUE] \in CallStates
      BY <3>1 DEF CallStates
    <3> QED
      BY <1>0, <2>1, <3>1, <3>2 DEF TypeOK
  <2>3. token'[t] = [user |-> token[t].user, live |-> FALSE] /\ token'[t] \in Tokens
    BY <1>0, <2>1 DEF TypeOK, Tokens
  <2>4. TypeOK' /\ Named'
    BY <1>0, <2>1, <2>2, <2>3 DEF TypeOK, Named, server, view
  <2>5. Stale(t)'
    BY <1>0, <2>1, <2>3, SessionAssumption DEF TabInv, Stale, NoToken
  <2>6. ASSUME NEW c \in AllCalls
        PROVE  /\ call'[t][c].at = call[t][c].at
               /\ call[t][c].at # "sent" => call'[t][c] = call[t][c]
               /\ call'[t][c] # Idle => call[t][c] # Idle
    BY <1>0, <2>2 DEF TypeOK, CallStates
  <2>7. status' = status /\ path' = path /\ refresh' = refresh /\ leaving' = leaving /\ entering' = entering
    BY <2>1 DEF view
  <2> HIDE DEF new
  <2>8. TabInv(t)'
    BY <1>0, <2>3, <2>5, <2>6, <2>7 DEF TabInv
  <2> QED
    BY <1>0, <2>1, <2>4, <2>7, <2>8, OneTab DEF TypeOK
<1>5. ASSUME NEW t \in Tabs, Login(t) \/ LoginFails(t) PROVE TabsInv'
  <2>1. PICK new \in Entries :
           /\ entering' = [entering EXCEPT ![t] = new] /\ new.cookie \in {0, entering[t].cookie}
           /\ new.at # "issued" /\ status[t] = "unauthenticated"
    <3>1. entering[t] \in Entries /\ entering \in [Tabs -> Entries]
      BY <1>0 DEF TypeOK
    <3>2. CASE Login(t)
      <4>1. [entering[t] EXCEPT !.at = "sent"] \in Entries
        BY <3>1 DEF Entries
      <4> QED
        BY <3>1, <3>2, <4>1 DEF Login, Entries
    <3>3. CASE LoginFails(t)
      BY <1>0, <3>1, <3>3 DEF LoginFails, TabInv
    <3> QED
      BY <1>5, <3>2, <3>3
  <2>2. lost' \subseteq Cookies /\ UNCHANGED <<sessions, barred, cookie, view, token, call, refresh, leaving>>
    BY <1>0, <1>5 DEF Login, LoginFails, server, TypeOK, Entries
  <2>3. TypeOK' /\ Named'
    BY <1>0, <2>1, <2>2 DEF TypeOK, Named, view
  <2>4. TabInv(t)'
    BY <1>0, <2>1, <2>2 DEF TabInv, Stale, view
  <2> QED
    BY <1>0, <2>1, <2>2, <2>3, <2>4, OneTab DEF TypeOK, view
<1>17. ASSUME NEW t \in Tabs, NEW u \in Users, Admit(t, u) PROVE TabsInv'
  <2> DEFINE new == [at |-> "issued", cookie |-> Len(sessions) + 1]
  <2>1. /\ sessions' = Append(sessions, [user |-> u, state |-> "live"]) /\ Len(sessions) < MaxSessions
        /\ entering' = [entering EXCEPT ![t] = new] /\ entering[t].at = "sent"
        /\ UNCHANGED <<barred, cookie, lost, view, token, call, refresh, leaving>>
    BY <1>17 DEF Admit, Issue
  <2>2. sessions' \in Seq(Sessions) /\ Len(sessions') = Len(sessions) + 1 /\ new \in Entries
    BY <1>0, <2>1 DEF TypeOK, Sessions, Entries, Cookies
  <2>3. TypeOK'
    BY <1>0, <2>1, <2>2 DEF TypeOK, view
  <2>4. Named'
    BY <1>0, <2>1, <2>2 DEF Named, TypeOK, Refreshes, Exits, Entries, Cookies
  <2>5. TabInv(t)'
    BY <1>0, <2>1 DEF TabInv, Stale, view
  <2> QED
    BY <1>0, <2>1, <2>3, <2>4, <2>5, OneTab DEF TypeOK, view
<1>18. ASSUME NEW t \in Tabs, LoggedIn(t) PROVE TabsInv'
  <2> DEFINE u == sessions[entering[t].cookie].user
             new == [user |-> u, live |-> TRUE]
  <2>1. /\ entering[t].at = "issued" /\ cookie' = entering[t].cookie /\ lost' \subseteq lost \cup {cookie}
        /\ token' = [token EXCEPT ![t] = new] /\ user' = [user EXCEPT ![t] = u]
        /\ status' = [status EXCEPT ![t] = "authenticated"] /\ entering' = [entering EXCEPT ![t] = NoEntry]
        /\ UNCHANGED <<sessions, barred, path, guard, call, refresh, leaving>>
    BY <1>18 DEF LoggedIn
  <2>2. entering[t].cookie \in DOMAIN sessions /\ entering[t].cookie \in Cookies
    BY <1>0, <2>1 DEF Named, TypeOK, Entries, Cookies
  <2>3. u \in Users /\ new \in Tokens /\ new.live /\ new.user \in Users
    BY <1>0, <2>2 DEF Sessions, Tokens
  <2> HIDE DEF new, u
  <2>4. TypeOK'
    <3>1. token' \in [Tabs -> Tokens] /\ user' \in [Tabs -> Users \cup {NoUser}]
          /\ status' \in [Tabs -> {"closed", "loading", "authenticated", "unauthenticated"}]
          /\ entering' \in [Tabs -> Entries]
      BY <1>0, <2>1, <2>3 DEF TypeOK
    <3>2. lost' \subseteq Cookies /\ cookie' \in Cookies
      BY <1>0, <2>1, <2>2 DEF TypeOK
    <3> QED
      BY <1>0, <2>1, <3>1, <3>2 DEF TypeOK
  <2>5. Named'
    BY <1>0, <2>1, <2>2 DEF Named, TypeOK
  <2>6. TabInv(t)'
    <3>1. status[t] = "unauthenticated"
      BY <1>0, <2>1 DEF TabInv
    <3>2. \A c \in AllCalls : call[t][c] = Idle
      BY <1>0, <3>1 DEF TabInv
    <3>3. refresh[t] = NoRefresh /\ token'[t] = new /\ status'[t] = "authenticated" /\ entering'[t] = NoEntry
      BY <1>0, <2>1, <3>1 DEF TabInv, TypeOK
    <3> QED
      BY <1>0, <2>1, <2>3, <3>2, <3>3 DEF TabInv
  <2> QED
    BY <1>0, <2>1, <2>4, <2>5, <2>6, OneTab DEF TypeOK
<1>6. ASSUME NEW t \in Tabs, Logout(t) \/ Revoke(t) PROVE TabsInv'
  <2>0. UNCHANGED <<barred, cookie, lost, path, status, user, guard, token, call, refresh, entering>>
    BY <1>6 DEF Logout, Revoke, view, server
  <2>1. PICK x \in {"sent", "refused", "revoked"}, k \in {cookie, leaving[t].cookie} :
           leaving' = [leaving EXCEPT ![t] = [at |-> x, cookie |-> k]]
    <3>1. leaving[t] \in Exits /\ leaving \in [Tabs -> Exits]
      BY <1>0 DEF TypeOK
    <3>2. CASE Logout(t)
      BY <3>2 DEF Logout
    <3>3. CASE Revoke(t)
      BY <3>1, <3>3 DEF Revoke, Exits
    <3> QED
      BY <1>6, <3>2, <3>3
  <2>2. sessions' \in Seq(Sessions) /\ Len(sessions') = Len(sessions)
    <3>1. CASE sessions' = sessions
      BY <1>0, <3>1 DEF TypeOK
    <3>2. CASE sessions' # sessions
      <4>1. /\ Live(leaving[t].cookie)
            /\ sessions' = Marked(leaving[t].cookie, "ended")
        BY <1>6, <3>2 DEF Logout, Revoke, server, Marked
      <4>2. leaving[t].cookie \in DOMAIN sessions
        BY <1>0, <4>1 DEF Live, Named, TypeOK, Exits, Cookies
      <4> QED
        BY <1>0, <4>1, <4>2, StateSet
    <3> QED
      BY <3>1, <3>2
  <2>3. status[t] = "authenticated"
    BY <1>0, <1>6 DEF Logout, Revoke, TabInv
  <2>4. /\ leaving' \in [Tabs -> Exits] /\ leaving'[t].cookie <= Len(sessions)
        /\ \A s \in Tabs \ {t} : leaving'[s] = leaving[s]
    BY <1>0, <2>1 DEF TypeOK, Exits, Named
  <2>5. TypeOK'
    BY <1>0, <2>0, <2>2, <2>4 DEF TypeOK
  <2>6. Named'
    BY <1>0, <2>0, <2>2, <2>4 DEF Named
  <2>7. TabInv(t)'
    BY <1>0, <2>0, <2>3 DEF TabInv, Stale
  <2> QED
    BY <1>0, <2>0, <2>4, <2>5, <2>6, <2>7, OneTab
<1>7. ASSUME NEW t \in Tabs, LoggedOut(t) PROVE TabsInv'
  <2> DEFINE idle == [c \in AllCalls |-> Idle]
             post == [at |-> "posted", cookie |-> cookie', stale |-> FALSE]
             out == NoExit
  <2>1. /\ cookie' \in {NoCookie, cookie} /\ lost' \subseteq lost \cup {cookie} /\ UNCHANGED <<sessions, barred, entering>>
        /\ path' = [path EXCEPT ![t] = "login"] /\ status' = [status EXCEPT ![t] = "loading"]
        /\ user' = [user EXCEPT ![t] = NoUser] /\ guard' = [guard EXCEPT ![t] = FALSE]
        /\ token' = [token EXCEPT ![t] = NoToken] /\ call' = [call EXCEPT ![t] = idle]
        /\ refresh' = [refresh EXCEPT ![t] = post] /\ leaving' = [leaving EXCEPT ![t] = out]
    BY <1>7 DEF LoggedOut
  <2>2. idle \in [AllCalls -> CallStates] /\ out \in Exits /\ cookie' \in Cookies /\ cookie' <= Len(sessions)
    BY <1>0, <2>1 DEF TypeOK, Named
  <2>3. post \in Refreshes
    BY <2>2 DEF Refreshes
  <2>4. TypeOK'
    BY <1>0, <2>1, <2>2, <2>3 DEF TypeOK
  <2>5. Named'
    BY <1>0, <2>1, <2>2 DEF Named, TypeOK
  <2>6. TabInv(t)'
    <3>1. /\ \A c \in AllCalls : call'[t][c] = Idle
          /\ refresh'[t] = post /\ post.at = "posted" /\ ~post.stale
          /\ status'[t] = "loading" /\ leaving'[t].at = "none" /\ token'[t] = NoToken
      BY <1>0, <2>1 DEF TypeOK
    <3>2. entering'[t].at = "none"
      BY <1>0, <1>7, <2>1 DEF LoggedOut, TabInv, TypeOK, Entries
    <3> QED
      BY <3>1, <3>2 DEF TabInv
  <2> QED
    BY <1>0, <2>1, <2>4, <2>5, <2>6, OneTab DEF TypeOK
<1>8. ASSUME NEW t \in Tabs, Rotate(t) PROVE TabsInv'
  <2>1. PICK x \in {"refused", "rotated"}, k \in {refresh[t].cookie, Len(sessions) + 1} :
           /\ refresh[t].at = "posted" /\ UNCHANGED <<barred, cookie, lost, view, token, call, entering, leaving>>
           /\ refresh' = [refresh EXCEPT ![t] = [at |-> x, cookie |-> k, stale |-> refresh[t].stale]]
           /\ x = "rotated" => /\ ~refresh[t].stale /\ k = Len(sessions) + 1
                               /\ Live(refresh[t].cookie) /\ Len(sessions) < MaxSessions
                               /\ sessions' = Append(Marked(refresh[t].cookie, t),
                                      [user |-> sessions[refresh[t].cookie].user, state |-> "live"])
           /\ x = "refused" => k = refresh[t].cookie /\ sessions' = sessions
    <3>1. refresh[t] \in Refreshes /\ refresh \in [Tabs -> Refreshes]
      BY <1>0 DEF TypeOK
    <3> QED
      BY <1>8, <3>1 DEF Rotate, Refreshes, Marked
  <2>2. /\ sessions' \in Seq(Sessions) /\ Len(sessions') <= MaxSessions
        /\ Len(sessions') \in Nat /\ Len(sessions) <= Len(sessions') /\ k <= Len(sessions')
    <3>1. CASE x = "refused"
      BY <1>0, <2>1, <3>1 DEF TypeOK, Named
    <3>2. CASE x = "rotated"
      <4>1. refresh[t].cookie \in DOMAIN sessions
        BY <1>0, <2>1, <3>2 DEF Live, Named, TypeOK, Refreshes, Cookies
      <4>2. sessions[refresh[t].cookie].user \in Users
        BY <1>0, <4>1 DEF Sessions
      <4>3. [user |-> sessions[refresh[t].cookie].user, state |-> "live"] \in Sessions
        BY <4>2 DEF Sessions
      <4> DEFINE s == Marked(refresh[t].cookie, t)
      <4>4. s \in Seq(Sessions) /\ Len(s) = Len(sessions)
        BY <1>0, <4>1, StateSet
      <4>5. sessions' = Append(s, [user |-> sessions[refresh[t].cookie].user, state |-> "live"])
        BY <2>1, <3>2
      <4> HIDE DEF s
      <4> QED
        BY <1>0, <2>1, <3>2, <4>3, <4>4, <4>5
    <3> QED
      BY <3>1, <3>2
  <2>3. [at |-> x, cookie |-> k, stale |-> refresh[t].stale] \in Refreshes
    BY <1>0, <2>1, <2>2 DEF TypeOK, Refreshes, Cookies
  <2>4. TypeOK'
    BY <1>0, <2>1, <2>2, <2>3 DEF TypeOK, view
  <2>5. Named'
    BY <1>0, <2>1, <2>2 DEF Named, TypeOK, Refreshes, Exits, Entries, Cookies
  <2>6. TabInv(t)'
    <3>1. refresh'[t] = [at |-> x, cookie |-> k, stale |-> refresh[t].stale] /\ refresh'[t] # NoRefresh
          /\ refresh[t] # NoRefresh
      BY <1>0, <2>1 DEF TypeOK
    <3>2. UNCHANGED <<path, status, token, call, entering, leaving>>
      BY <2>1 DEF view
    <3> QED
      BY <1>0, <2>1, <3>1, <3>2 DEF TabInv, Stale
  <2> QED
    BY <1>0, <2>1, <2>4, <2>5, <2>6, OneTab DEF TypeOK, view
<1>9. ASSUME NEW t \in Tabs, Rotated(t) PROVE TabsInv'
  <2> DEFINE new == [user |-> sessions[refresh[t].cookie].user, live |-> TRUE]
  <2>1. /\ refresh[t].at = "rotated" /\ cookie' = refresh[t].cookie
        /\ lost' \subseteq lost \cup {cookie}
        /\ token' = [token EXCEPT ![t] = new] /\ UNCHANGED <<sessions, barred, view, call, entering, leaving>>
    BY <1>9 DEF Rotated
  <2>2. refresh' = [refresh EXCEPT ![t] = [at |-> "me", cookie |-> refresh[t].cookie, stale |-> refresh[t].stale]]
    <3>1. refresh[t] \in Refreshes /\ refresh \in [Tabs -> Refreshes]
      BY <1>0 DEF TypeOK
    <3>2. refresh' = [refresh EXCEPT ![t].at = "me"]
      BY <1>9 DEF Rotated
    <3>3. [refresh[t] EXCEPT !.at = "me"] = [at |-> "me", cookie |-> refresh[t].cookie, stale |-> refresh[t].stale]
      BY <3>1 DEF Refreshes
    <3>4. refresh' = [refresh EXCEPT ![t] = [refresh[t] EXCEPT !.at = "me"]]
      BY <3>1, <3>2
    <3> QED
      BY <3>3, <3>4
  <2>3. refresh[t].cookie \in DOMAIN sessions /\ refresh[t].cookie \in Cookies /\ refresh[t].stale = FALSE
    BY <1>0, <2>1 DEF Named, TypeOK, Refreshes, Cookies, TabInv
  <2>4. new.user \in Users /\ new \in Tokens /\ new.live
    BY <1>0, <2>3 DEF Sessions, Tokens
  <2>5. TypeOK'
    <3>1. token' \in [Tabs -> Tokens] /\ cookie' \in Cookies /\ lost' \subseteq Cookies
      BY <1>0, <2>1, <2>3, <2>4 DEF TypeOK
    <3>2. refresh' \in [Tabs -> Refreshes]
      BY <1>0, <2>2, <2>3 DEF TypeOK, Refreshes
    <3> QED
      BY <1>0, <2>1, <3>1, <3>2 DEF TypeOK, view
  <2>6. Named'
    BY <1>0, <2>1, <2>2, <2>3 DEF Named, TypeOK
  <2>7. TabInv(t)'
    <3>1. status[t] = "loading" /\ \A c \in AllCalls : call'[t][c] = Idle
      BY <1>0, <2>1, <2>3 DEF TabInv
    <3>2. /\ token'[t] = new /\ refresh'[t].at = "me" /\ ~refresh'[t].stale /\ refresh'[t] # NoRefresh
          /\ UNCHANGED <<path, status, entering, leaving>>
      BY <1>0, <2>1, <2>2, <2>3 DEF TypeOK, view
    <3> HIDE DEF new
    <3> QED
      BY <1>0, <2>4, <3>1, <3>2 DEF TabInv
  <2> QED
    BY <1>0, <2>1, <2>2, <2>5, <2>6, <2>7, OneTab DEF TypeOK, view
<1>10. ASSUME NEW t \in Tabs, Refreshed(t) PROVE TabsInv'
  <2>1. /\ refresh[t].at = "me" /\ user' = [user EXCEPT ![t] = token[t].user]
        /\ status' = [status EXCEPT ![t] = "authenticated"] /\ refresh' = [refresh EXCEPT ![t] = NoRefresh]
        /\ UNCHANGED <<server, path, guard, token, entering, leaving>>
    BY <1>10 DEF Refreshed
  <2>2. status[t] = "loading" /\ \A c \in AllCalls : call[t][c] = Idle
    BY <1>0, <2>1 DEF TabInv
  <2>3. call' = call
    <3>1. \A c \in AllCalls : call[t][c].at # "waiting"
      BY <2>2
    <3>2. call' = [call EXCEPT ![t] = [c \in AllCalls |-> call[t][c]]]
      BY <1>10, <3>1 DEF Refreshed
    <3>3. call[t] = [c \in AllCalls |-> call[t][c]] /\ call \in [Tabs -> [AllCalls -> CallStates]]
      BY <1>0 DEF TypeOK
    <3> QED
      BY <3>2, <3>3
  <2>4. token[t].user \in Users \cup {NoUser}
    BY <1>0 DEF TypeOK, Tokens
  <2>5. TypeOK' /\ Named'
    BY <1>0, <2>1, <2>3, <2>4 DEF TypeOK, Named, server
  <2>6. TabInv(t)'
    <3>1. status'[t] = "authenticated" /\ refresh'[t] = NoRefresh
      BY <1>0, <2>1 DEF TypeOK
    <3> QED
      BY <1>0, <2>1, <2>2, <2>3, <3>1 DEF TabInv, Stale
  <2> QED
    BY <1>0, <2>1, <2>3, <2>5, <2>6, OneTab DEF TypeOK
<1>11. ASSUME NEW t \in Tabs, RefreshFails(t) PROVE TabsInv'
  <2>1. /\ refresh[t].at # "none" /\ UNCHANGED <<sessions, barred, cookie>>
        /\ lost' \subseteq lost \cup {refresh[t].cookie}
    BY <1>11 DEF RefreshFails
  <2>2. lost' \subseteq Cookies
    BY <1>0, <2>1 DEF TypeOK, Refreshes
  <2>3. CASE Exit(t)
    <3>1. Load(t, NoToken) /\ path' \in [Tabs -> {"login", "app"}]
      BY <1>0, <2>3 DEF Exit, TypeOK
    <3>2. TypeOK'
      BY <1>0, <2>1, <2>2, <3>1, LoadLemma DEF TypeOK
    <3>3. Named'
      <4>1. /\ leaving'[t].cookie = 0 /\ entering'[t].cookie = 0 /\ entering'[t].at = "none"
            /\ refresh'[t].at # "rotated" /\ refresh'[t].cookie \in {0, cookie}
            /\ \A s \in Tabs \ {t} : refresh'[s] = refresh[s] /\ leaving'[s] = leaving[s] /\ entering'[s] = entering[s]
        BY <1>0, <3>1, LoadLemma
      <4> QED
        BY <1>0, <2>1, <4>1 DEF Named
    <3>4. \A s \in Tabs \ {t} : path'[s] = path[s]
      BY <1>0, <2>3 DEF Exit, TypeOK
    <3> QED
      BY <1>0, <3>1, <3>2, <3>3, <3>4, LoadLemma, OneTab
  <2>4. CASE ~Exit(t)
    <3>1. /\ path[t] = "login" /\ \A c \in AllCalls : call[t][c].at # "waiting"
          /\ status' = [status EXCEPT ![t] = "unauthenticated"] /\ user' = [user EXCEPT ![t] = NoUser]
          /\ token' = [token EXCEPT ![t] = NoToken] /\ refresh' = [refresh EXCEPT ![t] = NoRefresh]
          /\ UNCHANGED <<path, guard, call, entering, leaving>>
      BY <1>11, <2>4 DEF RefreshFails
    <3>2. TypeOK' /\ Named'
      BY <1>0, <2>1, <2>2, <3>1 DEF TypeOK, Named
    <3>3. refresh[t] # NoRefresh
      BY <2>1
    <3>4. \A c \in AllCalls : call[t][c] = Idle
      <4>1. \A c \in AllCalls : call[t][c] \in CallStates
        BY <1>0 DEF TypeOK
      <4> QED
        BY <1>0, <3>1, <3>3, <4>1 DEF TabInv, CallStates
    <3>5. leaving[t].at = "none"
      BY <1>0, <3>1, <3>3 DEF TabInv
    <3>6. TabInv(t)'
      <4>1. status'[t] = "unauthenticated" /\ refresh'[t] = NoRefresh /\ token'[t] = NoToken
        BY <1>0, <3>1 DEF TypeOK
      <4> QED
        BY <3>1, <3>4, <3>5, <4>1 DEF TabInv
    <3> QED
      BY <1>0, <3>1, <3>2, <3>6, OneTab DEF TypeOK
  <2> QED
    BY <2>3, <2>4
<1>12. ASSUME NEW t \in Tabs, NEW c \in AllCalls, (Call(t, c) /\ c \in Calls) \/ Answered(t, c)
       PROVE  TabsInv'
  <2>1. PICK new \in CallStates :
           /\ call' = [call EXCEPT ![t] = [call[t] EXCEPT ![c] = new]]
           /\ new = Idle \/ (new.at = "sent" /\ new.stale = Stale(t) /\ Call(t, c) /\ c # "me")
    <3>1. call[t] \in [AllCalls -> CallStates] /\ call \in [Tabs -> [AllCalls -> CallStates]]
      BY <1>0 DEF TypeOK
    <3>2. CASE Answered(t, c)
      BY <3>1, <3>2 DEF Answered
    <3>3. CASE Call(t, c) /\ c \in Calls
      <4>1. [at |-> "sent", stale |-> Stale(t), again |-> FALSE] \in CallStates
        BY DEF Stale, CallStates
      <4> QED
        BY <3>1, <3>3, <4>1, SessionAssumption DEF Call
    <3> QED
      BY <1>12, <3>2, <3>3
  <2>2. /\ UNCHANGED <<server, path, guard, token, refresh, entering, leaving>>
        /\ \/ UNCHANGED <<user, status>>
           \/ /\ c = "me" /\ call[t][c].at = "sent" /\ new = Idle
              /\ user' = [user EXCEPT ![t] = token[t].user]
              /\ status' = [status EXCEPT ![t] = "authenticated"]
    <3>1. CASE Call(t, c) /\ c \in Calls
      BY <3>1 DEF Call, view
    <3>2. CASE Answered(t, c)
      <4>1. call[t][c].at = "sent" /\ ~(Call(t, c) /\ c # "me")
        BY <3>2, Values DEF Answered, Call
      <4> QED
        BY <2>1, <3>2, <4>1 DEF Answered
    <3> QED
      BY <1>12, <3>1, <3>2
  <2>3. token[t].user \in Users \cup {NoUser}
    BY <1>0 DEF TypeOK, Tokens
  <2>4. /\ call' \in [Tabs -> [AllCalls -> CallStates]] /\ call'[t][c] = new
        /\ \A d \in AllCalls \ {c} : call'[t][d] = call[t][d]
        /\ \A s \in Tabs \ {t} : call'[s] = call[s]
    BY <1>0, <2>1 DEF TypeOK
  <2>5. TypeOK' /\ Named'
    BY <1>0, <2>2, <2>3, <2>4 DEF TypeOK, Named, server
  <2>6. TabInv(t)'
    <3>1. CASE new # Idle
      <4>1. /\ status[t] = "authenticated" /\ path[t] = "app" /\ call[t][c] = Idle
            /\ UNCHANGED <<status, path, token, refresh, entering, leaving>>
        BY <2>1, <2>2, <3>1 DEF Call, view
      <4>2. refresh[t] # NoRefresh => refresh[t].stale
        BY <1>0, <4>1 DEF TabInv
      <4>3. \A d \in AllCalls : call[t][d].at = "waiting" => call'[t][d].at = "waiting"
        BY <2>4, <4>1
      <4>4. Stale(t)' = Stale(t)
        BY <4>1 DEF Stale
      <4> QED
        BY <1>0, <2>1, <2>4, <3>1, <4>1, <4>2, <4>3, <4>4 DEF TabInv
    <3>2. CASE new = Idle /\ UNCHANGED <<user, status>>
      <4>1. CASE call[t][c].at # "sent"
        <5>1. call[t][c] = Idle
          BY <2>1, <1>12, <3>2, <4>1 DEF Call, Answered
        <5>2. \A d \in AllCalls : call'[t][d] = call[t][d]
          BY <2>4, <3>2, <5>1
        <5> QED
          BY <1>0, <2>2, <3>2, <5>2 DEF TabInv, Stale
      <4>2. CASE call[t][c].at = "sent"
        <5>1. \A d \in AllCalls : call[t][d].at = "waiting" => call'[t][d].at = "waiting"
          BY <2>4, <4>2
        <5> QED
          BY <1>0, <2>2, <2>4, <3>2, <4>2, <5>1 DEF TabInv, Stale
      <4> QED
        BY <4>1, <4>2
    <3>3. CASE /\ c = "me" /\ call[t][c].at = "sent" /\ new = Idle
               /\ status' = [status EXCEPT ![t] = "authenticated"]
      <4>1. status'[t] = "authenticated" /\ refresh[t] = NoRefresh /\ status[t] = "loading"
        BY <1>0, <3>3 DEF TabInv, TypeOK
      <4>2. \A d \in AllCalls : call'[t][d] = Idle
        BY <1>0, <2>4, <3>3, <4>1 DEF TabInv
      <4> QED
        BY <1>0, <2>2, <4>1, <4>2 DEF TabInv
    <3> QED
      BY <2>2, <3>1, <3>2, <3>3
  <2>7. \A s \in Tabs \ {t} : status'[s] = status[s]
    BY <1>0, <2>2 DEF TypeOK
  <2>8. path' = path /\ token' = token /\ refresh' = refresh /\ leaving' = leaving /\ entering' = entering
    BY <2>2
  <2>9. ASSUME NEW s \in Tabs PROVE TabInv(s)'
    <3>1. CASE s = t
      BY <2>6, <3>1
    <3>2. CASE s # t
      <4>1. path'[s] = path[s] /\ token'[s] = token[s] /\ leaving'[s] = leaving[s] /\ entering'[s] = entering[s]
        BY <2>8
      <4>2. s \in Tabs \ {t}
        BY <3>2
      <4>3. call'[s] = call[s]
        BY <4>2, <2>4
      <4>4. refresh'[s] = refresh[s]
        BY <4>2, <2>8
      <4>5. status'[s] = status[s]
        BY <4>2, <2>7
      <4> QED
        BY <1>0, <4>1, <4>3, <4>4, <4>5, Untouched
    <3> QED
      BY <3>1, <3>2
  <2> QED
    BY <2>5, <2>9 DEF TabsInv
<1>13. ASSUME NEW t \in Tabs, NEW c \in AllCalls, Unauthorized(t, c), call[t][c].again PROVE TabsInv'
  <2>1. Load(t, NoToken) /\ path' = [path EXCEPT ![t] = "login"] /\ UNCHANGED server
    BY <1>13 DEF Unauthorized, Exit
  <2>2. path' \in [Tabs -> {"login", "app"}] /\ \A s \in Tabs \ {t} : path'[s] = path[s]
    BY <1>0, <2>1 DEF TypeOK
  <2>3. TypeOK'
    BY <1>0, <2>1, <2>2, LoadLemma DEF TypeOK, server
  <2>4. Named'
    <3>1. /\ leaving'[t].cookie = 0 /\ entering'[t].cookie = 0 /\ entering'[t].at = "none"
          /\ refresh'[t].at # "rotated" /\ refresh'[t].cookie \in {0, cookie}
          /\ \A s \in Tabs \ {t} : refresh'[s] = refresh[s] /\ leaving'[s] = leaving[s] /\ entering'[s] = entering[s]
      BY <1>0, <2>1, <2>2, LoadLemma
    <3> QED
      BY <1>0, <2>1, <3>1 DEF Named, server
  <2> QED
    BY <1>0, <2>1, <2>2, <2>3, <2>4, LoadLemma, OneTab
<1>14. ASSUME NEW t \in Tabs, NEW c \in AllCalls,
              CallFails(t, c) \/ (Unauthorized(t, c) /\ ~call[t][c].again)
       PROVE  TabsInv'
  <2>0. call[t] \in [AllCalls -> CallStates] /\ call \in [Tabs -> [AllCalls -> CallStates]]
        /\ call[t][c] \in CallStates
    BY <1>0 DEF TypeOK
  <2>1. PICK new \in CallStates :
           /\ call' = [call EXCEPT ![t] = [call[t] EXCEPT ![c] = new]] /\ call[t][c].at = "sent"
           /\ \/ new = Idle /\ (c = "me" => AttemptRefresh(t)) /\ (c # "me" => UNCHANGED refresh)
              \/ new.at = "waiting" /\ call[t][c].stale /\ AttemptRefresh(t)
    <3>1. CASE CallFails(t, c)
      BY <2>0, <3>1 DEF CallFails
    <3>2. CASE Unauthorized(t, c) /\ ~call[t][c].again
      <4>1. [call[t][c] EXCEPT !.at = "waiting"] \in CallStates /\ [call[t][c] EXCEPT !.at = "waiting"].at = "waiting"
        BY <2>0 DEF CallStates
      <4>2. call' = [call EXCEPT ![t] = [call[t] EXCEPT ![c] = [call[t][c] EXCEPT !.at = "waiting"]]]
        BY <2>0, <3>2 DEF Unauthorized
      <4> QED
        BY <3>2, <4>1, <4>2 DEF Unauthorized
    <3> QED
      BY <1>14, <3>1, <3>2
  <2>2. UNCHANGED <<server, view, token, entering, leaving>>
    BY <1>14 DEF CallFails, Unauthorized
  <2> DEFINE post == [at |-> "posted", cookie |-> cookie, stale |-> Stale(t)]
  <2>3. post \in Refreshes /\ post # NoRefresh /\ post.at = "posted" /\ post.stale = Stale(t) /\ post.cookie = cookie
    BY <1>0 DEF TypeOK, Refreshes, Stale, NoRefresh
  <2> HIDE DEF post
  <2>4. /\ refresh' \in [Tabs -> Refreshes] /\ \A s \in Tabs \ {t} : refresh'[s] = refresh[s]
        /\ refresh'[t] \in {refresh[t], post}
        /\ AttemptRefresh(t) => refresh'[t] = IF refresh[t] = NoRefresh THEN post ELSE refresh[t]
        /\ ~AttemptRefresh(t) => refresh'[t] = refresh[t]
    <3>1. CASE AttemptRefresh(t)
      <4>1. refresh' = [refresh EXCEPT ![t] = IF refresh[t] # NoRefresh THEN refresh[t] ELSE post]
        BY <3>1 DEF AttemptRefresh, post
      <4> QED
        BY <1>0, <2>3, <3>1, <4>1 DEF TypeOK
    <3>2. CASE ~AttemptRefresh(t)
      BY <1>0, <2>1, <3>2 DEF TypeOK
    <3> QED
      BY <3>1, <3>2
  <2>5. /\ call' \in [Tabs -> [AllCalls -> CallStates]] /\ call'[t][c] = new
        /\ \A d \in AllCalls \ {c} : call'[t][d] = call[t][d]
        /\ \A s \in Tabs \ {t} : call'[s] = call[s]
    BY <2>0, <2>1
  <2>6. TypeOK'
    BY <1>0, <2>2, <2>4, <2>5 DEF TypeOK, server, view
  <2>7. Named'
    BY <1>0, <2>2, <2>3, <2>4 DEF Named, server
  <2>8. status' = status /\ path' = path /\ token' = token /\ leaving' = leaving /\ entering' = entering /\ Stale(t)' = Stale(t)
    BY <2>2 DEF view, Stale
  <2>9. TabInv(t)'
    <3>1. call[t][c] # Idle /\ refresh[t] # NoRefresh => refresh[t].stale
      BY <1>0, <2>1 DEF TabInv
    <3>2. CASE new = Idle /\ c = "me"
      <4>1. status[t] = "loading" /\ refresh[t] = NoRefresh /\ refresh'[t] = post
        BY <1>0, <2>1, <2>4, <3>2 DEF TabInv
      <4>2. \A d \in AllCalls : call'[t][d] = Idle
        BY <1>0, <2>5, <3>2, <4>1 DEF TabInv
      <4> QED
        BY <1>0, <2>3, <2>8, <4>1, <4>2 DEF TabInv
    <3>3. CASE new = Idle /\ c # "me"
      <4>1. /\ refresh'[t] = refresh[t] /\ status[t] = "authenticated"
            /\ \A d \in AllCalls : call[t][d].at = "waiting" => call'[t][d].at = "waiting"
        BY <1>0, <2>1, <2>4, <2>5, <3>3 DEF TabInv, Values
      <4> QED
        BY <1>0, <2>5, <2>8, <3>3, <4>1 DEF TabInv
    <3>4. CASE new.at = "waiting"
      <4>1. Stale(t) /\ AttemptRefresh(t) /\ call[t][c] # Idle
        BY <1>0, <2>1, <3>4 DEF TabInv
      <4>2. refresh'[t] # NoRefresh /\ refresh'[t].stale /\ refresh'[t].at # "none"
        BY <1>0, <2>3, <2>4, <3>1, <4>1 DEF TabInv
      <4>3. refresh'[t].at \notin {"rotated", "me"}
        BY <1>0, <2>3, <2>4, <3>1, <4>1, <4>2 DEF TabInv
      <4>4. c # "me" => call[t]["me"] = Idle
        BY <1>0, <2>1, <4>1 DEF TabInv, AllCalls
      <4> QED
        BY <1>0, <2>1, <2>5, <2>8, <3>4, <4>1, <4>2, <4>3, <4>4 DEF TabInv
    <3> QED
      BY <2>1, <3>2, <3>3, <3>4
  <2>10. ASSUME NEW s \in Tabs PROVE TabInv(s)'
    <3>1. CASE s = t
      BY <2>9, <3>1
    <3>2. CASE s # t
      <4>1. path'[s] = path[s] /\ token'[s] = token[s] /\ leaving'[s] = leaving[s] /\ entering'[s] = entering[s]
        BY <2>8
      <4>2. s \in Tabs \ {t}
        BY <3>2
      <4>3. call'[s] = call[s]
        BY <4>2, <2>5
      <4>4. refresh'[s] = refresh[s]
        BY <4>2, <2>4
      <4>5. status'[s] = status[s]
        BY <4>2, <2>8
      <4> QED
        BY <1>0, <4>1, <4>3, <4>4, <4>5, Untouched
    <3> QED
      BY <3>1, <3>2
  <2> QED
    BY <2>6, <2>7, <2>10 DEF TabsInv
<1>15. CASE UNCHANGED vars
  BY <1>0, <1>15, Untouched DEF vars, TabsInv, TypeOK, Named
<1>16. ASSUME NEW t \in Tabs, NEW c \in AllCalls, Unauthorized(t, c) \/ CallFails(t, c) PROVE TabsInv'
  BY <1>13, <1>14, <1>16
<1> QED
  BY <1>1, <1>2, <1>3, <1>4, <1>5, <1>6, <1>7, <1>8, <1>9, <1>10, <1>11, <1>12, <1>15, <1>16, <1>17, <1>18
     DEF Next, AllCalls

\* Type correctness of the tabs, their cookie and the server's sessions.
THEOREM SessionTypeCorrect == Spec => []TypeOK
<1>1. TabsInv => TypeOK
  BY DEF TabsInv
<1> QED
  BY <1>1, TabsInit, TabsStep, PTL DEF Spec
----------------------------------------------------------------------------
\* What becomes of the cookie's sessions.

\* A tab's refresh has rotated the session.
Spent(n) == sessions[n].state \in Tabs

\* The session a refresh has brought is not yet in the cookie, and no other tab's
\* request carries it.
Fresh(t) ==
    refresh[t].at = "rotated" =>
        /\ refresh[t].cookie # cookie
        /\ ~Spent(refresh[t].cookie)
        /\ \A s \in Tabs : refresh[s].at = "posted" \/ (refresh[s].at = "rotated" /\ s # t) =>
               refresh[s].cookie # refresh[t].cookie

\* A logout that revoked has ended its session.
Ended(t) == leaving[t].at = "revoked" => ~Live(leaving[t].cookie)

\* A tab asks with a session of its own spending only after an answer was lost.
Respent(t) ==
    refresh[t].at = "posted" /\ ~refresh[t].stale /\ refresh[t].cookie # NoCookie
        /\ sessions[refresh[t].cookie].state = t => \E n \in lost : n > refresh[t].cookie

\* The cookie names a session spent by the tab only until the answer comes, or if it
\* never does.
Behind(t) ==
    cookie # NoCookie /\ sessions[cookie].state = t =>
        \/ \E n \in lost : n > cookie
        \/ refresh[t].at = "rotated" /\ refresh[t].cookie > cookie

\* So is the session a login has been given.
Issued(t) ==
    entering[t].at = "issued" =>
        /\ entering[t].cookie # cookie
        /\ ~Spent(entering[t].cookie)
        /\ \A s \in Tabs :
             /\ refresh[s].at \in {"posted", "rotated"} => refresh[s].cookie # entering[t].cookie
             /\ s # t /\ entering[s].at = "issued" => entering[s].cookie # entering[t].cookie

CookieInv == \A t \in Tabs : Fresh(t) /\ Issued(t) /\ Ended(t) /\ Respent(t) /\ Behind(t)

SessionInv == TabsInv /\ CookieInv /\ LiveIsHeld

LEMMA CookieRanges ==
    ASSUME TabsInv
    PROVE  /\ Len(sessions) \in Nat /\ cookie \in Nat /\ cookie <= Len(sessions) /\ lost \subseteq Nat
           /\ DOMAIN sessions = 1..Len(sessions)
           /\ \A n \in DOMAIN sessions : sessions[n].state \in {"live", "ended"} \cup Tabs
           /\ "live" \notin Tabs /\ "ended" \notin Tabs /\ NoCookie = 0
           /\ \A t \in Tabs :
                /\ refresh[t] \in Refreshes /\ refresh[t].cookie \in Nat /\ refresh[t].cookie <= Len(sessions)
                /\ leaving[t].cookie \in Nat /\ leaving[t].cookie <= Len(sessions)
                /\ entering[t].cookie \in Nat /\ entering[t].cookie <= Len(sessions)
                /\ refresh[t].at = "rotated" => refresh[t].cookie # 0
                /\ entering[t].at = "issued" => entering[t].cookie # 0
<1>1. TypeOK /\ Named /\ lost \subseteq Cookies /\ Cookies \subseteq Nat
  BY SessionAssumption DEF TabsInv, TypeOK, Cookies
<1>2. \A n \in DOMAIN sessions : sessions[n] \in Sessions
  BY <1>1 DEF TypeOK
<1>3. \A n \in DOMAIN sessions : sessions[n].state \in {"live", "ended"} \cup Tabs
  BY <1>2 DEF Sessions
<1>4. Len(sessions) \in Nat /\ DOMAIN sessions = 1..Len(sessions)
  BY <1>1 DEF TypeOK
<1>5. \A t \in Tabs : refresh[t] \in Refreshes /\ leaving[t] \in Exits /\ entering[t] \in Entries
  BY <1>1 DEF TypeOK
<1>6. \A t \in Tabs : refresh[t].cookie \in Cookies /\ leaving[t].cookie \in Cookies /\ entering[t].cookie \in Cookies
  BY <1>5 DEF Refreshes, Exits, Entries
<1> QED
  BY <1>1, <1>3, <1>4, <1>5, <1>6, SessionAssumption DEF Named, NoCookie, TypeOK

\* A step that moves no session and not the cookie: one tab's refresh stays, is
\* refused, is given up, or is sent, and a session brought is lost with it.
LEMMA QuietStep ==
    ASSUME SessionInv, NEW t \in Tabs, sessions' = sessions, cookie' = cookie, lost \subseteq lost',
           \A s \in Tabs : leaving'[s].at = "revoked" => leaving'[s] = leaving[s],
           \A s \in Tabs : /\ entering'[s].at = "issued" => entering'[s] = entering[s]
                           /\ entering[s].at = "issued" => \/ entering'[s] = entering[s]
                                                           \/ entering[s].cookie \in lost',
           \A s \in Tabs \ {t} : refresh'[s] = refresh[s],
           \/ refresh'[t] = refresh[t]
           \/ /\ refresh[t].at = "rotated" => refresh[t].cookie \in lost'
              /\ \/ refresh'[t].at \in {"none", "refused"}
                 \/ refresh'[t].at = "posted" /\ refresh'[t].cookie = cookie
    PROVE  CookieInv' /\ LiveIsHeld'
<1> USE CookieRanges DEF SessionInv
<1>1. ASSUME NEW s \in Tabs, refresh'[s].at = "rotated" PROVE Fresh(s)'
  <2>1. refresh'[s] = refresh[s] /\ Fresh(s)
    BY <1>1 DEF CookieInv
  <2>2. refresh[s].cookie # cookie /\ ~Spent(refresh[s].cookie)
    BY <1>1, <2>1 DEF Fresh
  <2>3. ASSUME NEW r \in Tabs, refresh'[r].at = "posted" \/ (refresh'[r].at = "rotated" /\ r # s)
        PROVE  refresh'[r].cookie # refresh[s].cookie
    <3>1. CASE refresh'[r] = refresh[r]
      BY <1>1, <2>1, <2>3, <3>1 DEF Fresh
    <3>2. CASE refresh'[r] # refresh[r]
      BY <2>2, <2>3, <3>2
    <3> QED
      BY <3>1, <3>2
  <2> QED
    BY <2>1, <2>2, <2>3 DEF Fresh, Spent
<1>2. ASSUME NEW s \in Tabs PROVE Ended(s)'
  BY DEF CookieInv, Ended, Live
<1>3. ASSUME NEW s \in Tabs PROVE Behind(s)'
  BY DEF CookieInv, Behind
<1>4. ASSUME NEW s \in Tabs PROVE Respent(s)'
  <2>1. CASE refresh'[s] = refresh[s]
    BY <2>1 DEF CookieInv, Respent
  <2>2. CASE s = t /\ refresh'[s].at = "posted" /\ refresh'[s].cookie = cookie
    <3>1. cookie # NoCookie /\ sessions[cookie].state = t => \E n \in lost' : n > cookie
      BY <2>2 DEF CookieInv, Behind
    <3> QED
      BY <2>2, <3>1 DEF Respent
  <2> QED
    BY <2>1, <2>2 DEF Respent
<1>5. LiveIsHeld'
  BY DEF LiveIsHeld, Live
<1>6. ASSUME NEW s \in Tabs PROVE Issued(s)'
  BY DEF CookieInv, Issued, Spent
<1> QED
  BY <1>1, <1>2, <1>3, <1>4, <1>5, <1>6 DEF CookieInv, Fresh

\* A step that only ends live sessions.
LEMMA RevokeStep ==
    ASSUME SessionInv, UNCHANGED <<cookie, lost, refresh, entering>>, DOMAIN sessions' = DOMAIN sessions,
           \A n \in DOMAIN sessions :
              \/ sessions'[n] = sessions[n]
              \/ sessions'[n].state = "ended" /\ sessions[n].state = "live",
           \A s \in Tabs : leaving'[s] = leaving[s] \/ Ended(s)'
    PROVE  CookieInv' /\ LiveIsHeld'
<1> USE CookieRanges DEF SessionInv
<1>1. \A n \in DOMAIN sessions :
         /\ (sessions'[n].state \in Tabs) = (sessions[n].state \in Tabs)
         /\ sessions'[n].state \in Tabs => sessions'[n].state = sessions[n].state
         /\ sessions'[n].state = "live" => sessions[n].state = "live"
  OBVIOUS
<1>2. ASSUME NEW s \in Tabs PROVE Fresh(s)'
  BY <1>1 DEF CookieInv, Fresh, Spent
<1>3. ASSUME NEW s \in Tabs PROVE Ended(s)'
  BY <1>1 DEF CookieInv, Ended, Live
<1>4. ASSUME NEW s \in Tabs PROVE Behind(s)' /\ Respent(s)'
  BY <1>1 DEF CookieInv, Behind, Respent
<1>5. LiveIsHeld'
  BY <1>1 DEF LiveIsHeld, Live
<1>6. ASSUME NEW s \in Tabs PROVE Issued(s)'
  BY <1>1 DEF CookieInv, Issued, Spent
<1> QED
  BY <1>2, <1>3, <1>4, <1>5, <1>6 DEF CookieInv

LEMMA SessionInit == Init => SessionInv
<1>1. Init => CookieInv /\ LiveIsHeld
  BY Values DEF Init, CookieInv, Fresh, Issued, Ended, Respent, Behind, LiveIsHeld
<1> QED
  BY <1>1, TabsInit DEF SessionInv

LEMMA SessionStep == SessionInv /\ [Next]_vars => SessionInv'
<1> SUFFICES ASSUME SessionInv, [Next]_vars PROVE CookieInv' /\ LiveIsHeld'
  BY TabsStep DEF SessionInv
<1>0. TabsInv /\ TypeOK /\ \A t \in Tabs : TabInv(t)
  BY DEF SessionInv, TabsInv
<1> USE CookieRanges
<1>1. ASSUME \/ \E u \in Users : RevokeAll(u) \/ SetUserStatus(u)
             \/ \E n \in DOMAIN sessions : SessionExpires(n)
      PROVE  CookieInv' /\ LiveIsHeld'
  <2>1. UNCHANGED <<cookie, lost, refresh, entering, leaving>>
    BY <1>1 DEF RevokeAll, SetUserStatus, SessionExpires, outside
  <2>2. /\ DOMAIN sessions' = DOMAIN sessions
        /\ \A n \in DOMAIN sessions :
              sessions'[n] = sessions[n] \/ (sessions'[n].state = "ended" /\ sessions[n].state = "live")
    BY <1>0, <1>1, AllRevoked, OneExpired DEF SetUserStatus
  <2> QED
    BY <2>1, <2>2, RevokeStep
<1>2. ASSUME NEW t \in Tabs, Open(t) \/ Reload(t) PROVE CookieInv' /\ LiveIsHeld'
  <2>1. PICK held \in Tokens : Load(t, held) /\ (held.live => held.user \in Users)
    BY <1>0, <1>2, Values DEF Open, Reload, TypeOK, TabInv
  <2>2. UNCHANGED <<sessions, cookie, lost, path>> /\ path' \in [Tabs -> {"login", "app"}]
    BY <1>0, <1>2 DEF Open, Reload, server, TypeOK
  <2>3. refresh[t].at # "rotated"
    BY <1>0, <1>2, Values DEF Open, Reload, TabInv
  <2>4. /\ refresh'[t].at = "none" \/ (refresh'[t].at = "posted" /\ refresh'[t].cookie = cookie)
        /\ leaving'[t].at = "none" /\ entering'[t].at = "none" /\ entering[t].at # "issued"
        /\ \A s \in Tabs \ {t} : refresh'[s] = refresh[s] /\ leaving'[s] = leaving[s] /\ entering'[s] = entering[s]
    BY <1>0, <1>2, <2>1, <2>2, LoadLemma, Values DEF Open, Reload, TabInv
  <2> QED
    BY <2>2, <2>3, <2>4, QuietStep
<1>3. ASSUME NEW t \in Tabs, Render(t) \/ LeaveLogin(t) \/ Expire(t) \/ Logout(t) PROVE CookieInv' /\ LiveIsHeld'
  <2>1. UNCHANGED <<sessions, cookie, lost, refresh, entering>>
    BY <1>3 DEF Render, LeaveLogin, Expire, Logout, server, view
  <2>2. \A s \in Tabs : leaving'[s] = leaving[s] \/ leaving'[s].at # "revoked"
    BY <1>0, <1>3 DEF Render, LeaveLogin, Expire, Logout, TypeOK
  <2> QED
    BY <2>1, <2>2, QuietStep
<1>4. ASSUME NEW t \in Tabs, Login(t) \/ LoginFails(t) PROVE CookieInv' /\ LiveIsHeld'
  <2>1. UNCHANGED <<sessions, cookie, refresh, leaving>> /\ lost \subseteq lost'
    BY <1>4 DEF Login, LoginFails, server
  <2>2. \A s \in Tabs \ {t} : entering'[s] = entering[s]
    BY <1>0, <1>4 DEF Login, LoginFails, TypeOK
  <2>3. entering'[t].at # "issued" /\ (entering[t].at = "issued" => entering[t].cookie \in lost')
    BY <1>0, <1>4, Values DEF Login, LoginFails, TypeOK, Entries
  <2> QED
    BY <2>1, <2>2, <2>3, QuietStep
<1>14. ASSUME NEW t \in Tabs, NEW u \in Users, Admit(t, u) PROVE CookieInv' /\ LiveIsHeld'
  <2> DEFINE last == Len(sessions) + 1
  <2>1. /\ sessions' = Append(sessions, [user |-> u, state |-> "live"])
        /\ UNCHANGED <<cookie, lost, refresh, leaving>>
    BY <1>14 DEF Admit, Issue
  <2>2. /\ \A n \in DOMAIN sessions : sessions'[n] = sessions[n]
        /\ DOMAIN sessions' = DOMAIN sessions \cup {last} /\ sessions'[last].state = "live"
    BY <1>0, <2>1 DEF TypeOK
  <2>3. /\ entering'[t].at = "issued" /\ entering'[t].cookie = last
        /\ \A s \in Tabs \ {t} : entering'[s] = entering[s]
    BY <1>0, <1>14 DEF Admit, TypeOK
  <2> HIDE DEF last
  <2>4. last = Len(sessions) + 1
    BY DEF last
  <2>5. ASSUME NEW s \in Tabs PROVE Fresh(s)' /\ Ended(s)'
    BY <1>0, <2>1, <2>2, <2>4 DEF SessionInv, CookieInv, Fresh, Ended, Spent, Live
  <2>6. ASSUME NEW s \in Tabs PROVE Issued(s)'
    BY <1>0, <2>1, <2>2, <2>3, <2>4 DEF SessionInv, CookieInv, Issued, Spent
  <2>7. ASSUME NEW s \in Tabs PROVE Respent(s)' /\ Behind(s)'
    BY <1>0, <2>1, <2>2, <2>4 DEF SessionInv, CookieInv, Respent, Behind
  <2>8. ASSUME NEW k \in DOMAIN sessions', Live(k)', k # cookie', k \notin lost'
        PROVE  \E s \in Tabs : \/ refresh'[s].at = "rotated" /\ refresh'[s].cookie = k
                               \/ entering'[s].at = "issued" /\ entering'[s].cookie = k
    <3>1. CASE k = last
      BY <2>3, <3>1
    <3>2. CASE k # last
      <4>1. k \in DOMAIN sessions /\ Live(k)
        BY <2>2, <2>8, <3>2 DEF Live
      <4>2. PICK s \in Tabs : \/ refresh[s].at = "rotated" /\ refresh[s].cookie = k
                              \/ entering[s].at = "issued" /\ entering[s].cookie = k
        BY <2>1, <2>8, <4>1 DEF SessionInv, LiveIsHeld
      <4>3. entering[t].at # "issued"
        BY <1>14 DEF Admit
      <4> QED
        BY <2>1, <2>3, <4>2, <4>3
    <3> QED
      BY <3>1, <3>2
  <2> QED
    BY <2>5, <2>6, <2>7, <2>8 DEF CookieInv, LiveIsHeld
<1>15. ASSUME NEW t \in Tabs, LoggedIn(t) PROVE CookieInv' /\ LiveIsHeld'
  <2>1. /\ entering[t].at = "issued" /\ cookie' = entering[t].cookie
        /\ lost' = lost \cup {n \in {cookie} : Live(n)} /\ UNCHANGED <<sessions, refresh, leaving>>
    BY <1>15 DEF LoggedIn
  <2>2. entering'[t].at = "none" /\ \A s \in Tabs \ {t} : entering'[s] = entering[s]
    BY <1>0, <1>15, Values DEF LoggedIn, TypeOK
  <2>3. Issued(t) /\ \A s \in Tabs : Fresh(s) /\ Issued(s) /\ Ended(s) /\ Respent(s) /\ Behind(s)
    BY DEF SessionInv, CookieInv
  <2>4. ASSUME NEW s \in Tabs PROVE Fresh(s)' /\ Ended(s)' /\ Respent(s)'
    BY <2>1, <2>3 DEF Fresh, Issued, Ended, Respent, Spent, Live
  <2>5. ASSUME NEW s \in Tabs PROVE Issued(s)'
    BY <2>1, <2>2, <2>3 DEF Issued, Spent
  <2>6. ASSUME NEW s \in Tabs PROVE Behind(s)'
    BY <2>1, <2>3 DEF Issued, Spent, Behind
  <2>7. LiveIsHeld'
    BY <2>1, <2>2 DEF SessionInv, LiveIsHeld, Live
  <2> QED
    BY <2>4, <2>5, <2>6, <2>7 DEF CookieInv
<1>5. ASSUME NEW t \in Tabs, Revoke(t) PROVE CookieInv' /\ LiveIsHeld'
  <2>1. UNCHANGED <<cookie, lost, refresh, entering>>
    BY <1>5 DEF Revoke
  <2>2. CASE sessions' = sessions
    <3>1. leaving'[t].at = "revoked" => leaving'[t].cookie = leaving[t].cookie /\ ~Live(leaving[t].cookie)
      <4>1. ASSUME leaving'[t].at = "revoked", Live(leaving[t].cookie) PROVE FALSE
        <5>1. sessions' = Marked(leaving[t].cookie, "ended")
          BY <1>0, <1>5, <4>1 DEF Revoke, TypeOK, Marked, Exits
        <5>2. leaving[t].cookie \in DOMAIN sessions /\ sessions[leaving[t].cookie].state = "live"
          BY <1>0, <4>1 DEF Live
        <5>3. sessions'[leaving[t].cookie].state = "ended"
          BY <1>0, <5>1, <5>2, StateSet
        <5> QED
          BY <2>2, <5>2, <5>3
      <4> QED
        BY <1>0, <1>5, <4>1 DEF Revoke, TypeOK, Exits
    <3> QED
      BY <1>0, <1>5, <2>1, <2>2, <3>1, RevokeStep DEF Revoke, TypeOK, Ended, Live
  <2>3. CASE sessions' # sessions
    <3>1. /\ Live(leaving[t].cookie) /\ sessions' = Marked(leaving[t].cookie, "ended")
          /\ leaving' = [leaving EXCEPT ![t].at = "revoked"]
      BY <1>5, <2>3 DEF Revoke, Marked
    <3>2. leaving[t].cookie \in DOMAIN sessions /\ sessions[leaving[t].cookie].state = "live"
      BY <1>0, <3>1 DEF Live
    <3>3. /\ DOMAIN sessions' = DOMAIN sessions /\ sessions'[leaving[t].cookie].state = "ended"
          /\ \A n \in DOMAIN sessions \ {leaving[t].cookie} : sessions'[n] = sessions[n]
      BY <1>0, <3>1, <3>2, StateSet
    <3>4. leaving'[t].cookie = leaving[t].cookie /\ \A s \in Tabs \ {t} : leaving'[s] = leaving[s]
      BY <1>0, <3>1 DEF TypeOK, Exits
    <3>5. Ended(t)'
      BY <3>3, <3>4 DEF Ended, Live
    <3> QED
      BY <2>1, <3>2, <3>3, <3>4, <3>5, RevokeStep
  <2> QED
    BY <2>2, <2>3

<1>6. ASSUME NEW t \in Tabs, LoggedOut(t) PROVE CookieInv' /\ LiveIsHeld'
  <2>1. /\ UNCHANGED <<sessions, entering>> /\ lost \subseteq lost' /\ leaving[t].at \in {"refused", "revoked"}
        /\ cookie' = IF leaving[t].at = "revoked" THEN NoCookie ELSE cookie
        /\ cookie' = NoCookie /\ leaving[t].cookie # cookie => {n \in {cookie} : Live(n)} \subseteq lost'
    BY <1>6 DEF LoggedOut
  <2>2. /\ refresh'[t].at = "posted" /\ refresh'[t].cookie = cookie' /\ leaving'[t].at = "none"
        /\ \A s \in Tabs \ {t} : refresh'[s] = refresh[s] /\ leaving'[s] = leaving[s]
    BY <1>0, <1>6, Values DEF LoggedOut, TypeOK
  <2>3. refresh[t].at # "rotated"
    BY <1>0, <2>1, Values DEF TabInv
  <2>4. CASE leaving[t].at = "refused"
    BY <2>1, <2>2, <2>3, <2>4, QuietStep
  <2>5. CASE leaving[t].at = "revoked"
    <3>1. cookie' = 0
      BY <1>0, <2>1, <2>5
    <3>2. ASSUME NEW s \in Tabs PROVE Fresh(s)'
      BY <2>1, <2>2, <2>3, <3>1 DEF SessionInv, CookieInv, Fresh, Spent
    <3>3. ASSUME NEW s \in Tabs PROVE Ended(s)' /\ Issued(s)'
      BY <2>1, <2>2, <3>1 DEF SessionInv, CookieInv, Issued, Spent, Ended, Live
    <3>4. ASSUME NEW s \in Tabs PROVE Respent(s)' /\ Behind(s)'
      BY <2>1, <2>2, <3>1 DEF SessionInv, CookieInv, Respent, Behind
    <3>5. LiveIsHeld'
      <4>1. ASSUME Live(cookie) PROVE cookie \in lost'
        BY <2>1, <2>5, <4>1 DEF SessionInv, CookieInv, Ended
      <4> QED
        BY <2>1, <2>2, <2>3, <4>1 DEF SessionInv, LiveIsHeld, Live
    <3> QED
      BY <3>2, <3>3, <3>4, <3>5 DEF CookieInv
  <2> QED
    BY <2>1, <2>4, <2>5
<1>7. ASSUME NEW t \in Tabs, Rotate(t) PROVE CookieInv' /\ LiveIsHeld'
  <2> DEFINE n == refresh[t].cookie
             last == Len(sessions) + 1
             goes == Live(n) /\ sessions[n].user \notin barred /\ ~refresh[t].stale
  <2>1. refresh[t].at = "posted" /\ UNCHANGED <<cookie, lost, entering, leaving>>
    BY <1>7 DEF Rotate
  <2>2. CASE ~goes
    <3>1. /\ sessions' = sessions /\ refresh'[t].at = "refused"
          /\ \A s \in Tabs \ {t} : refresh'[s] = refresh[s]
      BY <1>0, <1>7, <2>2 DEF Rotate, TypeOK, Refreshes
    <3> QED
      BY <2>1, <3>1, QuietStep
  <2>3. CASE goes
    <3>1. /\ sessions' = Append(Marked(n, t), [user |-> sessions[n].user, state |-> "live"])
          /\ refresh' = [refresh EXCEPT ![t].at = "rotated", ![t].cookie = last]
      BY <1>7, <2>3 DEF Rotate, Marked
    <3>2. n \in DOMAIN sessions /\ sessions[n].state = "live"
      BY <1>0, <2>3 DEF Live
    <3>3. /\ refresh'[t].at = "rotated" /\ refresh'[t].cookie = last
          /\ \A s \in Tabs \ {t} : refresh'[s] = refresh[s]
      BY <1>0, <3>1 DEF TypeOK, Refreshes
    <3>4. /\ DOMAIN sessions' = DOMAIN sessions \cup {last}
          /\ sessions'[n].state = t /\ sessions'[last].state = "live"
          /\ \A m \in DOMAIN sessions \ {n} : sessions'[m] = sessions[m]
      <4> DEFINE old == Marked(n, t)
      <4>1. /\ old \in Seq(Sessions) /\ Len(old) = Len(sessions) /\ old[n].state = t
            /\ \A m \in DOMAIN sessions \ {n} : old[m] = sessions[m]
        <5>1. t \in {"live", "ended"} \cup Tabs
          OBVIOUS
        <5> HIDE DEF n
        <5> QED
          BY ONLY <1>0, <3>2, <5>1, StateSet DEF old
      <4> HIDE DEF old
      <4>2. sessions' = Append(old, [user |-> sessions[n].user, state |-> "live"])
        BY <3>1 DEF old
      <4> QED
        BY <3>2, <4>1, <4>2
    <3>11. Live(n)
      BY <2>3
    <3> HIDE DEF n, last, goes
    <3>5. n \in Nat /\ n <= Len(sessions) /\ last = Len(sessions) + 1 /\ n = refresh[t].cookie
      BY <1>0 DEF n, last
    <3>6. ASSUME NEW s \in Tabs PROVE Fresh(s)'
      <4>1. CASE s = t
        BY <1>0, <2>1, <3>3, <3>4, <3>5, <4>1 DEF Fresh, Spent
      <4>2. CASE s # t
        <5>1. Fresh(s) /\ refresh'[s] = refresh[s]
          BY <3>3, <4>2 DEF SessionInv, CookieInv
        <5>2. refresh[s].at = "rotated" => refresh[s].cookie \in DOMAIN sessions \ {n}
          BY <1>0, <2>1, <3>5, <5>1 DEF Fresh
        <5>3. refresh[s].at = "rotated" => refresh[s].cookie # last /\ ~Spent(refresh[s].cookie)'
          BY <1>0, <3>4, <3>5, <5>1, <5>2 DEF Fresh, Spent
        <5> QED
          BY <2>1, <3>3, <5>1, <5>3 DEF Fresh
      <4> QED
        BY <4>1, <4>2
    <3>7. ASSUME NEW s \in Tabs PROVE Ended(s)'
      BY <2>1, <3>3, <3>4, <3>5 DEF SessionInv, CookieInv, Ended, Live
    <3>8. ASSUME NEW s \in Tabs PROVE Respent(s)'
      BY <2>1, <3>3, <3>4, <3>5 DEF SessionInv, CookieInv, Respent
    <3>9. ASSUME NEW s \in Tabs PROVE Behind(s)'
      BY <2>1, <3>3, <3>4, <3>5 DEF SessionInv, CookieInv, Behind
    <3>10. ASSUME NEW k \in DOMAIN sessions', Live(k)', k # cookie', k \notin lost'
           PROVE  \E s \in Tabs : \/ refresh'[s].at = "rotated" /\ refresh'[s].cookie = k
                                  \/ entering'[s].at = "issued" /\ entering'[s].cookie = k
      <4>1. CASE k = last
        BY <3>3, <4>1
      <4>2. CASE k # last
        <5>1. k \in DOMAIN sessions /\ Live(k)
          BY <1>0, <3>4, <3>5, <3>10, <4>2 DEF Live
        <5>2. PICK s \in Tabs : \/ refresh[s].at = "rotated" /\ refresh[s].cookie = k
                                \/ entering[s].at = "issued" /\ entering[s].cookie = k
          BY <2>1, <3>10, <5>1 DEF SessionInv, LiveIsHeld
        <5> QED
          BY <2>1, <3>3, <5>2
      <4> QED
        BY <4>1, <4>2
    <3>12. ASSUME NEW s \in Tabs PROVE Issued(s)'
      BY <2>1, <3>3, <3>4, <3>5 DEF SessionInv, CookieInv, Issued, Spent
    <3> QED
      BY <3>6, <3>7, <3>8, <3>9, <3>10, <3>12 DEF CookieInv, LiveIsHeld
  <2> QED
    BY <2>2, <2>3
<1>8. ASSUME NEW t \in Tabs, Rotated(t) PROVE CookieInv' /\ LiveIsHeld'
  <2>1. /\ refresh[t].at = "rotated" /\ cookie' = refresh[t].cookie
        /\ lost' = lost \cup {n \in {cookie} : Live(n)} /\ UNCHANGED <<sessions, entering, leaving>>
    BY <1>8 DEF Rotated
  <2>2. refresh'[t].at = "me" /\ \A s \in Tabs \ {t} : refresh'[s] = refresh[s]
    BY <1>0, <1>8 DEF Rotated, TypeOK, Refreshes
  <2>3. ASSUME NEW s \in Tabs PROVE Fresh(s)'
    <3>1. CASE s = t
      BY <2>2, <3>1 DEF Fresh
    <3>2. CASE s # t
      BY <2>1, <2>2, <3>2 DEF SessionInv, CookieInv, Fresh, Spent
    <3> QED
      BY <3>1, <3>2
  <2>4. ASSUME NEW s \in Tabs PROVE Ended(s)'
    BY <2>1 DEF SessionInv, CookieInv, Ended, Live
  <2>5. ASSUME NEW s \in Tabs PROVE Respent(s)'
    BY <2>1, <2>2 DEF SessionInv, CookieInv, Respent
  <2>6. ASSUME NEW s \in Tabs PROVE Behind(s)'
    BY <2>1, <2>2 DEF SessionInv, CookieInv, Fresh, Spent, Behind
  <2>7. LiveIsHeld'
    BY <2>1, <2>2 DEF SessionInv, LiveIsHeld, Live
  <2>8. ASSUME NEW s \in Tabs PROVE Issued(s)'
    BY <2>1, <2>2 DEF SessionInv, CookieInv, Issued, Spent
  <2> QED
    BY <2>3, <2>4, <2>5, <2>6, <2>7, <2>8 DEF CookieInv
<1>9. ASSUME NEW t \in Tabs, Refreshed(t) PROVE CookieInv' /\ LiveIsHeld'
  <2>1. refresh[t].at = "me" /\ UNCHANGED <<sessions, cookie, lost, entering, leaving>>
    BY <1>9 DEF Refreshed, server
  <2>2. refresh'[t].at = "none" /\ \A s \in Tabs \ {t} : refresh'[s] = refresh[s]
    BY <1>0, <1>9, Values DEF Refreshed, TypeOK
  <2> QED
    BY <2>1, <2>2, QuietStep
<1>10. ASSUME NEW t \in Tabs, RefreshFails(t) PROVE CookieInv' /\ LiveIsHeld'
  <2>1. /\ UNCHANGED <<sessions, cookie>> /\ lost \subseteq lost'
        /\ refresh[t].at = "rotated" => refresh[t].cookie \in lost'
    BY <1>10 DEF RefreshFails
  <2>2. /\ refresh'[t].at = "none" \/ (refresh'[t].at = "posted" /\ refresh'[t].cookie = cookie)
        /\ leaving'[t] = leaving[t] \/ leaving'[t].at = "none"
        /\ entering'[t] = entering[t] \/ (entering'[t].at = "none" /\ entering[t].at = "none")
        /\ \A s \in Tabs \ {t} : refresh'[s] = refresh[s] /\ leaving'[s] = leaving[s] /\ entering'[s] = entering[s]
    <3>1. CASE Exit(t)
      <4>1. Load(t, NoToken) /\ path' \in [Tabs -> {"login", "app"}]
        BY <1>0, <3>1 DEF Exit, TypeOK
      <4> QED
        BY <1>0, <1>10, <4>1, LoadLemma, Values DEF RefreshFails, TabInv, TypeOK, Entries
    <3>2. CASE ~Exit(t)
      BY <1>0, <1>10, <3>2, Values DEF RefreshFails, TypeOK
    <3> QED
      BY <3>1, <3>2
  <2> QED
    BY <2>1, <2>2, QuietStep
<1>11. ASSUME NEW t \in Tabs, NEW c \in AllCalls, Call(t, c) \/ Answered(t, c) PROVE CookieInv' /\ LiveIsHeld'
  <2>1. UNCHANGED <<sessions, cookie, lost, refresh, entering, leaving>>
    BY <1>11 DEF Call, Answered, server
  <2> QED
    BY <2>1, QuietStep
<1>12. ASSUME NEW t \in Tabs, NEW c \in AllCalls, Unauthorized(t, c) \/ CallFails(t, c) PROVE CookieInv' /\ LiveIsHeld'
  <2>1. UNCHANGED <<sessions, cookie, lost>> /\ call[t][c].at = "sent"
    BY <1>12 DEF Unauthorized, CallFails, server
  <2>2. refresh[t].at # "rotated"
    BY <1>0, <2>1, Values DEF TabInv
  <2>3. CASE Exit(t)
    <3>1. Load(t, NoToken) /\ path' \in [Tabs -> {"login", "app"}]
      BY <1>0, <2>3 DEF Exit, TypeOK
    <3>2. /\ refresh'[t].at = "none" \/ (refresh'[t].at = "posted" /\ refresh'[t].cookie = cookie)
          /\ leaving'[t].at = "none" /\ entering'[t].at = "none" /\ entering[t].at # "issued"
          /\ \A s \in Tabs \ {t} : refresh'[s] = refresh[s] /\ leaving'[s] = leaving[s] /\ entering'[s] = entering[s]
      BY <1>0, <2>1, <3>1, LoadLemma, Values DEF TabInv
    <3> QED
      BY <2>1, <2>2, <3>2, QuietStep
  <2>4. CASE ~Exit(t)
    <3>1. UNCHANGED <<entering, leaving>> /\ (AttemptRefresh(t) \/ UNCHANGED refresh)
      BY <1>12, <2>4 DEF Unauthorized, CallFails
    <3>2. /\ refresh'[t] = refresh[t] \/ (refresh'[t].at = "posted" /\ refresh'[t].cookie = cookie)
          /\ \A s \in Tabs \ {t} : refresh'[s] = refresh[s]
      BY <1>0, <3>1 DEF AttemptRefresh, TypeOK
    <3> QED
      BY <2>1, <2>2, <3>1, <3>2, QuietStep
  <2> QED
    BY <2>3, <2>4
<1>13. CASE UNCHANGED vars
  <2>1. UNCHANGED <<sessions, cookie, lost, refresh, entering, leaving>>
    BY <1>13 DEF vars
  <2> QED
    BY <2>1, RevokeStep
<1> QED
  BY <1>1, <1>2, <1>3, <1>4, <1>5, <1>6, <1>7, <1>8, <1>9, <1>10, <1>11, <1>12, <1>13, <1>14, <1>15
     DEF Next, AllCalls

\* A live session is the cookie's, on its way to it, or lost with an answer: none is left
\* behind by logins, logouts, refreshes and suspensions, in whatever order they meet.
THEOREM LiveIsHeldHolds == Spec => []LiveIsHeld
<1>1. SessionInv => LiveIsHeld
  BY DEF SessionInv
<1> QED
  BY <1>1, SessionInit, SessionStep, PTL DEF Spec

LEMMA RefusalStep ==
    ASSUME SessionInv, [Next]_vars, NEW t \in Tabs, refresh[t].at = "posted", refresh'[t].at = "refused"
    PROVE  \/ refresh[t].stale
           \/ refresh[t].cookie = NoCookie
           \/ sessions[refresh[t].cookie].state \in {"ended"} \cup (Tabs \ {t})
           \/ sessions[refresh[t].cookie].user \in barred
           \/ \E n \in lost : n > refresh[t].cookie
<1>0. TabsInv /\ TypeOK
  BY DEF SessionInv, TabsInv
<1>1. ASSUME NEW s \in Tabs, NEW held \in Tokens, Load(s, held) PROVE FALSE
  BY <1>0, <1>1, Values DEF Load, TypeOK
<1>2. \A s \in Tabs : Exit(s) => FALSE
  BY <1>1, Values DEF Exit
<1>3. Rotate(t)
  <2>1. ASSUME \/ \E u \in Users : RevokeAll(u) \/ SetUserStatus(u)
               \/ \E n \in DOMAIN sessions : SessionExpires(n)
        PROVE  FALSE
    BY <2>1 DEF RevokeAll, SetUserStatus, SessionExpires, outside
  <2>2. ASSUME NEW s \in Tabs, Open(s) \/ Reload(s) PROVE FALSE
    BY <1>0, <1>1, <2>2, Values DEF Open, Reload, TypeOK
  <2>3. ASSUME NEW s \in Tabs, Render(s) \/ LeaveLogin(s) \/ Expire(s) \/ Logout(s) \/ Revoke(s) PROVE FALSE
    BY <2>3 DEF Render, LeaveLogin, Expire, Logout, Revoke
  <2>4. ASSUME NEW s \in Tabs,
               Login(s) \/ LoggedIn(s) \/ LoginFails(s) \/ \E u \in Users : Admit(s, u)
        PROVE  FALSE
    BY <2>4 DEF Login, LoggedIn, LoginFails, Admit
  <2>5. ASSUME NEW s \in Tabs, LoggedOut(s) PROVE FALSE
    BY <1>0, <2>5 DEF LoggedOut, TypeOK
  <2>6. ASSUME NEW s \in Tabs, Rotate(s) PROVE Rotate(t)
    BY <1>0, <2>6 DEF Rotate, TypeOK
  <2>7. ASSUME NEW s \in Tabs, Rotated(s) \/ Refreshed(s) PROVE FALSE
    BY <1>0, <2>7, Values DEF Rotated, Refreshed, TypeOK, Refreshes
  <2>8. ASSUME NEW s \in Tabs, RefreshFails(s) PROVE FALSE
    BY <1>0, <1>2, <2>8, Values DEF RefreshFails, TypeOK
  <2>9. ASSUME NEW s \in Tabs, NEW c \in AllCalls, Call(s, c) \/ Answered(s, c) PROVE FALSE
    BY <2>9 DEF Call, Answered
  <2>10. ASSUME NEW s \in Tabs, NEW c \in AllCalls, Unauthorized(s, c) \/ CallFails(s, c) PROVE FALSE
    <3>1. AttemptRefresh(s) \/ UNCHANGED refresh
      BY <1>2, <2>10 DEF Unauthorized, CallFails
    <3>2. refresh'[t] = refresh[t] \/ refresh'[t].at = "posted"
      BY <1>0, <3>1 DEF AttemptRefresh, TypeOK
    <3> QED
      BY <3>2
  <2>11. CASE UNCHANGED vars
    BY <2>11 DEF vars
  <2> QED
    BY <2>1, <2>2, <2>3, <2>4, <2>5, <2>6, <2>7, <2>8, <2>9, <2>10, <2>11 DEF Next, AllCalls
<1>4. ~Live(refresh[t].cookie) \/ sessions[refresh[t].cookie].user \in barred \/ refresh[t].stale
  BY <1>0, <1>3 DEF Rotate, TypeOK, Refreshes
<1>5. Respent(t)
  BY DEF SessionInv, CookieInv
<1> QED
  BY <1>0, <1>4, <1>5, CookieRanges DEF Live, Respent

\* A refresh is refused only for what another tab, a logout, an administrator, an
\* expired token or a lost answer did: no tab spends its own cookie twice.
THEOREM RefusedByOthersHolds == Spec => RefusedByOthers
<1>1. SessionInv /\ [Next]_vars =>
        [\A t \in Tabs :
          (refresh[t].at = "posted" /\ refresh'[t].at = "refused") =>
              \/ refresh[t].stale
              \/ refresh[t].cookie = NoCookie
              \/ sessions[refresh[t].cookie].state \in {"ended"} \cup (Tabs \ {t})
              \/ sessions[refresh[t].cookie].user \in barred
              \/ \E n \in lost : n > refresh[t].cookie]_vars
  BY RefusalStep
<1> QED
  BY <1>1, SessionInit, SessionStep, PTL DEF Spec, RefusedByOthers
----------------------------------------------------------------------------
\* No tab waits for nobody.

\* A tab whose wait a step leaves alone.
LEMMA OthersWait ==
    ASSUME NothingStranded, NEW t \in Tabs, ~Stranded(t)',
           \A s \in Tabs \ {t} : status'[s] = status[s] /\ call'[s] = call[s] /\ refresh'[s] = refresh[s]
    PROVE  NothingStranded'
  BY DEF NothingStranded, Stranded

\* A page that loads has something under way.
LEMMA LoadWaits ==
    ASSUME TypeOK, NEW t \in Tabs, NEW held \in Tokens, Load(t, held)
    PROVE  ~Stranded(t)'
<1>1. CASE held = NoToken
  <2>1. refresh'[t] = [at |-> "posted", cookie |-> cookie, stale |-> FALSE]
    BY <1>1 DEF Load, TypeOK
  <2> QED
    BY <2>1 DEF Stranded, NoRefresh
<1>2. CASE held # NoToken
  <2>1. call'[t] = [c \in AllCalls |->
           IF c = "me" THEN [at |-> "sent", stale |-> ~held.live, again |-> FALSE] ELSE Idle]
    BY <1>2 DEF Load, TypeOK
  <2>2. /\ call'[t]["me"].at = "sent"
        /\ \A c \in AllCalls : call'[t][c].at # "waiting"
    BY <2>1 DEF AllCalls, Idle
  <2> QED
    BY <2>2 DEF Stranded, Idle
<1> QED
  BY <1>1, <1>2

LEMMA StrandedInit == Init => NothingStranded
  BY DEF Init, NothingStranded, Stranded, Idle

LEMMA StrandedStep == TabsInv /\ NothingStranded /\ [Next]_vars => NothingStranded'
<1> SUFFICES ASSUME TabsInv, NothingStranded, [Next]_vars PROVE NothingStranded'
  OBVIOUS
<1> USE Values
<1>0. /\ TypeOK /\ \A t \in Tabs : TabInv(t) /\ ~Stranded(t)
  BY DEF TabsInv, NothingStranded
<1>1. ASSUME UNCHANGED <<status, call, refresh>> PROVE NothingStranded'
  BY <1>1 DEF NothingStranded, Stranded
<1>2. ASSUME NEW t \in Tabs, NEW held \in Tokens, Load(t, held) PROVE NothingStranded'
  <2>1. \A s \in Tabs \ {t} : status'[s] = status[s] /\ call'[s] = call[s] /\ refresh'[s] = refresh[s]
    BY <1>0, <1>2 DEF Load, TypeOK
  <2> QED
    BY <1>0, <1>2, <2>1, LoadWaits, OthersWait
<1>3. ASSUME \/ \E u \in Users : RevokeAll(u) \/ SetUserStatus(u)
             \/ \E n \in DOMAIN sessions : SessionExpires(n)
      PROVE  NothingStranded'
  BY <1>1, <1>3 DEF RevokeAll, SetUserStatus, SessionExpires, outside, view
<1>4. ASSUME NEW t \in Tabs, Open(t) \/ Reload(t) PROVE NothingStranded'
  BY <1>0, <1>2, <1>4 DEF Open, Reload, TypeOK
<1>5. ASSUME NEW t \in Tabs, Render(t) \/ LeaveLogin(t) \/ Logout(t) \/ Revoke(t) PROVE NothingStranded'
  BY <1>1, <1>5 DEF Render, LeaveLogin, Logout, Revoke, view
<1>6. ASSUME NEW t \in Tabs, Expire(t) PROVE NothingStranded'
  <2>1. /\ UNCHANGED <<status, refresh>>
        /\ call' = [call EXCEPT ![t] = [c \in AllCalls |->
              IF call[t][c].at = "sent" THEN [call[t][c] EXCEPT !.stale = TRUE] ELSE call[t][c]]]
    BY <1>6 DEF Expire, view
  <2>2. ASSUME NEW c \in AllCalls PROVE call'[t][c].at = call[t][c].at
    <3>1. call[t][c] \in CallStates
      BY <1>0 DEF TypeOK
    <3>2. [call[t][c] EXCEPT !.stale = TRUE].at = call[t][c].at
      BY <3>1 DEF CallStates
    <3>3. call'[t][c] = IF call[t][c].at = "sent" THEN [call[t][c] EXCEPT !.stale = TRUE] ELSE call[t][c]
      BY <1>0, <2>1 DEF TypeOK
    <3> QED
      BY <3>2, <3>3
  <2>3. call'[t]["me"] = Idle => call[t]["me"] = Idle
    BY <1>0, <2>2 DEF TabInv, AllCalls
  <2>4. ~Stranded(t)'
    BY <1>0, <2>1, <2>2, <2>3 DEF Stranded
  <2> QED
    BY <1>0, <2>1, <2>4, OthersWait DEF TypeOK
<1>17. ASSUME NEW t \in Tabs, Login(t) \/ LoginFails(t) \/ \E u \in Users : Admit(t, u)
       PROVE  NothingStranded'
  BY <1>1, <1>17 DEF Login, LoginFails, Admit, view
<1>7. ASSUME NEW t \in Tabs, LoggedIn(t) PROVE NothingStranded'
  <2>1. status' = [status EXCEPT ![t] = "authenticated"] /\ UNCHANGED <<call, refresh>>
    BY <1>7 DEF LoggedIn
  <2>2. ~Stranded(t)'
    BY <1>0, <2>1 DEF Stranded, TypeOK
  <2> QED
    BY <1>0, <2>1, <2>2, OthersWait DEF TypeOK
<1>8. ASSUME NEW t \in Tabs, LoggedOut(t) PROVE NothingStranded'
  <2>1. /\ refresh'[t].at = "posted"
        /\ \A s \in Tabs \ {t} : status'[s] = status[s] /\ call'[s] = call[s] /\ refresh'[s] = refresh[s]
    BY <1>0, <1>8 DEF LoggedOut, TypeOK
  <2>2. ~Stranded(t)'
    BY <2>1 DEF Stranded
  <2> QED
    BY <2>1, <2>2, OthersWait
<1>9. ASSUME NEW t \in Tabs, Rotate(t) \/ Rotated(t) PROVE NothingStranded'
  <2>1. refresh[t] \in Refreshes
    BY <1>0 DEF TypeOK
  <2>2. /\ refresh'[t].at \in {"refused", "rotated", "me"} /\ UNCHANGED <<status, call>>
        /\ \A s \in Tabs \ {t} : refresh'[s] = refresh[s]
    BY <1>0, <1>9, <2>1 DEF Rotate, Rotated, view, TypeOK, Refreshes
  <2>3. ~Stranded(t)'
    BY <2>2 DEF Stranded
  <2> QED
    BY <2>2, <2>3, OthersWait
<1>10. ASSUME NEW t \in Tabs, Refreshed(t) PROVE NothingStranded'
  <2>1. /\ status'[t] = "authenticated" /\ \A c \in AllCalls : call'[t][c].at # "waiting"
        /\ \A s \in Tabs \ {t} : status'[s] = status[s] /\ call'[s] = call[s] /\ refresh'[s] = refresh[s]
    <3>1. status'[t] = "authenticated"
      BY <1>0, <1>10 DEF Refreshed, TypeOK
    <3>2. \A c \in AllCalls : call'[t][c] =
             IF call[t][c].at = "waiting" THEN [at |-> "sent", stale |-> FALSE, again |-> TRUE] ELSE call[t][c]
      BY <1>0, <1>10 DEF Refreshed, TypeOK
    <3>3. \A s \in Tabs \ {t} : status'[s] = status[s] /\ call'[s] = call[s] /\ refresh'[s] = refresh[s]
      BY <1>0, <1>10 DEF Refreshed, TypeOK
    <3> QED
      BY <3>1, <3>2, <3>3
  <2>2. ~Stranded(t)'
    BY <2>1 DEF Stranded
  <2> QED
    BY <2>1, <2>2, OthersWait
<1>11. ASSUME NEW t \in Tabs, RefreshFails(t) PROVE NothingStranded'
  <2>1. CASE Exit(t)
    BY <1>2, <2>1 DEF Exit
  <2>2. CASE ~Exit(t)
    <3>1. /\ \A c \in AllCalls : call[t][c].at # "waiting"
          /\ status' = [status EXCEPT ![t] = "unauthenticated"]
          /\ refresh' = [refresh EXCEPT ![t] = NoRefresh] /\ UNCHANGED call
      BY <1>11, <2>2 DEF RefreshFails
    <3>2. ~Stranded(t)'
      BY <1>0, <3>1 DEF Stranded, TypeOK
    <3> QED
      BY <1>0, <3>1, <3>2, OthersWait DEF TypeOK
  <2> QED
    BY <2>1, <2>2
<1>12. ASSUME NEW t \in Tabs, NEW c \in AllCalls, Call(t, c) PROVE NothingStranded'
  <2>1. /\ call' = [call EXCEPT ![t][c] = [at |-> "sent", stale |-> Stale(t), again |-> FALSE]]
        /\ status[t] = "authenticated" /\ UNCHANGED <<status, refresh>>
    BY <1>12 DEF Call, view
  <2>2. \A d \in AllCalls : call'[t][d].at = "waiting" => call[t][d].at = "waiting"
    BY <1>0, <2>1 DEF TypeOK
  <2>3. ~Stranded(t)'
    BY <1>0, <2>1, <2>2 DEF Stranded
  <2> QED
    BY <1>0, <2>1, <2>3, OthersWait DEF TypeOK
<1>13. ASSUME NEW t \in Tabs, NEW c \in AllCalls, Answered(t, c) PROVE NothingStranded'
  <2>1. /\ call' = [call EXCEPT ![t][c] = Idle] /\ UNCHANGED refresh
        /\ \A s \in Tabs \ {t} : status'[s] = status[s]
        /\ c = "me" => status'[t] = "authenticated"
        /\ c # "me" => status'[t] = status[t]
    BY <1>0, <1>13 DEF Answered, TypeOK
  <2>2. /\ \A d \in AllCalls : call'[t][d].at = "waiting" => call[t][d].at = "waiting"
        /\ c # "me" => call'[t]["me"] = call[t]["me"]
    BY <1>0, <2>1 DEF TypeOK, AllCalls
  <2>3. ~Stranded(t)'
    BY <1>0, <2>1, <2>2 DEF Stranded
  <2> QED
    BY <1>0, <2>1, <2>3, OthersWait DEF TypeOK
<1>14. ASSUME NEW t \in Tabs, NEW c \in AllCalls, Unauthorized(t, c) PROVE NothingStranded'
  <2>1. CASE Exit(t)
    BY <1>2, <2>1 DEF Exit
  <2>2. CASE ~Exit(t)
    <3>1. AttemptRefresh(t) /\ call' = [call EXCEPT ![t][c].at = "waiting"] /\ UNCHANGED status
      BY <1>14, <2>2 DEF Unauthorized, view
    <3>2. refresh'[t] # NoRefresh /\ \A s \in Tabs \ {t} : refresh'[s] = refresh[s]
      BY <1>0, <3>1 DEF AttemptRefresh, TypeOK
    <3>3. ~Stranded(t)'
      BY <3>2 DEF Stranded, NoRefresh
    <3> QED
      BY <1>0, <3>1, <3>2, <3>3, OthersWait DEF TypeOK
  <2> QED
    BY <2>1, <2>2
<1>15. ASSUME NEW t \in Tabs, NEW c \in AllCalls, CallFails(t, c) PROVE NothingStranded'
  <2>1. /\ call' = [call EXCEPT ![t][c] = Idle] /\ UNCHANGED status
        /\ IF c = "me" THEN AttemptRefresh(t) ELSE UNCHANGED refresh
    BY <1>15 DEF CallFails, view
  <2>2. \A d \in AllCalls : call'[t][d].at = "waiting" => call[t][d].at = "waiting"
    BY <1>0, <2>1 DEF TypeOK
  <2>3. /\ c # "me" => call'[t]["me"] = call[t]["me"]
        /\ \A s \in Tabs \ {t} : refresh'[s] = refresh[s] /\ call'[s] = call[s]
    BY <1>0, <2>1 DEF TypeOK, AllCalls, AttemptRefresh
  <2>4. c = "me" => refresh'[t] # NoRefresh
    BY <1>0, <2>1 DEF TypeOK, AttemptRefresh
  <2>5. ~Stranded(t)'
    BY <1>0, <2>1, <2>2, <2>3, <2>4 DEF Stranded, NoRefresh
  <2> QED
    BY <2>1, <2>3, <2>5, OthersWait
<1>16. CASE UNCHANGED vars
  BY <1>1, <1>16 DEF vars
<1> QED
  BY <1>3, <1>4, <1>5, <1>6, <1>7, <1>8, <1>9, <1>10, <1>11, <1>12, <1>13, <1>14, <1>15, <1>16, <1>17
     DEF Next, AllCalls

\* However answers, losses, expiry, logouts and reloads meet, no tab of the client ends
\* up loading with nothing under way, or with a call that waits for a refresh nobody makes.
THEOREM NothingStrandedHolds == Spec => []NothingStranded
  BY TabsInit, TabsStep, StrandedInit, StrandedStep, PTL DEF Spec
=============================================================================
