--------------------------- MODULE ClientSession ---------------------------
(***************************************************************************)
(* The login session of the web client: the tabs of one browser share a    *)
(* single-use refresh cookie, each holds an access token of its own        *)
(* (api/client.ts, hooks/useAuth.tsx), and the server rotates and revokes  *)
(* the refresh sessions behind the cookie (internal/auth/token.go).        *)
(***************************************************************************)
EXTENDS Integers, Sequences, FiniteSets

CONSTANTS
    Tabs,           \* the browser's tabs
    Users,          \* the accounts that log in on it
    Calls,          \* API calls a tab may have under way
    MaxSessions,    \* refresh sessions the server issues, at most
    NetworkMayFail  \* may a request or its answer be lost?

NoUser == "nobody"

ASSUME SessionAssumption ==
    /\ MaxSessions \in Nat
    /\ NetworkMayFail \in BOOLEAN
    /\ "me" \notin Calls
    /\ NoUser \notin Users
    /\ {"live", "ended"} \cap Tabs = {}

NoCookie == 0
NoToken == [user |-> NoUser, live |-> FALSE]
Idle == [at |-> "idle", stale |-> FALSE, again |-> FALSE]
NoEntry == [at |-> "none", cookie |-> NoCookie]
NoExit == [at |-> "none", cookie |-> NoCookie]
NoRefresh == [at |-> "none", cookie |-> NoCookie, stale |-> FALSE]

VARIABLES
    sessions,   \* refresh_sessions: whose, and live, rotated by a tab's refresh, or ended:
                \* revoked by a logout or an administrator, or past expires_at
    barred,     \* the users who are pending or suspended
    cookie,     \* the refresh cookie: the session it names
    lost,       \* sessions whose cookie never came, or was replaced by another tab's
    path,       \* path[t]: the route
    status,     \* status[t] of AuthProvider, "closed" before the tab is opened
    user,       \* user[t] of AuthProvider
    guard,      \* guard[t]: what the last render told the router's guard
    token,      \* token[t]: the access token in memory and sessionStorage
    call,       \* call[t][c]: the API calls; "me" is the one AuthProvider's mount makes
    refresh,    \* refresh[t]: bootstrapPromise
    entering,   \* entering[t]: a login, and the session it has been given
    leaving     \* leaving[t]: a logout, and the session it names

vars == <<sessions, barred, cookie, lost, path, status, user, guard, token, call, refresh,
          entering, leaving>>

AllCalls == Calls \cup {"me"}
Cookies == 0..MaxSessions
Sessions == [user : Users, state : {"live", "ended"} \cup Tabs]
Tokens == [user : Users \cup {NoUser}, live : BOOLEAN]
CallStates == [at : {"idle", "sent", "waiting"}, stale : BOOLEAN, again : BOOLEAN]
Refreshes == [at : {"none", "posted", "refused", "rotated", "me"}, cookie : Cookies, stale : BOOLEAN]
Entries == [at : {"none", "sent", "issued"}, cookie : Cookies]
Exits == [at : {"none", "sent", "refused", "revoked"}, cookie : Cookies]

TypeOK ==
    /\ sessions \in Seq(Sessions)
    /\ Len(sessions) <= MaxSessions
    /\ barred \subseteq Users
    /\ cookie \in Cookies
    /\ lost \subseteq Cookies
    /\ path \in [Tabs -> {"login", "app"}]
    /\ status \in [Tabs -> {"closed", "loading", "authenticated", "unauthenticated"}]
    /\ user \in [Tabs -> Users \cup {NoUser}]
    /\ guard \in [Tabs -> BOOLEAN]
    /\ token \in [Tabs -> Tokens]
    /\ call \in [Tabs -> [AllCalls -> CallStates]]
    /\ refresh \in [Tabs -> Refreshes]
    /\ entering \in [Tabs -> Entries]
    /\ leaving \in [Tabs -> Exits]

Init ==
    /\ sessions = << >>
    /\ barred = {}
    /\ cookie = NoCookie
    /\ lost = {}
    /\ path = [t \in Tabs |-> "app"]
    /\ status = [t \in Tabs |-> "closed"]
    /\ user = [t \in Tabs |-> NoUser]
    /\ guard = [t \in Tabs |-> FALSE]
    /\ token = [t \in Tabs |-> NoToken]
    /\ call = [t \in Tabs |-> [c \in AllCalls |-> Idle]]
    /\ refresh = [t \in Tabs |-> NoRefresh]
    /\ entering = [t \in Tabs |-> NoEntry]
    /\ leaving = [t \in Tabs |-> NoExit]

Live(n) == n # NoCookie /\ sessions[n].state = "live"
Refreshing(t) == refresh[t] # NoRefresh
Stale(t) == token[t] # NoToken /\ ~token[t].live
Issue(u) == sessions' = Append(sessions, [user |-> u, state |-> "live"])

server == <<sessions, barred, cookie, lost>>
view == <<path, status, user, guard>>

----------------------------------------------------------------------------
\* attemptRefresh: one POST /v1/auth/refresh at a time.  It carries the cookie, and
\* like every request the access token the tab still holds.
AttemptRefresh(t) ==
    refresh' = [refresh EXCEPT ![t] =
        IF refresh[t] # NoRefresh THEN @
        ELSE [at |-> "posted", cookie |-> cookie, stale |-> Stale(t)]]

\* The page loads: with a stored token the mount asks /v1/me, else it refreshes.
\* held is the token that outlives the page.
Load(t, held) ==
    /\ status' = [status EXCEPT ![t] = "loading"]
    /\ user' = [user EXCEPT ![t] = NoUser]
    /\ guard' = [guard EXCEPT ![t] = FALSE]
    /\ token' = [token EXCEPT ![t] = held]
    /\ call' = [call EXCEPT ![t] = [c \in AllCalls |->
           IF c = "me" /\ held # NoToken
           THEN [at |-> "sent", stale |-> ~held.live, again |-> FALSE] ELSE Idle]]
    /\ refresh' = [refresh EXCEPT ![t] =
           IF held = NoToken THEN [at |-> "posted", cookie |-> cookie, stale |-> FALSE] ELSE NoRefresh]
    /\ entering' = [entering EXCEPT ![t] = NoEntry]
    /\ leaving' = [leaving EXCEPT ![t] = NoExit]

\* forceAuthExit: the token is dropped and /login loads.
Exit(t) ==
    /\ path' = [path EXCEPT ![t] = "login"]
    /\ Load(t, NoToken)

Open(t) ==
    /\ status[t] = "closed"
    /\ Load(t, NoToken)
    /\ UNCHANGED <<server, path>>

Reload(t) ==
    /\ status[t] = "authenticated"
    /\ Load(t, token[t])
    /\ UNCHANGED <<server, path>>

\* AppBridge renders: the guard of the router sees the status.
Render(t) ==
    /\ guard[t] # (status[t] = "authenticated")
    /\ guard' = [guard EXCEPT ![t] = (status[t] = "authenticated")]
    /\ UNCHANGED <<server, path, status, user, token, call, refresh, entering, leaving>>

\* Where a navigation to a guarded route leads.
Guarded(t) == IF guard[t] THEN "app" ELSE "login"

\* Mutant: navigating from the submit handler, before the render: the guard sends
\* the tab back.
LeaveLoginEarly(t) ==
    /\ path[t] = "login"
    /\ status[t] = "authenticated"
    /\ ~guard[t]
    /\ path' = [path EXCEPT ![t] = Guarded(t)]
    /\ UNCHANGED <<server, status, user, guard, token, call, refresh, entering, leaving>>

\* LoginPage's effect, which runs after a render, leaves /login; the guard lets it.
LeaveLogin(t) ==
    /\ path[t] = "login"
    /\ status[t] = "authenticated"
    /\ guard[t]
    /\ path' = [path EXCEPT ![t] = Guarded(t)]
    /\ UNCHANGED <<server, status, user, guard, token, call, refresh, entering, leaving>>

----------------------------------------------------------------------------
\* The server: rotateRefresh revokes the session under its row lock and issues the
\* next, unless it has ended or its user may not come in; AuthResolver turns a request
\* away before that when it carries an expired access token, this one included.
Rotate(t) ==
    /\ refresh[t].at = "posted"
    /\ LET n == refresh[t].cookie IN
       IF Live(n) /\ sessions[n].user \notin barred /\ ~refresh[t].stale
       THEN /\ Len(sessions) < MaxSessions
            /\ sessions' = Append([sessions EXCEPT ![n].state = t],
                                  [user |-> sessions[n].user, state |-> "live"])
            /\ refresh' = [refresh EXCEPT ![t].at = "rotated",
                                          ![t].cookie = Len(sessions) + 1]
       ELSE /\ refresh' = [refresh EXCEPT ![t].at = "refused"]
            /\ UNCHANGED sessions
    /\ UNCHANGED <<barred, cookie, lost, view, token, call, entering, leaving>>

\* Mutant: the new cookie is not kept.
RotatedKeepsCookie(t) ==
    /\ refresh[t].at = "rotated"
    /\ token' = [token EXCEPT ![t] = [user |-> sessions[refresh[t].cookie].user, live |-> TRUE]]
    /\ refresh' = [refresh EXCEPT ![t].at = "me"]
    /\ UNCHANGED <<server, view, call, entering, leaving>>

\* The answer: the cookie and the token are replaced, then /v1/me is asked.
Rotated(t) ==
    /\ refresh[t].at = "rotated"
    /\ cookie' = refresh[t].cookie
    /\ lost' = lost \cup {n \in {cookie} : Live(n)}
    /\ token' = [token EXCEPT ![t] = [user |-> sessions[refresh[t].cookie].user, live |-> TRUE]]
    /\ refresh' = [refresh EXCEPT ![t].at = "me"]
    /\ UNCHANGED <<sessions, barred, view, call, entering, leaving>>

\* Calls that waited are sent again with the new token.
Refreshed(t) ==
    /\ refresh[t].at = "me"
    /\ user' = [user EXCEPT ![t] = token[t].user]
    /\ status' = [status EXCEPT ![t] = "authenticated"]
    /\ refresh' = [refresh EXCEPT ![t] = NoRefresh]
    /\ call' = [call EXCEPT ![t] = [c \in AllCalls |->
           IF call[t][c].at = "waiting"
           THEN [at |-> "sent", stale |-> FALSE, again |-> TRUE] ELSE call[t][c]]]
    /\ UNCHANGED <<server, path, guard, token, entering, leaving>>

\* Mutant: a bootstrap that fails without a word.
RefreshFailsSilently(t) ==
    /\ \/ refresh[t].at = "refused"
       \/ NetworkMayFail /\ refresh[t].at # "none"
    /\ lost' = IF refresh[t].at = "rotated" THEN lost \cup {refresh[t].cookie} ELSE lost
    /\ refresh' = [refresh EXCEPT ![t] = NoRefresh]
    /\ UNCHANGED <<sessions, barred, cookie, view, token, call, entering, leaving>>

\* No answer, or a refusal: outside /login, and for a call that waited, the tab
\* goes to /login; on /login it stays, unauthenticated.
RefreshFails(t) ==
    /\ \/ refresh[t].at = "refused"
       \/ NetworkMayFail /\ refresh[t].at # "none"
    /\ lost' = IF refresh[t].at = "rotated" THEN lost \cup {refresh[t].cookie} ELSE lost
    /\ IF path[t] # "login" \/ \E c \in AllCalls : call[t][c].at = "waiting"
       THEN Exit(t)
       ELSE /\ status' = [status EXCEPT ![t] = "unauthenticated"]
            /\ user' = [user EXCEPT ![t] = NoUser]
            /\ token' = [token EXCEPT ![t] = NoToken]
            /\ refresh' = [refresh EXCEPT ![t] = NoRefresh]
            /\ UNCHANGED <<path, guard, call, entering, leaving>>
    /\ UNCHANGED <<sessions, barred, cookie>>

----------------------------------------------------------------------------
\* apiFetch: a call carries the token of the moment.
Call(t, c) ==
    /\ status[t] = "authenticated"
    /\ path[t] = "app"
    /\ call[t][c] = Idle
    /\ call' = [call EXCEPT ![t][c] = [at |-> "sent", stale |-> Stale(t), again |-> FALSE]]
    /\ UNCHANGED <<server, view, token, refresh, entering, leaving>>

Answered(t, c) ==
    /\ call[t][c].at = "sent"
    /\ ~call[t][c].stale
    /\ call' = [call EXCEPT ![t][c] = Idle]
    /\ IF c = "me"
       THEN /\ user' = [user EXCEPT ![t] = token[t].user]
            /\ status' = [status EXCEPT ![t] = "authenticated"]
       ELSE UNCHANGED <<user, status>>
    /\ UNCHANGED <<server, path, guard, token, refresh, entering, leaving>>

\* 401: the first time the call waits for the refresh of the tab, the second time
\* onUnauthorized leaves.
Unauthorized(t, c) ==
    /\ call[t][c].at = "sent"
    /\ call[t][c].stale
    /\ IF call[t][c].again
       THEN Exit(t) /\ UNCHANGED server
       ELSE /\ call' = [call EXCEPT ![t][c].at = "waiting"]
            /\ AttemptRefresh(t)
            /\ UNCHANGED <<server, view, token, entering, leaving>>

\* Mutant: the mount does not catch the failure of its /v1/me.
CallFailsUncaught(t, c) ==
    /\ NetworkMayFail
    /\ call[t][c].at = "sent"
    /\ call' = [call EXCEPT ![t][c] = Idle]
    /\ UNCHANGED <<server, view, token, refresh, entering, leaving>>

\* A call is lost: the mount's /v1/me falls back to the refresh, others report it.
CallFails(t, c) ==
    /\ NetworkMayFail
    /\ call[t][c].at = "sent"
    /\ call' = [call EXCEPT ![t][c] = Idle]
    /\ IF c = "me" THEN AttemptRefresh(t) ELSE UNCHANGED refresh
    /\ UNCHANGED <<server, view, token, entering, leaving>>

\* The access token's time is over.  It outlives the two requests of a refresh.
Expire(t) ==
    /\ token[t].live
    /\ refresh[t].at # "me"
    /\ token' = [token EXCEPT ![t].live = FALSE]
    /\ call' = [call EXCEPT ![t] = [c \in AllCalls |->
           IF call[t][c].at = "sent" THEN [call[t][c] EXCEPT !.stale = TRUE] ELSE call[t][c]]]
    /\ UNCHANGED <<server, view, refresh, entering, leaving>>

----------------------------------------------------------------------------
\* LoginPage posts the credentials.
Login(t) ==
    /\ path[t] = "login"
    /\ status[t] = "unauthenticated"
    /\ entering[t].at = "none"
    /\ entering' = [entering EXCEPT ![t].at = "sent"]
    /\ UNCHANGED <<server, view, token, call, refresh, leaving>>

\* The server lets an approved user in; the session the cookie names is left as it is.
Admit(t, u) ==
    /\ entering[t].at = "sent"
    /\ u \notin barred
    /\ Len(sessions) < MaxSessions
    /\ Issue(u)
    /\ entering' = [entering EXCEPT ![t] = [at |-> "issued", cookie |-> Len(sessions) + 1]]
    /\ UNCHANGED <<barred, cookie, lost, view, token, call, refresh, leaving>>

LoggedIn(t) ==
    /\ entering[t].at = "issued"
    /\ cookie' = entering[t].cookie
    /\ lost' = lost \cup {n \in {cookie} : Live(n)}
    /\ LET u == sessions[entering[t].cookie].user IN
       /\ token' = [token EXCEPT ![t] = [user |-> u, live |-> TRUE]]
       /\ user' = [user EXCEPT ![t] = u]
    /\ status' = [status EXCEPT ![t] = "authenticated"]
    /\ entering' = [entering EXCEPT ![t] = NoEntry]
    /\ UNCHANGED <<sessions, barred, path, guard, call, refresh, leaving>>

\* Wrong credentials, a user who is pending or suspended, or no answer: the form shows
\* it, and a session that had been issued is nobody's.
LoginFails(t) ==
    /\ \/ entering[t].at = "sent"
       \/ NetworkMayFail /\ entering[t].at = "issued"
    /\ lost' = IF entering[t].at = "issued" THEN lost \cup {entering[t].cookie} ELSE lost
    /\ entering' = [entering EXCEPT ![t] = NoEntry]
    /\ UNCHANGED <<sessions, barred, cookie, view, token, call, refresh, leaving>>

Logout(t) ==
    /\ status[t] = "authenticated"
    /\ leaving[t].at = "none"
    /\ ~Refreshing(t)
    /\ leaving' = [leaving EXCEPT ![t] = [at |-> "sent", cookie |-> cookie]]
    /\ UNCHANGED <<server, view, token, call, refresh, entering>>

\* Mutant: a logout that only forgets.
RevokeNothing(t) ==
    /\ leaving[t].at = "sent"
    /\ leaving' = [leaving EXCEPT ![t].at = IF Stale(t) THEN "refused" ELSE "revoked"]
    /\ UNCHANGED <<server, view, token, call, refresh, entering>>

\* The server revokes the session of the cookie; an expired access token is turned
\* away before that.
Revoke(t) ==
    /\ leaving[t].at = "sent"
    /\ IF Stale(t)
       THEN /\ leaving' = [leaving EXCEPT ![t].at = "refused"]
            /\ UNCHANGED sessions
       ELSE /\ leaving' = [leaving EXCEPT ![t].at = "revoked"]
            /\ sessions' = IF Live(leaving[t].cookie)
                           THEN [sessions EXCEPT ![leaving[t].cookie].state = "ended"]
                           ELSE sessions
    /\ UNCHANGED <<barred, cookie, lost, view, token, call, refresh, entering>>

\* Whatever the answer, the tab goes to /login.
LoggedOut(t) ==
    /\ leaving[t].at \in {"refused", "revoked"}
    /\ cookie' = IF leaving[t].at = "revoked" THEN NoCookie ELSE cookie
    /\ lost' = IF cookie' = NoCookie /\ leaving[t].cookie # cookie THEN lost \cup {n \in {cookie} : Live(n)} ELSE lost
    /\ path' = [path EXCEPT ![t] = "login"]
    /\ status' = [status EXCEPT ![t] = "loading"]
    /\ user' = [user EXCEPT ![t] = NoUser]
    /\ guard' = [guard EXCEPT ![t] = FALSE]
    /\ token' = [token EXCEPT ![t] = NoToken]
    /\ call' = [call EXCEPT ![t] = [c \in AllCalls |-> Idle]]
    /\ refresh' = [refresh EXCEPT ![t] = [at |-> "posted", cookie |-> cookie', stale |-> FALSE]]
    /\ leaving' = [leaving EXCEPT ![t] = NoExit]
    /\ UNCHANGED <<sessions, barred, entering>>

outside == <<lost, cookie, view, token, call, refresh, entering, leaving>>

\* An administrator approves a user, sends one back to pending, or suspends one ...
SetUserStatus(u) ==
    /\ barred' = IF u \in barred THEN barred \ {u} ELSE barred \cup {u}
    /\ UNCHANGED <<sessions, outside>>

\* ... and a suspension revokes the sessions in a statement of its own: it may come
\* when another administrator has approved the user again, so at any time.
RevokeAll(u) ==
    /\ \E n \in DOMAIN sessions : sessions[n] = [user |-> u, state |-> "live"]
    /\ sessions' = [n \in DOMAIN sessions |->
           IF sessions[n] = [user |-> u, state |-> "live"]
           THEN [sessions[n] EXCEPT !.state = "ended"] ELSE sessions[n]]
    /\ UNCHANGED <<barred, outside>>

\* The session's time is over: expires_at.
SessionExpires(n) ==
    /\ Live(n)
    /\ sessions' = [sessions EXCEPT ![n].state = "ended"]
    /\ UNCHANGED <<barred, outside>>

----------------------------------------------------------------------------
Next ==
    \/ \E u \in Users : SetUserStatus(u) \/ RevokeAll(u)
    \/ \E n \in DOMAIN sessions : SessionExpires(n)
    \/ \E t \in Tabs :
        \/ Open(t)
        \/ Reload(t)
        \/ Render(t)
        \/ LeaveLogin(t)
        \/ Expire(t)
        \/ Login(t)
        \/ \E u \in Users : Admit(t, u)
        \/ LoggedIn(t)
        \/ LoginFails(t)
        \/ Logout(t)
        \/ Revoke(t)
        \/ LoggedOut(t)
        \/ Rotate(t)
        \/ Rotated(t)
        \/ Refreshed(t)
        \/ RefreshFails(t)
        \/ \E c \in Calls : Call(t, c)
        \/ \E c \in AllCalls :
            \/ Answered(t, c)
            \/ Unauthorized(t, c)
            \/ CallFails(t, c)

\* What a tab does of its own: React renders and runs its effects, and its requests
\* are answered or fail.
Advance(t) ==
    \/ Render(t) \/ LeaveLogin(t)
    \/ Rotate(t) \/ Rotated(t) \/ Refreshed(t) \/ RefreshFails(t)
    \/ Revoke(t) \/ LoggedOut(t)
    \/ \E c \in AllCalls : Answered(t, c) \/ Unauthorized(t, c)

\* A tab with something of this to do does not stop for good.
Fairness == \A t \in Tabs : WF_vars(Advance(t))

Spec == Init /\ [][Next]_vars /\ Fairness

----------------------------------------------------------------------------
\* A refresh is refused for a reason outside its tab: another tab had rotated the
\* session, a logout or an administrator revoked it, its time was over, its user was
\* suspended or made to wait for approval, an answer was lost, there was no cookie, or
\* the request carried an expired access token, which AuthResolver turns away.  A tab
\* never spends its own cookie twice (bootstrapPromise, refreshingPromise), however
\* many calls meet a 401 and effects run.
RefusedByOthers ==
    [][\A t \in Tabs :
          (refresh[t].at = "posted" /\ refresh'[t].at = "refused") =>
              \/ refresh[t].stale
              \/ refresh[t].cookie = NoCookie
              \/ sessions[refresh[t].cookie].state \in {"ended"} \cup (Tabs \ {t})
              \/ sessions[refresh[t].cookie].user \in barred
              \/ \E n \in lost : n > refresh[t].cookie]_vars

\* No session outlives the browser's use of it: one that is live is the cookie's, or
\* its cookie is on its way, or another tab's answer or a lost one took its place.
\* A logout in particular leaves none behind, unless another tab had rotated the
\* session meanwhile (Revoke, LoggedOut).
LiveIsHeld ==
    \A n \in DOMAIN sessions : Live(n) =>
        \/ n = cookie
        \/ n \in lost
        \/ \E t \in Tabs :
              \/ refresh[t].at = "rotated" /\ refresh[t].cookie = n
              \/ entering[t].at = "issued" /\ entering[t].cookie = n

\* A tab that waits for nobody: it loads with neither a refresh nor /v1/me under way,
\* or a call turned away waits although nothing refreshes.
Stranded(t) ==
    /\ refresh[t] = NoRefresh
    /\ \/ status[t] = "loading" /\ call[t]["me"] = Idle
       \/ \E c \in AllCalls : call[t][c].at = "waiting"

\* Whatever is refused, lost, expires or overlaps, no tab is left waiting for nobody
\* (client.ts: the refresh shared by all calls that met a 401; useAuth.tsx: the mount
\* effect and its catch).
NothingStranded == \A t \in Tabs : ~Stranded(t)

\* No tab stays on the spinner: every load ends signed in, or at /login.
LoadingEnds == \A t \in Tabs : []<>(status[t] # "loading")

\* A user who has signed in leaves /login, unless the session ends first: the
\* navigation is not turned back by a guard that still sees the status before.
LoginLeads == \A t \in Tabs : []<>~(path[t] = "login" /\ status[t] = "authenticated")
=============================================================================
