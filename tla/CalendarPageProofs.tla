------------------------- MODULE CalendarPageProofs -------------------------
(***************************************************************************)
(* The calendar page for any projects, iterations, events and months: the  *)
(* month FullCalendar shows is the one asked for, and the grid and the     *)
(* timeline show the server's events.                                      *)
(***************************************************************************)
EXTENDS CalendarPage, TLAPS

USE CalendarAssumption

\* A query whose answer is in, or read and on its way, is as it was unless asked anew.
LEMMA ObservedTyped ==
    ASSUME TypeOK, NEW keys, Observe(keys)
    PROVE  /\ cache' \in [Keys -> Queries] /\ mishaps' \in 0..MaxMishaps
           /\ \A k \in Keys :
                /\ cache'[k].at \in {"fetched", "read"} => cache'[k] = cache[k]
                /\ UNCHANGED <<cache[k].data, cache[k].has, cache[k].read>>
<1>1. PICK aged \in BOOLEAN :
         /\ cache' = [k \in Keys |->
                IF k \in keys /\ cache[k].at \in (IF aged THEN {"idle", "fetched"} ELSE {"idle"})
                THEN [cache[k] EXCEPT !.at = "fetching"] ELSE cache[k]]
         /\ IF aged THEN Mishap ELSE UNCHANGED mishaps
  BY DEF Observe
<1>2. mishaps' \in 0..MaxMishaps
  BY <1>1 DEF Mishap, TypeOK
<1>3. ASSUME NEW k \in Keys
      PROVE  /\ cache'[k] \in Queries
             /\ cache'[k].at \in {"fetched", "read"} => cache'[k] = cache[k]
             /\ UNCHANGED <<cache[k].data, cache[k].has, cache[k].read>>
  <2>1. PICK q \in Queries : q = cache[k]
    BY DEF TypeOK
  <2>2. LET f == [q EXCEPT !.at = "fetching"]
        IN  f \in Queries /\ f.at = "fetching" /\ f.data = q.data /\ f.has = q.has /\ f.read = q.read
    BY DEF Queries
  <2>3. cache'[k] = q \/ cache'[k] = [q EXCEPT !.at = "fetching"]
    BY <1>1, <2>1
  <2> HIDE DEF Queries
  <2> QED
    BY <2>1, <2>2, <2>3
<1>4. cache' = [k \in Keys |-> cache'[k]]
  BY <1>1
<1> QED
  BY <1>2, <1>3, <1>4

LEMMA TypeInit == Init => TypeOK
<1> SUFFICES ASSUME Init PROVE TypeOK
  OBVIOUS
<1>1. cache \in [Keys -> Queries]
  BY DEF Init, Queries
<1>2. events \subseteq Drafts
  BY DEF Init
<1>3. range \in Ranges
  BY DEF Init, Ranges
<1>4. mishaps \in 0..MaxMishaps /\ changes \in 0..MaxChanges /\ start \in Int
  BY DEF Init
<1> QED
  BY <1>1, <1>2, <1>3, <1>4 DEF Init, TypeOK

\* A query after an invalidation, an answer or a failure.
LEMMA QueriesTyped ==
    ASSUME TypeOK
    PROVE  /\ \A p : Invalidated(p) \in [Keys -> Queries]
           /\ \A k \in Keys : [cache[k] EXCEPT !.at = "idle", !.read = {}] \in Queries
           /\ \A es \in SUBSET Drafts :
                [at |-> "fetched", data |-> TRUE, has |-> es, read |-> {}] \in Queries
           /\ \A k \in Keys : cache[k].has \in SUBSET Drafts /\ cache[k].read \in SUBSET Drafts
           /\ \A p, r : OfRange(p, r) \in SUBSET Drafts
<1>1. \A k \in Keys : cache[k] \in Queries
  BY DEF TypeOK
<1>2. ASSUME NEW q \in Queries
      PROVE  /\ [q EXCEPT !.at = IF @ = "fetched" THEN "idle" ELSE @] \in Queries
             /\ \A at \in {"idle", "fetching"} : [q EXCEPT !.at = at, !.read = {}] \in Queries
             /\ q.has \in SUBSET Drafts /\ q.read \in SUBSET Drafts
  BY DEF Queries
<1>3. ASSUME NEW p PROVE Invalidated(p) \in [Keys -> Queries]
  <2>1. ASSUME NEW k \in Keys PROVE Invalidated(p)[k] \in Queries
    <3> HIDE DEF Queries
    <3>1. \/ Invalidated(p)[k] = cache[k]
          \/ Invalidated(p)[k] = [cache[k] EXCEPT !.at = "fetching", !.read = {}]
          \/ Invalidated(p)[k] = [cache[k] EXCEPT !.at = IF @ = "fetched" THEN "idle" ELSE @]
      BY DEF Invalidated
    <3> QED
      BY <1>1, <1>2, <3>1
  <2> QED
    BY <2>1 DEF Invalidated
<1>4. \A p, r : OfRange(p, r) \in SUBSET Drafts
  BY DEF OfRange, TypeOK
<1>5. \A es \in SUBSET Drafts : [at |-> "fetched", data |-> TRUE, has |-> es, read |-> {}] \in Queries
  BY DEF Queries
<1> HIDE DEF Queries
<1> QED
  BY <1>1, <1>2, <1>3, <1>4, <1>5

\* A change of an event of project p leaves the events of the other projects.
Change(p) == \E es \in SUBSET Drafts :
    Put(p, es) /\ \A q : q # p => {e \in es : e.project = q} = {e \in events : e.project = q}

LEMMA ChangesTyped ==
    ASSUME TypeOK, NEW e \in Drafts,
           Created(e) \/ Deleted(e) \/ \E to \in Drafts : Updated(e, to)
    PROVE  e.project \in Projects /\ Change(e.project)
<1>1. events \subseteq Drafts /\ e.project \in Projects
  BY DEF TypeOK
<1>2. CASE Created(e)
  <2>1. Put(e.project, events \cup {e})
    BY <1>2 DEF Created
  <2> QED
    BY <1>1, <2>1 DEF Change
<1>3. CASE Deleted(e)
  <2>1. Put(e.project, events \ {e})
    BY <1>3 DEF Deleted
  <2> QED
    BY <1>1, <2>1 DEF Change
<1>4. ASSUME NEW to \in Drafts, Updated(e, to) PROVE e.project \in Projects /\ Change(e.project)
  <2>1. Put(e.project, (events \ {e}) \cup {to}) /\ to.project = e.project
    BY <1>4 DEF Updated
  <2> QED
    BY <1>1, <2>1 DEF Change
<1> QED
  BY <1>2, <1>3, <1>4

\* What a change does to the queries.
LEMMA PutTyped ==
    ASSUME TypeOK, NEW p, NEW es, Put(p, es)
    PROVE  /\ cache' \in [Keys -> Queries]
           /\ \E early \in SUBSET Keys :
                /\ passed' = passed \ early
                /\ \A k \in early : /\ k[1] = p /\ cache[k].at = "fetching" /\ cache'[k].at = "read"
                                    /\ cache'[k].data = cache[k].data /\ cache'[k].has = cache[k].has
                                    /\ cache'[k].read = OfRange(p, k[2])
                /\ \A k \in Keys \ early : cache'[k] = cache[k]
<1>1. PICK early \in SUBSET {k \in Keys : k[1] = p /\ cache[k].at = "fetching"} :
         /\ cache' = [k \in Keys |->
                IF k \in early THEN [cache[k] EXCEPT !.at = "read", !.read = OfRange(p, k[2])]
                ELSE cache[k]]
         /\ passed' = passed \ early
  BY DEF Put
<1>2. ASSUME NEW k \in early
      PROVE  /\ cache'[k].at = "read" /\ cache'[k].data = cache[k].data
             /\ cache'[k].has = cache[k].has /\ cache'[k].read = OfRange(p, k[2])
             /\ cache'[k] \in Queries
  <2>1. PICK q \in Queries : q = cache[k]
    BY DEF TypeOK
  <2>2. PICK r \in SUBSET Drafts : r = OfRange(p, k[2])
    BY QueriesTyped
  <2>3. LET f == [q EXCEPT !.at = "read", !.read = r]
        IN  f \in Queries /\ f.at = "read" /\ f.data = q.data /\ f.has = q.has /\ f.read = r
    BY DEF Queries
  <2>4. cache'[k] = [q EXCEPT !.at = "read", !.read = r]
    BY <1>1, <2>1, <2>2
  <2> HIDE DEF Queries, OfRange
  <2> QED
    BY <2>1, <2>2, <2>3, <2>4
<1>3. \A k \in Keys \ early : cache'[k] = cache[k] /\ cache'[k] \in Queries
  BY <1>1 DEF TypeOK
<1>4. cache' \in [Keys -> Queries]
  <2>1. cache' = [k \in Keys |-> cache'[k]]
    BY <1>1
  <2> QED
    BY <1>2, <1>3, <2>1
<1>5. early \in SUBSET Keys /\ \A k \in early : k[1] = p /\ cache[k].at = "fetching"
  OBVIOUS
<1> HIDE DEF Queries, OfRange
<1> QED
  BY <1>1, <1>2, <1>3, <1>4, <1>5

LEMMA TypeStep == TypeOK /\ [Next]_vars => TypeOK'
<1> SUFFICES ASSUME TypeOK, [Next]_vars PROVE TypeOK'
  OBVIOUS
<1>0. Present \in Months /\ \A m \in Months : {m} \in Ranges
  BY DEF Ranges
<1>1. ASSUME NEW p \in Projects, Arrive(p) PROVE TypeOK'
  <2>1. cache' \in [Keys -> Queries] /\ mishaps' \in 0..MaxMishaps
    BY <1>1, ObservedTyped DEF Arrive
  <2>2. grid' \in {grid, NotMounted}
    BY <1>1 DEF Arrive, Kept
  <2> QED
    BY <1>1, <2>1, <2>2 DEF Arrive, TypeOK, server, Displaces, Displaced
<1>2. ASSUME NEW p \in Projects, NEW at \in {"fetched", "failed"}, Listed(p, at) PROVE TypeOK'
  <2>1. mishaps' \in 0..MaxMishaps
    BY <1>2 DEF Listed, TypeOK, Mishap
  <2> QED
    BY <1>2, <2>1 DEF Listed, TypeOK, page, server
<1>3. ASSUME NEW m \in Months, range' = {m},
             IF range = {m} THEN UNCHANGED <<cache, mishaps>> ELSE Observe(arrived \X {{m}})
      PROVE  cache' \in [Keys -> Queries] /\ range' \in Ranges /\ mishaps' \in 0..MaxMishaps
  BY <1>0, <1>3, ObservedTyped DEF TypeOK
<1>4. ASSUME NEW m \in Months, Navigate(m) PROVE TypeOK'
  <2>1. cache' \in [Keys -> Queries] /\ range' \in Ranges /\ range' = {m} /\ mishaps' \in 0..MaxMishaps
    BY <1>3, <1>4 DEF Navigate, DatesSet
  <2>2. grid' \in {m, NotMounted} /\ (grid' # NotMounted => mode' = "calendar")
    BY <1>4 DEF Navigate, Kept
  <2> QED
    BY <1>4, <2>1, <2>2 DEF Navigate, TypeOK, server, Displaced
<1>5. CASE Mount
  <2>1. /\ cache' \in [Keys -> Queries] /\ range' \in Ranges /\ range' = {Present}
        /\ mishaps' \in 0..MaxMishaps
    BY <1>0, <1>3, <1>5 DEF Mount, DatesSet
  <2>2. grid' \in {Present, NotMounted} /\ (grid' # NotMounted => mode' = "calendar")
    BY <1>5 DEF Mount, Kept
  <2> QED
    BY <1>0, <1>5, <2>1, <2>2 DEF Mount, TypeOK, server
<1>6. ASSUME NEW s \in Projects \cup {All}, Scope(s) PROVE TypeOK'
  <2>1. cache' \in [Keys -> Queries] /\ mishaps' \in 0..MaxMishaps
    BY <1>6, ObservedTyped DEF Scope, TypeOK
  <2>2. grid' \in {grid, NotMounted}
    BY <1>6 DEF Scope, Kept
  <2> QED
    BY <1>6, <2>1, <2>2 DEF Scope, TypeOK, server, Displaces, Displaced
<1>7. CASE Toggle
  BY <1>7 DEF Toggle, TypeOK, queries, server, Displaced
<1>8. ASSUME NEW by \in {3, -3}, MoveTimeline(by) PROVE TypeOK'
  BY <1>8 DEF MoveTimeline, TypeOK, queries, server
<1>9. ASSUME NEW p \in Projects, Change(p) PROVE TypeOK'
  <2>1. PICK es \in SUBSET Drafts : Put(p, es)
    BY <1>9 DEF Change
  <2>2. changes' \in 0..MaxChanges /\ changes + 1 \in 1..MaxChanges
    <3>1. changes \in 0..MaxChanges /\ changes < MaxChanges /\ changes' = changes + 1 /\ MaxChanges \in Nat
      BY <2>1 DEF Put, TypeOK
    <3> QED
      BY <3>1
  <2>3. saving' \subseteq [change : 1..MaxChanges, project : Projects]
    <3>1. [change |-> changes + 1, project |-> p] \in [change : 1..MaxChanges, project : Projects]
      BY <2>2
    <3>2. saving' = saving \cup {[change |-> changes + 1, project |-> p]}
      BY <2>1 DEF Put
    <3> QED
      BY <3>1, <3>2 DEF TypeOK
  <2>4. /\ events' = es /\ passed' \subseteq Keys /\ cache' \in [Keys -> Queries]
        /\ UNCHANGED <<page, listing, mishaps, wanted>>
    BY <2>1, PutTyped DEF Put, TypeOK
  <2> QED
    BY <2>2, <2>3, <2>4 DEF TypeOK, page
<1>14. ASSUME NEW s \in saving, Saved(s) \/ SaveLost(s) PROVE TypeOK'
  <2>1. cache' \in [Keys -> Queries] /\ passed' \subseteq Keys
    <3>1. \A c : Outdated(s.project, c) \subseteq Keys
      BY DEF Outdated
    <3>2. cache' = Invalidated(s.project) \/ cache' = cache
      BY <1>14 DEF Saved, SaveLost
    <3>3. \E c : passed' = passed \cup Outdated(s.project, c)
      BY <1>14 DEF Saved, SaveLost
    <3>4. passed' \subseteq Keys
      BY <3>1, <3>3 DEF TypeOK
    <3>5. cache' \in [Keys -> Queries]
      <4>1. cache \in [Keys -> Queries]
        BY DEF TypeOK
      <4>2. Invalidated(s.project) \in [Keys -> Queries]
        BY QueriesTyped
      <4> QED
        BY <3>2, <4>1, <4>2
    <3> QED
      BY <3>4, <3>5
  <2>2. grid' \in {grid, NotMounted} /\ wanted' \in {wanted, Displaced} /\ mishaps' \in 0..MaxMishaps
    BY <1>14 DEF Saved, SaveLost, Kept, Displaces, page, Mishap, TypeOK
  <2>3. /\ UNCHANGED <<mode, scope, arrived, range, start, listing, events, changes>>
        /\ saving' \subseteq saving
    BY <1>14 DEF Saved, SaveLost, page
  <2> QED
    BY <2>1, <2>2, <2>3 DEF TypeOK, Displaced
<1>10. ASSUME NEW k \in Keys, NEW q \in Queries, Answer(k, q), mishaps' \in 0..MaxMishaps,
             passed' \in {passed, passed \ {k}} PROVE TypeOK'
  <2>1. cache' \in [Keys -> Queries]
    BY <1>10 DEF Answer, TypeOK
  <2>2. grid' \in {grid, NotMounted}
    BY <1>10 DEF Answer, Kept
  <2> QED
    BY <1>10, <2>1, <2>2 DEF Answer, TypeOK, server
<1>11. ASSUME NEW k \in Keys, Fetched(k) PROVE TypeOK'
  BY <1>10, <1>11, QueriesTyped DEF Fetched, TypeOK
<1>12. ASSUME NEW k \in Keys, Fails(k) PROVE TypeOK'
  <2>1. mishaps' \in 0..MaxMishaps
    BY <1>12 DEF Fails, Mishap, TypeOK
  <2> QED
    BY <1>10, <1>12, <2>1, QueriesTyped DEF Fails
<1>13. CASE UNCHANGED vars
  BY <1>13 DEF vars, page, queries, server, TypeOK
<1> QED
  BY <1>1, <1>2, <1>4, <1>5, <1>6, <1>7, <1>8, <1>9, <1>11, <1>12, <1>13, <1>14, ChangesTyped DEF Next

\* Type correctness; FullCalendar is on screen only in its mode, and the events
\* asked for are those of the month it shows (datesSet sets fcRange).
THEOREM TypeCorrect == Spec => []TypeOK
  BY TypeInit, TypeStep, PTL DEF Spec

----------------------------------------------------------------------------
\* The strengthening: FullCalendar is off screen while something loads, it is off
\* or at the present month until the user has moved it; a query holds and brings
\* events of its project, and those the server has, unless a change of the
\* project has passed it by or its answer is still out.
Awaited(p) == \E s \in saving : s.project = p

Own == \A k \in Keys : \A e \in cache[k].has \cup cache[k].read : e.project = k[1]

Held == \A k \in Keys : k \notin passed /\ ~Awaited(k[1]) =>
    /\ cache[k].at = "fetched" => cache[k].has = OfRange(k[1], k[2])
    /\ cache[k].at = "read" => cache[k].read = OfRange(k[1], k[2])

PageInv ==
    /\ TypeOK
    /\ grid # NotMounted => ~Loading(arrived, scope, range, cache)
    /\ wanted # Displaced => grid = wanted \/ (grid = NotMounted /\ wanted = Present)
    /\ Own /\ Held

LEMMA StillHeld ==
    ASSUME Own, Held, UNCHANGED <<events, saving, passed>>,
           \A k \in Keys : /\ cache'[k].at \in {"fetched", "read"} => cache'[k] = cache[k]
                          /\ UNCHANGED <<cache[k].has, cache[k].read>>
    PROVE  Own' /\ Held'
<1>1. Own'
  BY DEF Own
<1>2. Held'
  BY DEF Held, OfRange, Awaited
<1> QED
  BY <1>1, <1>2

\* An answer about k, true unless it was out of date already.
LEMMA AnswerHeld ==
    ASSUME TypeOK, Own, Held, NEW k \in Keys, NEW q,
           cache' = [cache EXCEPT ![k] = q], UNCHANGED <<events, saving>>,
           \A e \in q.has \cup q.read : e.project = k[1],
           q.at # "read", passed' \in {passed, passed \ {k}},
           q.at = "fetched" /\ k \notin passed' /\ ~Awaited(k[1]) => q.has = OfRange(k[1], k[2])
    PROVE  Own' /\ Held'
<1>1. cache'[k] = q /\ \A j \in Keys : j # k => cache'[j] = cache[j]
  BY DEF TypeOK
<1>2. Own'
  BY <1>1 DEF Own
<1>3. ASSUME NEW j \in Keys, j \notin passed', ~Awaited(j[1])'
      PROVE  /\ cache'[j].at = "fetched" => cache'[j].has = OfRange(j[1], j[2])'
             /\ cache'[j].at = "read" => cache'[j].read = OfRange(j[1], j[2])'
  <2>1. ~Awaited(j[1]) /\ OfRange(j[1], j[2])' = OfRange(j[1], j[2])
    BY <1>3 DEF Awaited, OfRange
  <2>2. CASE j = k
    BY <1>1, <1>3, <2>1, <2>2
  <2>3. CASE j # k
    BY <1>1, <1>3, <2>1, <2>3 DEF Held
  <2> QED
    BY <2>2, <2>3
<1> QED
  BY <1>2, <1>3 DEF Held

LEMMA StepHeld == TypeOK /\ Own /\ Held /\ [Next]_vars => Own' /\ Held'
<1> SUFFICES ASSUME TypeOK, Own, Held, [Next]_vars PROVE Own' /\ Held'
  OBVIOUS
<1>0. \A k \in Keys : cache[k] \in Queries
  BY DEF TypeOK
<1>1. ASSUME NEW p \in Projects, Arrive(p) PROVE Own' /\ Held'
  BY <1>1, StillHeld, ObservedTyped DEF Arrive, server
<1>2. ASSUME NEW p, NEW at, Listed(p, at) PROVE Own' /\ Held'
  BY <1>2, StillHeld DEF Listed, server
<1>3. ASSUME NEW m, Navigate(m) \/ Mount PROVE Own' /\ Held'
  <2>1. UNCHANGED <<server, passed>> /\ \E r \in {m, Present} : DatesSet(r)
    BY <1>3 DEF Navigate, Mount
  <2> QED
    BY <2>1, StillHeld, ObservedTyped DEF DatesSet, server
<1>4. ASSUME NEW s \in Projects \cup {All}, Scope(s) PROVE Own' /\ Held'
  BY <1>4, StillHeld, ObservedTyped DEF Scope, server
<1>5. ASSUME NEW by, Toggle \/ MoveTimeline(by) \/ UNCHANGED vars PROVE Own' /\ Held'
  BY <1>5, StillHeld DEF Toggle, MoveTimeline, vars, page, queries, server
<1>6. ASSUME NEW p \in Projects, Change(p) PROVE Own' /\ Held'
  <2>1. PICK es \in SUBSET Drafts :
           Put(p, es) /\ \A q : q # p => {e \in es : e.project = q} = {e \in events : e.project = q}
    BY <1>6 DEF Change
  <2>2. PICK early \in SUBSET Keys :
           /\ passed' = passed \ early
           /\ \A k \in early : /\ k[1] = p /\ cache'[k].has = cache[k].has
                               /\ cache'[k].read = OfRange(p, k[2])
           /\ \A k \in Keys \ early : cache'[k] = cache[k]
    BY <2>1, PutTyped
  <2>3. Own'
    BY <2>2 DEF Own, OfRange
  <2>4. events' = es /\ saving' = saving \cup {[change |-> changes + 1, project |-> p]}
    BY <2>1 DEF Put
  <2>5. Awaited(p)' /\ \A q : Awaited(q) => Awaited(q)'
    <3>1. PICK s : s = [change |-> changes + 1, project |-> p]
      OBVIOUS
    <3>2. s.project = p /\ saving' = saving \cup {s}
      BY <2>4, <3>1
    <3> QED
      BY <3>2 DEF Awaited
  <2>6. \A q, r : q # p => OfRange(q, r)' = OfRange(q, r)
    BY <2>1, <2>4 DEF OfRange
  <2>7. Held'
    <3> SUFFICES ASSUME NEW k \in Keys, k \notin passed', ~Awaited(k[1])'
                 PROVE  /\ cache'[k].at = "fetched" => cache'[k].has = OfRange(k[1], k[2])'
                        /\ cache'[k].at = "read" => cache'[k].read = OfRange(k[1], k[2])'
      BY DEF Held
    <3>1. k[1] # p /\ k \notin early /\ k \notin passed /\ ~Awaited(k[1])
      BY <2>2, <2>5
    <3> QED
      BY <2>2, <2>6, <3>1 DEF Held
  <2> QED
    BY <2>3, <2>7
<1>7. ASSUME NEW s \in saving, Saved(s) \/ SaveLost(s) PROVE Own' /\ Held'
  <2>1. /\ events' = events /\ saving' = saving \ {s}
        /\ passed' = passed \cup Outdated(s.project, cache')
        /\ cache' = Invalidated(s.project) \/ cache' = cache
    BY <1>7 DEF Saved, SaveLost
  <2>2. ASSUME NEW k \in Keys
        PROVE  /\ cache'[k].has = cache[k].has /\ cache'[k].read \in {cache[k].read, {}}
               /\ k[1] # s.project => cache'[k] = cache[k]
    <3>1. PICK q \in Queries : q = cache[k]
      BY <1>0
    <3>2. LET f == [q EXCEPT !.at = "fetching", !.read = {}]
              g == [q EXCEPT !.at = IF @ = "fetched" THEN "idle" ELSE @]
          IN  f.has = q.has /\ f.read = {} /\ g.has = q.has /\ g.read = q.read
      BY DEF Queries
    <3>3. \/ cache'[k] = q
          \/ k[1] = s.project /\ cache'[k] = [q EXCEPT !.at = "fetching", !.read = {}]
          \/ k[1] = s.project /\ cache'[k] = [q EXCEPT !.at = IF @ = "fetched" THEN "idle" ELSE @]
      BY <2>1, <3>1 DEF Invalidated
    <3> HIDE DEF Queries
    <3> QED
      BY <3>1, <3>2, <3>3
  <2>3. Own'
    BY <2>2 DEF Own
  <2>4. \A p, r : OfRange(p, r)' = OfRange(p, r)
    BY <2>1 DEF OfRange
  <2>5. ASSUME NEW k \in Keys, k \notin passed', ~Awaited(k[1])'
        PROVE  /\ cache'[k].at = "fetched" => cache'[k].has = OfRange(k[1], k[2])'
               /\ cache'[k].at = "read" => cache'[k].read = OfRange(k[1], k[2])'
    <3>1. CASE k[1] = s.project
      BY <2>1, <2>4, <2>5, <3>1 DEF Outdated
    <3>2. CASE k[1] # s.project
      <4>1. k \notin passed /\ ~Awaited(k[1])
        BY <2>1, <2>5, <3>2 DEF Awaited
      <4> QED
        BY <2>2, <2>4, <3>2, <4>1 DEF Held
    <3> QED
      BY <3>1, <3>2
  <2> QED
    BY <2>3, <2>5 DEF Held
<1>8. ASSUME NEW k \in Keys, Fetched(k) PROVE Own' /\ Held'
  <2>1. PICK es : /\ cache' = [cache EXCEPT ![k] = [at |-> "fetched", data |-> TRUE, has |-> es, read |-> {}]]
                  /\ \/ es = OfRange(k[1], k[2]) /\ passed' = passed \ {k}
                     \/ es = cache[k].read /\ cache[k].at = "read" /\ passed' = passed
    BY <1>8 DEF Fetched, Answer
  <2>2. UNCHANGED <<events, saving>>
    BY <1>8 DEF Fetched, Answer, server
  <2>3. \A e \in es : e.project = k[1]
    BY <2>1 DEF Own, OfRange
  <2>4. k \notin passed' /\ ~Awaited(k[1]) => es = OfRange(k[1], k[2])
    BY <2>1 DEF Held
  <2>5. PICK q : q = [at |-> "fetched", data |-> TRUE, has |-> es, read |-> {}]
    OBVIOUS
  <2>6. q.at = "fetched" /\ q.has = es /\ q.read = {} /\ cache' = [cache EXCEPT ![k] = q]
    BY <2>1, <2>5
  <2> QED
    BY <2>1, <2>2, <2>3, <2>4, <2>6, AnswerHeld
<1>9. ASSUME NEW k \in Keys, Fails(k) PROVE Own' /\ Held'
  <2>1. cache' = [cache EXCEPT ![k] = [cache[k] EXCEPT !.at = "idle", !.read = {}]]
        /\ UNCHANGED <<events, saving, passed>>
    BY <1>9 DEF Fails, Answer, server
  <2>2. PICK q : q = [cache[k] EXCEPT !.at = "idle", !.read = {}]
    OBVIOUS
  <2>3. q.at = "idle" /\ q.has = cache[k].has /\ q.read = {}
    BY <1>0, <2>2 DEF Queries
  <2>4. \A e \in q.has \cup q.read : e.project = k[1]
    BY <2>3 DEF Own
  <2> QED
    BY <2>1, <2>2, <2>3, <2>4, AnswerHeld
<1> QED
  BY <1>1, <1>2, <1>3, <1>4, <1>5, <1>6, <1>7, <1>8, <1>9, ChangesTyped DEF Next

LEMMA PageInit == Init => PageInv
<1> SUFFICES ASSUME Init PROVE PageInv
  OBVIOUS
<1>1. \A k \in Keys : cache[k].at = "idle" /\ cache[k].has = {} /\ cache[k].read = {}
  BY DEF Init
<1>2. Own /\ Held
  BY <1>1 DEF Own, Held
<1> QED
  BY <1>2, TypeInit DEF Init, PageInv

LEMMA PageStep == PageInv /\ [Next]_vars => PageInv'
<1> SUFFICES ASSUME PageInv, [Next]_vars PROVE PageInv'
  OBVIOUS
<1>0. TypeOK /\ TypeOK' /\ Own' /\ Held'
  BY TypeStep, StepHeld DEF PageInv
<1> DEFINE Quiet == grid # NotMounted => ~Loading(arrived, scope, range, cache)
           Placed == wanted # Displaced => grid = wanted \/ (grid = NotMounted /\ wanted = Present)
<1> SUFFICES Quiet' /\ Placed'
  BY <1>0 DEF PageInv
<1>a. Quiet /\ Placed /\ grid \in Months \cup {NotMounted} /\ wanted \in Months \cup {Displaced}
  BY DEF PageInv, TypeOK
<1>b. ASSUME NEW g, grid' = Kept(g) PROVE Quiet' /\ grid' \in {g, NotMounted}
  BY <1>b DEF Kept
<1>c. ASSUME Displaces, grid' \in {grid, NotMounted} PROVE Placed'
  BY <1>a, <1>c DEF Displaces, Displaced
<1>d. ASSUME UNCHANGED <<arrived, scope, range, cache, grid, wanted>> PROVE Quiet' /\ Placed'
  BY <1>a, <1>d DEF Loading, Scoped
<1>1. ASSUME NEW p \in Projects, Arrive(p) PROVE Quiet' /\ Placed'
  BY <1>1, <1>b, <1>c DEF Arrive
<1>2. ASSUME NEW p, NEW at, Listed(p, at) PROVE Quiet' /\ Placed'
  BY <1>2, <1>d DEF Listed, page
<1>3. ASSUME NEW m \in Months, Navigate(m) PROVE Quiet' /\ Placed'
  <2>1. grid' = Kept(m) /\ wanted' = IF grid' = m THEN m ELSE Displaced
    BY <1>3 DEF Navigate
  <2> QED
    BY <2>1, <1>b
<1>4. CASE Mount
  <2>1. grid = NotMounted /\ grid' = Kept(Present) /\ wanted' = wanted
    BY <1>4 DEF Mount, MountDue
  <2> QED
    BY <2>1, <1>a, <1>b DEF Displaced
<1>5. ASSUME NEW s \in Projects \cup {All}, Scope(s) PROVE Quiet' /\ Placed'
  BY <1>5, <1>b, <1>c DEF Scope
<1>6. CASE Toggle
  BY <1>6 DEF Toggle, Displaced
<1>7. ASSUME NEW by, MoveTimeline(by) \/ UNCHANGED vars PROVE Quiet' /\ Placed'
  BY <1>7, <1>d DEF MoveTimeline, queries, vars, page
<1>8. ASSUME NEW p, Change(p) PROVE Quiet' /\ Placed'
  <2>1. PICK es : Put(p, es)
    BY <1>8 DEF Change
  <2>2. UNCHANGED <<mode, scope, arrived, range, grid, wanted>>
    BY <2>1 DEF Put, page
  <2>3. ASSUME Loading(arrived, scope, range, cache)' PROVE Loading(arrived, scope, range, cache)
    <3>1. PICK q \in Scoped(arrived, scope) :
             cache'[<<q, range>>].at \in {"fetching", "read"} /\ ~cache'[<<q, range>>].data
      BY <2>2, <2>3 DEF Loading
    <3>2. <<q, range>> \in Keys
      BY <1>0 DEF TypeOK, Scoped, Keys
    <3>3. cache[<<q, range>>].at \in {"fetching", "read"} /\ ~cache[<<q, range>>].data
      BY <1>0, <2>1, <3>1, <3>2, PutTyped
    <3> QED
      BY <3>3 DEF Loading
  <2> QED
    BY <1>a, <2>2, <2>3
<1>9. ASSUME NEW s \in saving, Saved(s) PROVE Quiet' /\ Placed'
  <2> DEFINE here == cache[<<s.project, range>>]
  <2>1. /\ grid' = Kept(grid) /\ cache' = Invalidated(s.project)
        /\ mode' = mode /\ arrived' = arrived /\ scope' = scope /\ range' = range
        /\ IF here.data THEN UNCHANGED wanted ELSE Displaces
    BY <1>9 DEF Saved
  <2>2. CASE here.data
    <3>1. ASSUME grid # NotMounted PROVE grid' = grid
      <4>1. mode = "calendar" /\ ~Loading(arrived, scope, range, cache)
        BY <1>0, <1>a, <3>1 DEF TypeOK
      <4>2. ASSUME NEW q \in Scoped(arrived, scope),
                   cache'[<<q, range>>].at \in {"fetching", "read"}, ~cache'[<<q, range>>].data
            PROVE  FALSE
        <5>1. <<q, range>> \in Keys
          BY <1>0 DEF TypeOK, Scoped, Keys
        <5>2. cache[<<q, range>>] \in Queries
          BY <1>0, <5>1 DEF TypeOK
        <5>3. \A c \in Queries : /\ [c EXCEPT !.at = "fetching", !.read = {}].data = c.data
                               /\ [c EXCEPT !.at = IF @ = "fetched" THEN "idle" ELSE @].data = c.data
          BY DEF Queries
        <5>4. q = s.project => cache'[<<q, range>>].data = here.data
          BY <2>1, <5>1, <5>2, <5>3 DEF Invalidated
        <5>5. q # s.project => cache'[<<q, range>>] = cache[<<q, range>>]
          BY <2>1, <5>1 DEF Invalidated
        <5> QED
          BY <2>2, <4>1, <4>2, <5>4, <5>5 DEF Loading
      <4>3. ~Loading(arrived', scope', range', cache')
        BY <2>1, <4>2 DEF Loading
      <4> QED
        BY <2>1, <4>1, <4>3 DEF Kept
    <3>2. grid' = grid
      BY <2>1, <3>1 DEF Kept
    <3> QED
      BY <1>a, <1>b, <2>1, <2>2, <3>2
  <2>3. CASE ~here.data
    BY <1>b, <1>c, <2>1, <2>3
  <2> QED
    BY <2>2, <2>3
<1>10. ASSUME NEW s \in saving, SaveLost(s) PROVE Quiet' /\ Placed'
  BY <1>10, <1>d DEF SaveLost, page
<1>11. ASSUME NEW k \in Keys, NEW q, Answer(k, q), q.at \notin {"fetching", "read"}
       PROVE  Quiet' /\ Placed'
  <2>1. /\ grid' = Kept(grid) /\ cache' = [cache EXCEPT ![k] = q]
        /\ mode' = mode /\ arrived' = arrived /\ scope' = scope /\ range' = range /\ wanted' = wanted
    BY <1>11 DEF Answer, server
  <2>2. ASSUME grid # NotMounted PROVE grid' = grid
    <3>1. mode = "calendar" /\ ~Loading(arrived, scope, range, cache)
      BY <1>0, <1>a, <2>2 DEF TypeOK
    <3>2. \A p \in Scoped(arrived, scope) : <<p, range>> \in Keys
      BY <1>0 DEF TypeOK, Scoped, Keys
    <3>3. \A j \in Keys : cache'[j] = cache[j] \/ cache'[j].at \notin {"fetching", "read"}
      BY <1>0, <1>11, <2>1 DEF TypeOK
    <3>4. ~Loading(arrived', scope', range', cache')
      BY <2>1, <3>1, <3>2, <3>3 DEF Loading
    <3> QED
      BY <2>1, <3>1, <3>4 DEF Kept
  <2>3. grid' = grid
    BY <2>1, <2>2 DEF Kept
  <2> QED
    BY <1>a, <1>b, <2>1, <2>3
<1>12. ASSUME NEW k \in Keys, Fetched(k) PROVE Quiet' /\ Placed'
  <2>1. \E q : Answer(k, q) /\ q.at = "fetched"
    BY <1>12 DEF Fetched
  <2> QED
    BY <1>11, <2>1
<1>13. ASSUME NEW k \in Keys, Fails(k) PROVE Quiet' /\ Placed'
  <2>1. [cache[k] EXCEPT !.at = "idle", !.read = {}].at = "idle"
    BY <1>0 DEF TypeOK, Queries
  <2> QED
    BY <1>11, <1>13, <2>1 DEF Fails
<1> HIDE DEF Quiet, Placed
<1> QED
  BY <1>0, <1>1, <1>2, <1>3, <1>4, <1>5, <1>6, <1>7, <1>8, <1>9, <1>10, <1>12, <1>13, ChangesTyped
  DEF Next

\* FullCalendar shows the month last asked for; the answers of queries and the
\* refetch after a saved change leave it where it is (isLoading is true only while
\* a query without data fetches).
THEOREM GridStaysHolds == Spec => []GridStays
<1>1. PageInv => GridStays
  BY DEF PageInv, GridStays
<1> QED
  BY <1>1, PageInit, PageStep, PTL DEF Spec

\* Once the answers about a project are in and no change has passed them by, grid
\* and timeline show the server's events and every iteration with dates of the
\* project (the queries' keys hold the range; every change whose answer arrives
\* invalidates all ranges of its project).
THEOREM AllShownHolds == Spec => []AllShown
<1>1. PageInv => AllShown
  <2> SUFFICES ASSUME PageInv, NEW p \in Scoped(arrived, scope), Answered(p)
               PROVE  /\ grid # NotMounted =>
                          {e \in OnGrid : e.project = p} = {e \in events : e.project = p /\ e.month = grid}
                      /\ {e \in Marked : e.project = p} =
                             {e \in events : e.project = p /\ e.month \in range \cap Axis
                                  /\ (e.iteration \in Iterations => e.iteration.from <= e.iteration.to)}
                      /\ {i \in Bars : i.project = p} =
                             {i \in Iterations : i.project = p /\ i.from..i.to \cap Axis # {}}
    BY DEF AllShown
  <2>1. TypeOK /\ p \in Projects /\ events \subseteq Drafts /\ start \in Int /\ <<p, range>> \in Keys
    BY DEF PageInv, TypeOK, Scoped, Keys
  <2>2. cache[<<p, range>>].has = OfRange(p, range)
    <3>1. \A k \in Keys : k \notin passed /\ ~Awaited(k[1]) =>
             (cache[k].at = "fetched" => cache[k].has = OfRange(k[1], k[2]))
      BY DEF PageInv, Held
    <3>2. ~Awaited(p)
      BY DEF Answered, Awaited
    <3> QED
      BY <2>1, <3>1, <3>2 DEF Answered
  <2>3. {e \in Loaded : e.project = p} = {e \in events : e.project = p /\ e.month \in range}
    <3>1. ASSUME NEW q \in Scoped(arrived, scope), NEW e \in cache[<<q, range>>].has PROVE e.project = q
      <4>1. <<q, range>> \in Keys
        BY <2>1 DEF TypeOK, Scoped, Keys
      <4> QED
        BY <3>1, <4>1 DEF PageInv, Own
    <3>2. ASSUME NEW e
          PROVE  e \in Loaded /\ e.project = p <=> e \in OfRange(p, range)
      <4>1. e \in Loaded <=> \E q \in Scoped(arrived, scope) : e \in cache[<<q, range>>].has
        BY DEF Loaded
      <4>2. e \in OfRange(p, range) => e.project = p
        BY DEF OfRange
      <4> HIDE DEF OfRange
      <4> QED
        BY <2>2, <3>1, <4>1, <4>2
    <3> QED
      BY <3>2 DEF OfRange
  <2>4. grid # NotMounted =>
            {e \in OnGrid : e.project = p} = {e \in events : e.project = p /\ e.month = grid}
    <3>1. grid # NotMounted => range = {grid}
      BY <2>1 DEF TypeOK
    <3> QED
      BY <2>3, <3>1 DEF OnGrid
  <2>5. {i \in Rows : i.project = p} = {i \in Iterations : i.project = p}
    BY DEF Rows, Answered
  <2>6. ASSUME NEW e \in events, e.project = p
        PROVE  e.iteration \in Dated \cup {NoIteration}
                  <=> (e.iteration \in Iterations => e.iteration.from <= e.iteration.to)
    <3>1. /\ e.iteration \in Iterations \cup {NoIteration}
          /\ e.iteration # NoIteration => e.iteration.project = e.project
      BY <2>1
    <3> QED
      BY <2>5, <2>6, <3>1 DEF Dated
  <2>7. {e \in Marked : e.project = p} =
            {e \in events : e.project = p /\ e.month \in range \cap Axis
                 /\ (e.iteration \in Iterations => e.iteration.from <= e.iteration.to)}
    BY <2>3, <2>6 DEF Marked
  <2>8. ASSUME NEW i \in Iterations
        PROVE  i.from <= i.to /\ i.from <= start + 7 /\ i.to >= start <=> i.from..i.to \cap Axis # {}
    <3>1. i.from \in Int /\ i.to \in Int
      OBVIOUS
    <3>2. ASSUME i.from <= i.to, i.from <= start + 7, i.to >= start PROVE i.from..i.to \cap Axis # {}
      <4>1. CASE i.from >= start
        BY <2>1, <3>1, <3>2, <4>1 DEF Axis
      <4>2. CASE i.from < start
        BY <2>1, <3>1, <3>2, <4>2 DEF Axis
      <4> QED
        BY <2>1, <3>1, <4>1, <4>2
    <3>3. ASSUME NEW m \in i.from..i.to, m \in Axis
          PROVE  i.from <= i.to /\ i.from <= start + 7 /\ i.to >= start
      BY <2>1, <3>1, <3>3 DEF Axis
    <3> QED
      BY <3>2, <3>3
  <2>9. {i \in Bars : i.project = p} = {i \in Iterations : i.project = p /\ i.from..i.to \cap Axis # {}}
    BY <2>5, <2>8 DEF Bars, Dated
  <2> QED
    BY <2>4, <2>7, <2>9
<1> QED
  BY <1>1, PageInit, PageStep, PTL DEF Spec
=============================================================================
