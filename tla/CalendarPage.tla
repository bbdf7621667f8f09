---------------------------- MODULE CalendarPage ----------------------------
(***************************************************************************)
(* The calendar page of the web client: FullCalendar and the Gantt chart   *)
(* over one set of events, fetched project by project for the months that  *)
(* FullCalendar last reported, and the changes made to them.  The page     *)
(* shows a spinner in place of FullCalendar while events load, so          *)
(* FullCalendar is built anew, at the present month, whenever a load ends. *)
(* Times are months; a range of months is the set of its months.           *)
(***************************************************************************)
EXTENDS Integers, FiniteSets

CONSTANTS
    Projects,
    Iterations,      \* records: project, from, to; from > to for one without dates
    NoIteration, NotMounted,
    Present,         \* the present month
    Months,          \* the months FullCalendar is moved to
    Drafts,          \* the events there may be: records project, month, iteration
    Existing,        \* the events there are at first
    Reach,           \* how far the timeline is moved
    MaxChanges,      \* events created, changed and deleted
    MaxMishaps       \* queries that age, requests that fail, answers that are lost

All == "all"

ASSUME CalendarAssumption ==
    /\ All \notin Projects
    /\ Present \in Months /\ Months \subseteq Int
    /\ Iterations \subseteq [project : Projects, from : Int, to : Int]
    /\ NoIteration \notin Iterations /\ NotMounted \notin Months
    /\ Drafts \subseteq [project : Projects, month : Int, iteration : Iterations \cup {NoIteration}]
    /\ Existing \subseteq Drafts
    /\ \A e \in Drafts : e.iteration # NoIteration => e.iteration.project = e.project
    /\ {Reach, MaxChanges, MaxMishaps} \subseteq Nat

VARIABLES
    mode, scope,     \* the two selectors
    arrived,         \* the projects known so far
    range,           \* fcRange: the months whose events are asked for
    grid,            \* the month FullCalendar shows, or NotMounted
    start,           \* the first month of the timeline
    cache,           \* the query of every project and range
    listing,         \* the query of every project's iterations
    events,          \* the server's events; those of iterations are not made here
    saving,          \* the changes made, their answers still on the way
    wanted,          \* the month last asked for, or Displaced
    passed,          \* the queries some change has passed by, and nothing told them
    changes, mishaps

page == <<mode, scope, arrived, range, grid, start>>
queries == <<cache, listing, mishaps>>
server == <<events, changes, saving>>
vars == <<page, queries, server, wanted, passed>>

Opening == {Present, Present + 1}
Ranges == {Opening} \cup {{m} : m \in Months}
Keys == Projects \X Ranges
Queries ==
    [ at : {"idle", "fetching", "read", "fetched"}, data : BOOLEAN,
      has : SUBSET Drafts, read : SUBSET Drafts ]
Displaced == NotMounted

TypeOK ==
    /\ mode \in {"calendar", "timeline"} /\ scope \in Projects \cup {All}
    /\ arrived \subseteq Projects /\ (scope = All \/ scope \in arrived)
    /\ range \in Ranges /\ grid \in Months \cup {NotMounted}
    /\ (grid # NotMounted => mode = "calendar" /\ range = {grid})
    /\ start \in Int
    /\ cache \in [Keys -> Queries]
    /\ listing \in [Projects -> {"idle", "fetching", "fetched", "failed"}]
    /\ events \subseteq Drafts
    /\ saving \subseteq [change : 1..MaxChanges, project : Projects] /\ passed \subseteq Keys
    /\ wanted \in Months \cup {Displaced}
    /\ mishaps \in 0..MaxMishaps /\ changes \in 0..MaxChanges

----------------------------------------------------------------------------
\* useAllProjectsEvents and useProjectEvents

Mishap == mishaps < MaxMishaps /\ mishaps' = mishaps + 1

\* A query that comes on screen is asked unless it was answered in the last five
\* minutes and not invalidated since, or is being asked; its data stay meanwhile.
\* A query that failed or was invalidated off screen is idle.
Observe(keys) ==
    \E aged \in BOOLEAN :
        /\ cache' = [k \in Keys |->
               IF k \in keys /\ cache[k].at \in (IF aged THEN {"idle", "fetched"} ELSE {"idle"})
               THEN [cache[k] EXCEPT !.at = "fetching"] ELSE cache[k]]
        /\ IF aged THEN Mishap ELSE UNCHANGED mishaps

Scoped(ps, s) == IF s = All THEN ps ELSE {s}

\* Some query on screen is fetching and has nothing to show.
Loading(ps, s, r, c) ==
    \E p \in Scoped(ps, s) : c[<<p, r>>].at \in {"fetching", "read"} /\ ~c[<<p, r>>].data

\* FullCalendar is on screen only in its mode and with nothing loading.
Kept(g) == IF mode' = "calendar" /\ ~Loading(arrived', scope', range', cache') THEN g ELSE NotMounted

\* Taking FullCalendar down loses the user's place.
Displaces == wanted' = IF grid' # grid THEN Displaced ELSE wanted

OfRange(p, r) == {e \in events : e.project = p /\ e.month \in r}

\* Mutant: dropping what was fetched, too.
Reset(p) ==
    [k \in Keys |->
        IF k[1] # p THEN cache[k]
        ELSE [at |-> IF k \in arrived \X {range} THEN "fetching" ELSE "idle", data |-> FALSE,
              has |-> {}, read |-> {}]]

\* A change of an event of project p invalidates every range of the project.  On
\* screen a query is asked again, and one with data drops the answer it waited
\* for; a first load under way, and one off screen, run on as they are.
Invalidated(p) ==
    [k \in Keys |->
        IF k[1] # p THEN cache[k]
        ELSE IF k \in arrived \X {range} /\ (cache[k].data \/ cache[k].at = "idle")
        THEN [cache[k] EXCEPT !.at = "fetching", !.read = {}]
        ELSE [cache[k] EXCEPT !.at = IF @ = "fetched" THEN "idle" ELSE @]]

\* The queries of project p whose answer, shown or on its way, is no longer true.
Outdated(p, c) ==
    {k \in Keys : /\ k[1] = p
                  /\ \/ c[k].at = "fetched" /\ c[k].has # OfRange(p, k[2])
                     \/ c[k].at = "read" /\ c[k].read # OfRange(p, k[2])}

Init ==
    /\ mode = "calendar" /\ scope = All /\ arrived = {} /\ range = Opening
    /\ grid = NotMounted /\ start = Present - 1
    /\ cache = [k \in Keys |-> [at |-> "idle", data |-> FALSE, has |-> {}, read |-> {}]]
    /\ listing = [p \in Projects |-> "idle"]
    /\ events = Existing
    /\ saving = {} /\ passed = {}
    /\ wanted = Present /\ changes = 0 /\ mishaps = 0

----------------------------------------------------------------------------
\* The page

\* FullCalendar is built as soon as nothing loads, before any other event.
MountDue == mode = "calendar" /\ grid = NotMounted /\ ~Loading(arrived, scope, range, cache)

\* The projects of a workspace arrive.
Arrive(p) ==
    /\ ~MountDue /\ p \notin arrived
    /\ arrived' = arrived \cup {p}
    /\ Observe({<<p, range>>})
    /\ listing' = [listing EXCEPT ![p] = "fetching"]
    /\ UNCHANGED <<mode, scope, range, start, server, passed>>
    /\ grid' = Kept(grid) /\ Displaces

\* datesSet: the range asked for becomes the one shown.
DatesSet(m) ==
    /\ range' = {m}
    /\ IF range = {m} THEN UNCHANGED <<cache, mishaps>> ELSE Observe(arrived \X {{m}})

\* The page remembers the range it was opened with.
MountsWithOpening ==
    /\ MountDue
    /\ range' = IF range = Opening THEN {Present} ELSE Opening
    /\ Observe(arrived \X {range'})
    /\ grid' = NotMounted
    /\ UNCHANGED <<mode, scope, arrived, start, listing, server, wanted, passed>>

\* FullCalendar is built, at the present month.
Mount ==
    /\ MountDue
    /\ DatesSet(Present)
    /\ UNCHANGED <<mode, scope, arrived, start, listing, server, wanted, passed>>
    /\ grid' = Kept(Present)

\* prev, next, today and the views of FullCalendar's toolbar.
Navigate(m) ==
    /\ ~MountDue /\ grid \notin {NotMounted, m}
    /\ DatesSet(m)
    /\ UNCHANGED <<mode, scope, arrived, start, listing, server, passed>>
    /\ grid' = Kept(m)
    /\ wanted' = IF grid' = m THEN m ELSE Displaced

Scope(s) ==
    /\ ~MountDue /\ s # scope /\ s \in arrived \cup {All}
    /\ scope' = s
    /\ IF s = All THEN UNCHANGED <<cache, mishaps>> ELSE Observe({<<s, range>>})
    /\ UNCHANGED <<mode, arrived, range, start, listing, server, passed>>
    /\ grid' = Kept(grid) /\ Displaces

Toggle ==
    /\ ~MountDue
    /\ mode' = IF mode = "calendar" THEN "timeline" ELSE "calendar"
    /\ grid' = NotMounted
    /\ wanted' = Displaced
    /\ UNCHANGED <<scope, arrived, range, start, queries, server, passed>>

\* Back or forward three months; the events asked for stay the same.
MoveTimeline(by) ==
    /\ ~MountDue /\ mode = "timeline"
    /\ start' = start + by /\ start' \in Present - 1 .. Present - 1 + Reach
    /\ UNCHANGED <<mode, scope, arrived, range, grid, queries, server, wanted, passed>>

----------------------------------------------------------------------------
\* What is on screen

Loaded == UNION {cache[<<p, range>>].has : p \in Scoped(arrived, scope)}
OnGrid == {e \in Loaded : e.month = grid}

\* The timeline spans eight months; a marker lies within it.
Axis == start .. start + 7
Rows == {i \in Iterations : i.project \in Scoped(arrived, scope) /\ listing[i.project] = "fetched"}
Dated == {i \in Rows : i.from <= i.to}
Bars == {i \in Dated : i.from <= start + 7 /\ i.to >= start}

\* An event of an iteration stands in the iteration's row, if that has dates;
\* the others share a row of the project.
Marked == {e \in Loaded : e.month \in Axis /\ e.iteration \in Dated \cup {NoIteration}}
TimelineShown == mode = "timeline" /\ \A p \in arrived : listing[p] # "fetching"

----------------------------------------------------------------------------
\* The changes that EventFormDialog and EventDetailModal make; Forms has the
\* dialogs themselves.  The server makes a change, and some time later the page
\* learns of it, or never.

\* Of the queries under way the server has read some before the change: they
\* will bring what there was.  The others it reads after it.
Put(p, es) ==
    /\ ~MountDue /\ changes < MaxChanges
    /\ events' = es /\ changes' = changes + 1
    /\ saving' = saving \cup {[change |-> changes + 1, project |-> p]}
    /\ \E early \in SUBSET {k \in Keys : k[1] = p /\ cache[k].at = "fetching"} :
           /\ cache' = [k \in Keys |->
                  IF k \in early THEN [cache[k] EXCEPT !.at = "read", !.read = OfRange(p, k[2])]
                  ELSE cache[k]]
           /\ passed' = passed \ early
    /\ UNCHANGED <<page, listing, mishaps, wanted>>

Created(e) ==
    /\ e \notin events /\ e.iteration = NoIteration /\ e.project \in Scoped(arrived, scope)
    /\ Put(e.project, events \cup {e})

\* The form keeps the project and the iteration.
Updated(e, to) ==
    /\ e \in events \cap Loaded /\ to \notin events
    /\ to.project = e.project /\ to.iteration = e.iteration
    /\ Put(e.project, (events \ {e}) \cup {to})

Deleted(e) == e \in events \cap Loaded /\ Put(e.project, events \ {e})

\* Mutant: without the invalidation.
SavedQuietly(s) ==
    /\ ~MountDue /\ saving' = saving \ {s}
    /\ UNCHANGED <<page, queries, events, changes, wanted, passed>>

\* onSuccess.
Saved(s) ==
    /\ ~MountDue /\ saving' = saving \ {s}
    /\ cache' = Invalidated(s.project)
    /\ passed' = passed \cup Outdated(s.project, cache')
    /\ UNCHANGED <<mode, scope, arrived, range, start, listing, mishaps, events, changes>>
    /\ grid' = Kept(grid)
    /\ IF cache[<<s.project, range>>].data THEN UNCHANGED wanted ELSE Displaces

SaveLost(s) ==
    /\ ~MountDue
    /\ saving' = saving \ {s} /\ Mishap
    /\ passed' = passed \cup Outdated(s.project, cache)
    /\ UNCHANGED <<page, cache, listing, events, changes, wanted>>

----------------------------------------------------------------------------
\* The answers

Answer(k, q) ==
    /\ ~MountDue
    /\ cache' = [cache EXCEPT ![k] = q]
    /\ UNCHANGED <<mode, scope, arrived, range, start, listing, server, wanted>>
    /\ grid' = Kept(grid)

\* A read that no change follows brings what there is when its answer lands.
Fetched(k) ==
    /\ UNCHANGED mishaps
    /\ \/ /\ cache[k].at = "fetching" /\ passed' = passed \ {k}
          /\ Answer(k, [at |-> "fetched", data |-> TRUE, has |-> OfRange(k[1], k[2]), read |-> {}])
       \/ /\ cache[k].at = "read" /\ UNCHANGED passed
          /\ Answer(k, [at |-> "fetched", data |-> TRUE, has |-> cache[k].read, read |-> {}])

\* The failure is not told; what was fetched before stays.
Fails(k) ==
    /\ cache[k].at \in {"fetching", "read"} /\ UNCHANGED passed
    /\ Mishap
    /\ Answer(k, [cache[k] EXCEPT !.at = "idle", !.read = {}])

Listed(p, at) ==
    /\ ~MountDue /\ listing[p] = "fetching"
    /\ listing' = [listing EXCEPT ![p] = at]
    /\ IF at = "failed" THEN Mishap ELSE UNCHANGED mishaps
    /\ UNCHANGED <<page, cache, server, wanted, passed>>

Next ==
    \/ \E p \in Projects : Arrive(p) \/ Listed(p, "fetched") \/ Listed(p, "failed")
    \/ \E m \in Months : Navigate(m)
    \/ \E s \in Projects \cup {All} : Scope(s)
    \/ \E e \in Drafts : Created(e) \/ Deleted(e) \/ \E to \in Drafts : Updated(e, to)
    \/ \E s \in saving : Saved(s) \/ SaveLost(s)
    \/ \E k \in Keys : Fetched(k) \/ Fails(k)
    \/ Mount \/ Toggle \/ MoveTimeline(3) \/ MoveTimeline(-3)

\* The browser renders, and a request ends.
Fairness == WF_vars(Mount) /\ \A k \in Keys : WF_vars(Fetched(k) \/ Fails(k))

Spec == Init /\ [][Next]_vars /\ Fairness

----------------------------------------------------------------------------
\* FullCalendar shows the month last asked for, unless its events had not been
\* fetched, projects arrived or were chosen meanwhile, or the timeline was
\* visited: the refetch after a saved change moves it only if that project's
\* events of the month could not be fetched before.
GridStays == grid # NotMounted /\ wanted # Displaced => grid = wanted

\* Every answer about project p is in, and no change has passed its events by: a
\* first load that was read before the change and shown after it, or a change
\* whose own answer was lost.
Answered(p) ==
    /\ cache[<<p, range>>].at = "fetched" /\ listing[p] = "fetched"
    /\ \A s \in saving : s.project # p
    /\ <<p, range>> \notin passed

\* Then the grid and the timeline show the server's events of the project in the
\* months fetched and each of its iterations with dates, and nothing else of it,
\* except the events of an iteration that has none.
AllShown ==
    \A p \in Scoped(arrived, scope) : Answered(p) =>
        /\ grid # NotMounted =>
            {e \in OnGrid : e.project = p} = {e \in events : e.project = p /\ e.month = grid}
        /\ TimelineShown =>
            /\ {e \in Marked : e.project = p} =
                   {e \in events : e.project = p /\ e.month \in range \cap Axis
                        /\ (e.iteration \in Iterations => e.iteration.from <= e.iteration.to)}
            /\ {i \in Bars : i.project = p} =
                   {i \in Iterations : i.project = p /\ i.from..i.to \cap Axis # {}}

\* The spinner gives way to FullCalendar.
GridReturns == []<>(grid # NotMounted \/ mode = "timeline")
=============================================================================
