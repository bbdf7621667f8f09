# A TLA+ model of the project-management site

The repository is a Go modular monolith (`cmd/api`, `internal/*`) over Postgres,
with River jobs, an S3 object store and an AI assistant, and a React client
(`web/src`) over TanStack Query. This directory models the parts whose
correctness depends on the order in which requests, transactions, answers and
effects interleave.

On the server there is almost no shared memory: the shared state is the database,
at READ COMMITTED. Nearly every handler has one shape: authorize and read a row
with one statement, check it, open a transaction, write, commit, write something
best-effort afterwards, answer. What can go wrong is in the gaps, and that is
what the server modules keep.

In the client one thread runs, but every request is a gap of its own: answers
arrive late, in another order, or never, while the user types, closes dialogs
and changes pages, other tabs share a cookie and other people save the same
objects. Server data lives in a query cache, and each page, dialog and editor
keeps a copy of some of it. What can go wrong is between the copies.

## Inventory

| component | state | hard behaviour | modelled |
|---|---|---|---|
| `internal/page` | `pages`, `page_revisions`, `page_blobs`; presence | If-Match saves against restore, approval and the collector; ETag read after the commit | `PageRevisions`, `PageRegister` |
| `internal/task` | `tasks`, `task_references`, `task_progress` | status checked, then updated by id; references counted under a row lock; calendar written after the commit | `TaskLifecycle` |
| `internal/calendar` | `project_events`, subscriptions | one event per task, kept by another module | the task's event in `TaskLifecycle`, people's events in `CalendarPage` |
| `internal/risk` | `risks` | two AI upserts that delete and insert; flags | `RiskRegister` |
| `internal/iteration` | `iterations` | the sign-off gate, asked before the update | its status, in `RiskRegister` |
| `internal/auth`, `internal/admin` | users, refresh sessions, PATs | rotation of a single-use cookie, suspension | refresh sessions, in `ClientSession` |
| `internal/ai` | conversations, messages, tool calls, usage, workflow runs | tool calls approved twice, spend cap, crash between effect and record | risks of a run in `RiskRegister`, conversations in `AIPanel` |
| `internal/platform` | `idempotency_keys`, `rate_limit_hits` | retry racing the first answer; count then insert | no |
| `internal/org` | workspaces, memberships, invites, collaborators | last owner, invite accepted twice | no |
| `internal/artifact` | `artifacts`, objects in S3, jobs | database, queue and store fail apart | no |
| `internal/notify` | outbox, preferences | lost or doubled mail | no |
| `internal/approval`, `project`, `experiment`, `sample`, `meeting` | their tables | none beyond single statements | no |
| `audit`, `activity`, `inbox`, `search`, `mention`, `feedback`, `appearance`, `config`, `db`, `jobs`, `mcp` | append-only records, read-only queries, translation, set-up | none | no |
| `web/src/main.tsx`, `hooks/` | the query cache; what each mutation invalidates | invalidation meets a fetch under way; keys the hooks miss | `QueryCache`, `QueryTables` |
| `web/src/components/editor` | document, ETag, timers, banner | autosaves overlap, refetch against unsaved edits | `PageEditing` |
| `web/src/api/client.ts`, `hooks/useAuth.tsx` | token, cookie, status, router guard | concurrent refreshes of one cookie by tabs and calls | `ClientSession` |
| dialogs and forms | typed fields, pending mutation | doubled submissions, refills, late closes, stale whole-form saves | `Forms`, `FormTables` |
| pages and panels | queries and their guards | a failed read shown as an empty list, endless loaders | `Views`, `ViewTables` |
| `AIPanelProvider`, `AIChatPanel` | binding, seed, conversation, stream | six effects that create, select and kick off | `AIPanel` |
| `CalendarPage`, `gantt/` | scope, view, range, grid | the grid is unmounted by its own loader | `CalendarPage` |
| `docs/design`, types, shell, appearance, `cmd/seed`, `deploy` | local or none | none | no |

How they interact: handlers call each other's services in process
(`iteration.SetBlockingRiskChecker` calls `risk`, `ai.RunWorkflow` calls
`risk.UpsertFromWorkflow`, `task` calls `calendar` and `notify`); everything else
they share is rows, foreign keys and row locks. The client reaches the server
by REST only; inside the client a mutation hook tells the cache which keys are
old, and the cache tells every mounted component.

What makes each component correct:

- pages: history is immutable and connected, a page shows something that was
  installed, a save replaces only what its author had seen, the collector keeps
  what it promises to keep;
- tasks: status, inferred facts, trail and calendar tell the same story; done is
  reached only with an output;
- risks and iterations: each source of risks replaces only its own rows and
  leaves one set of them; no iteration becomes active past an open flagged risk;
- cache: nothing this tab has made old is shown as settled, and the screen
  catches up;
- editor: no edit is forgotten, and no other author's overwritten unasked;
- session: a tab never spends its cookie twice, no live session is left behind,
  nobody is left on a spinner or bounced from the login;
- forms: one draft, one object; what is typed stays; others' changes are kept;
- views: an empty list was said to be empty, a loader ends;
- panel: the conversation is the project's, a review begins once and afresh,
  the composer is unlocked again;
- calendar: the grid stays where the user put it, comes back after a load, and
  shows what the server has.

Every hazard, with its line, is in `PROJECT.json` under `hazards`, and names the
properties that cover it or why none does.

## Modules

### Server

`PageRevisions` (`internal/page`). The tables are `rows` (ids present), `body`
(immutable columns), `status`, `parent` and `shown`
(`pages.current_revision_id`). Ids count insertions, so they stand for
`created_at` as well; content stands for `blob_hash` and is the id of the first
revision that held it. The database compares `created_at`, the start of the
inserting transaction, where the model compares ids: transactions that overlap
may be ranked the other way in the code, among the auto-saves of one instant. A
request is up to three steps: `Begin...` (the read of the page and the named
revision), `...Commit` (the whole transaction), `...Respond` (what the client is
told). One step for the transaction is justified by its row locks: each
transaction updates the page or candidate row it depends on, keeps the locks to
the end and branches on nothing it read without a lock; its updates are by id,
and the guard of a save is in the `WHERE` of its `UPDATE`. Where that is not so
(`GCAutoSaves`: three statements that work out the expired rows anew) the
transaction is three steps, `GCNullWithin`, `GCNullAll`, `GCDelete`, and the rows
it has updated are locked (`Unlocked`). `etag` and `basis` are what a client was
handed. `Handlers` selects which handlers an instance runs.

`PageRegister` is the abstract specification of the ETag protocol: a
compare-and-swap register per page. `PageRevisions!ImplementsRegister` maps
`shown`, `etag` and the inserted ids to it.

`TaskLifecycle` (`internal/task`, and the part of `internal/calendar` it calls).
One task. `Begin...` is the read and check of take, cancel, reopen and delay, the
action named like the service function its transaction, `SyncCalendar` the write
that follows the commit. Completion is three statements of one transaction:
`BeginDone` locks the row and checks its status, `CountOutputs` counts the
references, `MarkDone` updates. Between them other requests go on, but whatever
writes the row, or writes a progress entry, whose foreign key shares it, waits
(`Unlocked`, `holder`). `PatchTask`, `ReassignTask` and the references decide on
nothing they read. Past timestamps are booleans; dates in the future are small
integers because delay compares them. `due` is the row the commit returned, which
is what the calendar write carries. Three variables record what has happened, for
the properties to name: `gap` (a take or a cancel has committed over a status it
had not read), `latest` (whose calendar write the last commit owes) and `drift`
(that write was lost, or an earlier commit's landed after it).

`RiskRegister` (`internal/risk`, `internal/iteration`, and `ai.RunWorkflow` as
its caller). One iteration and its project. `BeginActivate` is the gate's query
and `Activate` the update; `BeginWorkflow`/`BeginAssessment` are the upsert's
`DELETE`, whose rows stay locked (`doomed`) until `CommitWorkflow` or
`CommitAssessment` inserts. A risk keeps target, source, run, the three fields
the gate reads, and `edited` (has a person patched the row?). Two variables record
what has happened: `beside`, the runs of its target whose transactions were open
when a run deleted, and `late`, whether a run has committed since a caller asked
the gate.

### Client

`QueryCache` with `QueryTables`. One entry of the query client, chosen at the start:
entries do not interact. `QueryTables` gives for every query key the tables its
endpoint reads, and for every mutation hook the tables its endpoint writes and the
keys it invalidates, in the hook's own terms (prefixes and the predicate of
`invalidateTasks`). What an endpoint writes is followed through the services it
calls: an approved tool call may run any of the assistant's tools (`ToolWrites`), a
workflow run leaves a page and risks behind, the row of an upload is listed before
the upload is complete. `Mount`, `Read`, `Land`, `FetchFails` and `Invalidate` are
TanStack Query's rules as the code configures them (`retry: 1`, `staleTime` five
minutes, `cancelRefetch`). `HookGaps` lists the pairs of hook and key that the hooks
do not cover; `GapsAreReal` of `MCQueryCache`, evaluated by TLC, says that each of
them is one.

`PageEditing` (`PageEditorCore`, `usePageQueries`). A document is the set of
edits in it, a revision its position in the history. `Edit` arms the timer,
`TimerFires`, `SaveNow` (blur, Ctrl-S) and `Leave` (unmount) send a PUT with
`etagRef` and the document of that moment; `ServerSaves` is the guarded update,
`Saved`/`Conflict`/`SaveFails` the three branches of `save`; `Overwrite`,
`AskReload`/`Reloaded` and `Restore`/`Restored` the banner and the history panel.
A page is made with no blocks (`bare`) or with some; a reload or restore of a
revision without blocks leaves the document as it is, and resets `isDirty`, the save
status and the ETag all the same (`Shown`). An editor in which that has happened to
unsaved edits is `slipped`.
The server's side is one step here: it is what `PageRevisions` is about. A save
remembers, for the properties only, whether its ETag was the document's (`blind`)
and whether the document has been replaced since it was sent (`past`).

`ClientSession` (`client.ts`, `useAuth.tsx`, `router.tsx`, `auth/token.go`).
Tabs with a token each and one cookie; `refresh[t]` is the module-level
`bootstrapPromise`; `Render` is React's commit, after which the router's guard
sees a new status. `Rotate` is the server's transaction, which refuses an ended or
expired session and a user who is pending or suspended (`barred`); `Rotated` is its
answer, and either may be lost. A login is the server's session, `Admit`, and its
answer, `LoggedIn`; an administrator's suspension bars the user first and then revokes
his sessions, so that a refresh or a login may come in between. The login's check of
the user and its insert are one step, and so are the rotation's checks and update.

`Forms` with `FormTables`. A form is a row of choices its code makes (what fills
it, which fields it sends, whether it locks, closes, clears, sits in a row that
moves, awaits, or has further steps); `Forms` runs any row against submissions,
refetches and another person's change. Fields are two: a required one, and one
that decides where the object's row is shown. Values are only told apart as
blank, as it was, theirs, mine.

`Views` with `ViewTables`. A view is a row naming the queries whose loading and
failing it looks at, the object it needs, and the lists it may call empty; `Views`
runs any row against answers, failures, retries and refetches. `after` are the
`enabled` conditions.

`AIPanel`. The provider's `open`, `target`, `seed`, the panel's refs and state, and
one action for each effect, callback and handler. React runs the effects of a
change before the next event, so other actions wait until none is due (`Settled`).
A creation is the server's conversation (`Created`, or `CreateFails`), and then, as
the hook awaits the refetch of the list before its caller hears of it, the callback
(`Landed`) or an answer that never comes (`AnswerLost`). A stream answers, is refused
or breaks off (`Done`, `Breaks`), or goes silent for good (`FallsSilent`): nothing in
the server or the panel bounds it. `slips` records what excuses a property: the panel
bound anew while a review's conversation was under way, closed before it was there, a
review started in an open panel, the user turning elsewhere.

`CalendarPage`. Times are months. `Mount` is FullCalendar's mount, which reports
its own month (`datesSet`); `Loading` unmounts it. `wanted` is the month last
asked for, or `Displaced` when one of the named causes made the page lose it. A change
of an event (`Created`, `Updated`, `Deleted`) is the server's commit; it stays in
`saving` until `Saved`, its answer, invalidates, or `SaveLost`. A fetch under way when
a change commits has been read before it or not, as the database had it: one that had
(`"read"`) lands with the events of before. An invalidation cancels it, unless the
entry has no data yet, which is TanStack Query's rule; a query left with events that
are no longer the server's is `passed`. Lost answers, failed requests and entries that
grow old of their own come out of one budget (`mishaps`). `OnGrid`, `Marked`, `Bars`
are what the two views draw.

`MC...` modules hold instances, symmetry and table constants. `...Proofs` modules
hold the theorems. Every definition that models code is mapped to its lines in
`PROJECT.json`; definitions marked "Mutant" are plausible bugs of the definition
they precede and are used by nothing: substituting one makes the property it is
listed for fail.

### Exceptions

Where a few of many hooks, forms or views do not keep a property, they are named
in the tables, with what is wrong with them (`HookGaps` in `QueryTables`;
`Doubles`, `Refilled`, `LateClosed`, `Moved`, `Dropped`, `Emptied`, `StaleDrafts`
in `FormTables`; `FalseEmpties`, `EndlessLoaders`, `Crashing` in `ViewTables`), and
the property excludes them by name. The lists are part of the result: they say
where the code does not do what its siblings do. `TableAssumption` of `MCForms`
and `MCViews`, evaluated by TLC, says that every form outside `Doubles`, outside
`StaleDrafts` and outside the five lists of losses, and every view outside
`FalseEmpties`, meets the condition the theorems need, and that none inside does, so
these lists are not longer than they must be.

## Runs

| run | instance | asks |
|---|---|---|
| `pages_all` | 2 pages, 2 clients, 3 revisions, keep 1, every handler | revision graph, what a page shows, immutability, what the collector spares |
| `pages_guarded` | 1 page, 2 clients, 5 revisions, keep 1, saves, candidates and the collector | one current revision, chained saves, refinement of the register |
| `tasks` | 2 users, 2 dates, 2 references, calendar writes may be lost | timeline, trail, lifecycle, gate of done, finished, calendar |
| `risks` | 2 users, 2 rows, 2 runs, ratings 3 and 4 | upserts leave others' rows alone, one run per target, flag rule and gate together |
| `risks_gate` | 2 users, 1 row, 1 run; expects a violation | the documented sign-off gate |
| `query_cache` | every key against every hook, 2 callers, lost requests | nothing made old is shown as settled; entries become fresh |
| `page_editing` | one editor with 2 overlapping saves; 2 editors one after the other; one with lost saves; one with 4 revisions, whose document is replaced in between; pages made with no blocks in the last three | no forgotten edit, no silent overwrite, autosaves arrive |
| `client_session` | 2 tabs, 1 user, 1 call each besides `/me`, 2 sessions, lost answers, suspension and expiry | refusals have an outside cause, no session is left live, no tab waits for nobody, loads end, logins lead on |
| `forms` | all 49 forms, 2 drafts, 2 submissions, 1 change by another | created once, typed input stays, others' changes are kept |
| `views` | all 68 views, 2 refetches of each query | empty lists were told, loaders end |
| `ai_panel` | 2 projects, 2 conversations, 1 review, 2 openings, 2 messages, 1 kind of slip, streams that fall silent | own conversation, fresh kickoff, composer unlocked |
| `calendar_page` | 2 projects, 2 months, an iteration with dates and one without, 1 change, 1 mishap (a lost answer, a failed request or a query grown old) | the grid stays, shows everything, returns |

Why the bounds are enough. On the server every conflict is between two requests,
so two callers reach it; a third would be a second copy of one of them. Three
revisions on two pages allow a save, a restore or candidate of it and a foreign
page; five on one page allow the collector to have expired rows, parents among
them and a survivor. A date and a later one are all that
delay and the calendar compare. Two rows hold one row of each kind that must be told apart
at a time, and the rows are replaced over and over, so every pair of kinds
occurs. Ratings 3 and 4 are the two sides of the threshold. In the client the
conflicts are between a copy and one change, or between two answers: two saves in
flight, two tabs, two submissions, two callers. A second draft shows what an
earlier one's late answer does, a second opening of the panel what an earlier
instance's callback does, a second session is a rotation, a second month a place
to be moved from. The fourth revision of `Replacing` in `MCPageEditing` lets a save
be accepted, be overtaken by another author's, and be answered after a reload. Bounds are in the guards and named; `KeepNewest` is the code's
20. `Abandon` keeps server requests from being stuck at a bound, so deadlock is
checked there, and in `query_cache`. The other client runs end at their bounds (no
more drafts, edits, sessions, refetches, openings or changes) and are run without
it. Symmetry is over callers and row ids in the server runs only, none of which
checks liveness.

`tasks` and `risks` have two callers throughout, and the calendar writes of `tasks`
may be lost. What overlapping requests do break is named in the property by what
happened, and nothing else is excused: a commit over a status that had changed since
it was read (`Slips`, `gap`), a calendar write lost or landing after a later one
(`drift`), two runs of a target whose transactions were open at once (`beside`), a run
that committed between the gate's query and the update (`late`). The properties then
say that these are the only ways, and the theorems say so for any number of callers.

Fairness. Server modules have none: their handlers may fail at any step and
promise nothing about the future. Client modules assume that what is under way
goes on, and nothing of users or other people:

- `QueryCache`: the read and landing of a fetch, the commit and answer of a
  mutation. They are single requests the browser has sent. `EventuallyFresh` has
  the premise that the tab stops making changes and the component stays.
- `PageEditing`: the browser's timer fires; a save is carried out and answered.
  `AutosaveArrives` is not claimed where saves may be lost (`lossy`).
- `ClientSession`: a tab that has something to render or a request under way does not
  stop for good: one weak fairness condition per tab, over rendering, effects,
  requests and answers together. `Call`, `Login` and `Reload` are the user's.
- `Views`: requests end, answered or failed (`Ends`).
- `AIPanel`: effects run (weak), and something becomes of a stream: it answers, is
  refused, breaks off, or goes silent for good. That a stream ends is not assumed, for
  nothing bounds one: `internal/ai/client.go:137-142` sets no timeout but for the
  headers, `cmd/api/main.go:281` leaves `WriteTimeout` unset on purpose, and the panel
  never aborts. The fairness is strong, because an effect that is due holds every other
  action back for a moment, so a stream's next step is enabled again and again and
  not throughout. `SendingEnds` says that only silence keeps the composer locked.
- `CalendarPage`: FullCalendar mounts, and each fetch ends, key by key.

## Proofs

All theorems are checked by TLAPS for every value of the constants. They assume
the named assumptions on the constants and, where stated, a restricted set of
handlers (`GuardedOnly`), or that the rows of a table meet a condition which holds of
the real table: `Locked`, `Attentive`, `Retentive` and `Careful` are evaluated by TLC
as assumptions of a run; a hook that broke `HooksCover` would break `NoSilentStale` in
the run `query_cache`, which takes every key and every hook. None assumes a single
caller. Every invariant and every action property of the passing runs is stated by a
theorem.

- `PageRevisionsProofs`. `PageInv` adds `InFlight` to the type and safety
  invariants: what a request read may be stale, or already collected, but names a
  revision that was inserted on the page of the request. That is what makes a late
  restore or approval harmless to `RevisionGraph`; the foreign keys do the rest,
  and `Expired` excluding current rows with `ShownWasInstalled` keeps the pointer
  safe from the collector, up to the rejected-while-approved case, where the
  foreign key of `pages` saves it. For the guarded handlers, `GuardedInv` adds
  `PointerGrows`: ETag <= pointer read <= pointer now. With the guard (ETag =
  pointer now) all three are equal, which is why a parent and a superseded row
  taken from an unguarded read are right: from it `OneCurrentHolds`,
  `LinearHistoryHolds`, and `RegisterImplemented` (initial states map to initial
  states, each step to a step or a stutter). `NewestKeptHolds` is about ranks:
  `NewestOf` shows that, of a finite set with at least k members, those ranked among
  the newest k are k or more (the members above the largest one that is not), and
  the existence of a largest member comes from the well-founded order of the finite
  subsets, since induction is not to be had.
- `TaskLifecycleProofs`. `TaskInv` adds three things to the types and the
  invariants. `ReadWasChecked`: a request was let through by its handler's check of the
  status it read, which may no longer be the task's. `LockGuards`: the row is locked
  for one completion at a time, of work in progress, and the outputs it has counted are
  still there; every other action needs the lock, so `DoneGateHolds` is about what they
  would do in between. `EventFollows`: the calendar write which the last commit owes
  carries the row's present date or a deletion, and if it owes none and none was lost
  or overtaken (`drift`), the event has that date. `LifecycleHolds` and
  `TrailIsChainHolds` follow step by step: a commit over the status it read makes a
  documented move because of `ReadWasChecked`, and `NoBacklog` rules out the rest.
- `RiskRegisterProofs`. `HoldsItsOwn`: the rows a transaction holds are of its own
  source and target, or gone, because no new row takes the place of a locked one
  (`OthersUntouchedHolds`). `RunInv` is about runs. For `OneRunPerTargetHolds`, two runs
  `Met` if the later found the earlier's transaction open when it deleted; then all
  runs in flight of one target have met, so have a run in flight and those rows of
  its target that it did not delete, and so have the rows of different runs that stand
  side by side (`FlightsMeet`, `LeftRowsMeet`, `RowsMeet`). For `HighRunWasReviewedHolds`,
  a high row of a run that nobody edited is flagged and open (`HighRunsWait`), and
  while no run has come in since the gate was passed, each high row has been edited
  (`GateKnew`).
- `ClientStateProofs`. For the cache, `CacheInv` adds that a mutation under way is one
  of the entry's, and so covered (`PendingCovered`); `NoSilentStaleHolds` for any
  number of callers. For the login session the induction has two layers. `TabsInv`
  relates the parts of one tab (a refresh without an expired token runs only while
  the page loads and no call is under way; a call turned away has an expired token)
  and says that cookies name sessions that exist. `CookieInv` relates the tabs to the
  cookie: a session brought by a refresh is in no other hand yet (`Fresh`), a logout
  that revoked has ended its session (`Ended`), and a tab asks with a session of its
  own spending only after an answer was lost (`Respent`), which needs to know how
  the cookie can stand behind that tab (`Behind`). These and `LiveIsHeld` are proved
  in one induction (`SessionInv`): a rotation may be overtaken by a login or a
  logout of another tab, so none holds without the others. `LiveIsHeldHolds` is a part of
  it, and `RefusedByOthersHolds` follows step by step. `NothingStrandedHolds`, the
  safety half of `LoadingEnds`, is inductive with the types: every step that ends a
  refresh sends the calls that waited for it again or loads the page anew, and a load
  that has no token to ask `/me` with has a refresh under way. The only assumption on the
  constants is that the names of users, tabs and states differ.
- `PageEditingProofs`. `EditingInv` has two parts for each editor. `EditorInv`: its
  document contains the revision it is based on, but for what the user waived, and
  of each of its saves (`SaveInv`) a document that is not `past` is part of the
  editor's, an accepted one is the revision it got, and one that is not `blind`
  contains, with what was waived, the revision its ETag names. `Remembered`: a
  document whose edits are not all on the page is dirty with no save in flight,
  awaits its timer, is under a banner, `slipped`, or is covered by a save in flight;
  `dirty` alone is not inductive, because the answer of any save clears it. From
  these follow `NoForgottenEditHolds` and `NoSilentOverwriteHolds`. The proof found
  what a bound of three revisions had hidden: the late answer after a reload of
  Disagreement 12.
- `ScreensProofs`, forms. `OnceInv` (for `CreatedOnceHolds`): while the form is open
  its draft's submissions are mounted and not ended, and of two submissions of one
  draft the earlier has failed, so only an answer that was lost can hide an object.
  `StayInv` (for `TypedStaysHolds`): an answer that finds a retaining form is to the
  draft on screen, and one that empties it is the only one awaited. `KeptInv` (for
  `OthersKeptHolds`): the untouched fields of a form that sends them are the cache's,
  so a body that knows of their change carries it.
- `ScreensProofs`, views. A list that is waited for, looked at and asked for at once
  is either loading, failed or known (`EmptyIsToldHolds`).
- `AIPanelProofs`. `OwnInv`: unless excused, the creations, the seed and the
  selection are all of the panel's project; `KickInv`: a seed is a review not yet
  kicked off, whose conversation nobody has written to (`OwnThreadHolds`,
  `KickoffFreshHolds`). The creations under way count against the room that is
  left (`TypeInv`), which needs their finite cardinality.
- `CalendarPageProofs`. `PageInv`: a mounted grid is not loading, and is at the
  month asked for (`GridStaysHolds`); what a query has shown or read is of its own
  project (`Own`); and once no change of a project awaits its answer, each of the
  project's queries that is fetched, or has been read, holds the server's events of
  its range, unless a change has passed it by (`Held`, for `AllShownHolds`). An answer
  read before a change is caught by the change's own invalidation, or is marked by it.

Only model-checked: that the gate can be passed (`risks_gate`); liveness (`EventuallyFresh`, `AutosaveArrives`, both `LoadingEnds`,
`LoginLeads`, `SendingEnds`, `GridReturns`), which is out of this prover's reach; and
that the real tables meet the conditions above.

## Disagreements

Places where the code does not do what it, its comments or its documents say, met
while modelling. The properties of the passing runs are stated so that they hold of
the code: they name these cases as exceptions, or, for 1 to 3, the instance runs the
handlers they are about. The one that a document states outright, 5, is found by the run
`risks_gate`.

Server:

1. `internal/page/http_pages.go:249`: the ETag of a save's answer is read after the
   commit and may be another writer's; the next save then overwrites unseen
   content. The protocol itself is sound (`ImplementsRegister`).
2. `internal/page/page.go:576`, `http_candidates.go:139`: restore and approve lack
   the guard of the save, and leave two current revisions of a page.
3. `internal/page/page.go:172`: once an expired auto-save has been restored,
   collection fails on `restore_of`, every time. (Only tests call `GCAutoSaves`.)
4. `internal/task/task.go:549`: a cancellation overtaken by a completion leaves
   cancelled work with `finished_at`; `http.go:191-192` says it stays empty (`gap`). A
   take, cancel or reopen overtaken by another makes a move that is not in the
   lifecycle, and a trail entry that does not continue the one before (`Slips`). Two
   calendar writes may land in the other order than their commits (`drift`).
5. `internal/iteration/iteration.go:193`: a risk flagged, or a run committed, between
   the gate and the update does not block the activation, where
   `docs/ARCHITECTURE.md:228-231` says it is blocked (`risks_gate`, `late`).
6. `internal/risk/risk.go:408`: concurrent runs of one target leave two sets of
   risks, where `risk.go:10-13` says exactly one (`beside`).
7. `internal/page/http_revisions.go:128`: the next cursor is the id of the first
   row left out and is read strictly before, so a row is skipped between pages.
8. `internal/ai/service.go:179-238`: check, execution and record of an approved
   tool call are three steps without a lock; `seq` of `ai_messages` (and of tasks
   and risks) is an unlocked MAX + 1.

Client:

9. `AIPanelProvider.tsx:32-34,82-84` say that creating a review's conversation up
   front leaves no race; the panel, already mounted, may create a second one, and a
   review started in an open panel is never kicked off. A refused creation is tried
   again without end, and so is one whose answer was lost, each leaving a conversation
   behind. A stream that ends without an event, or in which nothing comes any more,
   leaves the composer locked (`FallsSilent`): no timeout of the server ends it and
   the panel's `AbortController` is never used.
10. `CalendarPage.tsx:963-974`: the grid is unmounted while events load, and comes
    back at the present month when the month's events had not been fetched. A first
    load that was read before a change is not cancelled by its invalidation and lands
    as valid; so does the load of a month that is off screen, and a change whose answer
    is lost invalidates nothing (`passed`). A failed read of events looks like none (`useEventQueries.ts:65-75`); the timeline
    moves beyond the months that were fetched; events of an iteration without dates
    have no marker. `EventFormDialog` (251-270) shows UTC times and sends them back as
    local ones.
11. `EntityPageEditor.tsx:50-160`: after a failed read of the list the page is
    created anew. `ImageEmbed` says "processing" for ever without its artifact.
12. `PageEditorCore.tsx:464`: a refetch's ETag without its document lets the next
    save pass over another author's (`blind`). So does line 515, when the save's
    answer arrives after a reload or a restore has replaced the document (`past`).
    Lines 585 and 978 replace the document only if the page has blocks, but call it
    saved in any case: edits to a page that was made without blocks outlive "Reload",
    unsaved and under "Saved" (`slipped`).
13. `api/client.ts:4` says a 401 is followed by one silent refresh: the refresh
    carries the expired token, and `AuthResolver` refuses it for that.
14. `hooks/`: the pairs of `HookGaps`, such as a task's dates and the calendar, a
    workflow's risks and page, or all that an approved tool call writes besides risks
    and pages; `main.tsx:20` says mutations invalidate their keys.
15. `TaskActionDialogs.tsx:232,239`: the reassign dialog takes the assignee when it opens
    and sends it with every submission, so one who only adds a note puts a colleague's
    reassignment back (`StaleDrafts`).

## Not modelled

Authorization (a request that is refused is a request that was not made), deletion
of projects (cascades) and of tasks (called by tests only), `cmd/seed`, text
(titles, Markdown, mitigations), audit, mentions and mail, `seq` numbers, presence,
read-only queries. In the client: layout, drawing, filters and sorting, tool-call
cards, block rendering, days and hours of events, local preferences.

These have state and hazards and are left for further work, in this order:

1. `Idempotency` (platform): lookup, handler, save, retries, expiry; what
   sequential retries get.
2. `ToolCalls` (ai): propose, approve, reject, execute, tokens, crash; the spend cap.
3. `Membership` (org): owners, invites, collaborators; access resolution against a
   reference definition.
4. `ArtifactPipeline`: upload, job, worker crash, deletion, with liveness under the
   fairness River's retries justify.
5. `NotifyOutbox`; the composition of `PageEditing` with `PageRevisions`; the pure
   functions `lineDiff` and revision paging.
