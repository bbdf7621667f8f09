------------------------ MODULE TaskLifecycleProofs ------------------------
(* Theorems about TaskLifecycle, for any number of users, dates and         *)
(* references, whatever requests overlap and whatever calendar writes are   *)
(* lost.                                                                    *)
EXTENDS TaskLifecycle, TLAPS

USE OutputsAssumption, DateAssumption, SyncAssumption, NoUserAssumption

\* A request was let through by its handler's check of the status it read.
ReadWasChecked ==
  \A u \in Users : pc[u] = "read" =>
    /\ Exists
    /\ req[u].from # "absent"
    /\ req[u].op = "take" => req[u].from \in {"todo", "backlog"}
    /\ req[u].op = "cancel" => req[u].from \notin {"done", "cancelled"}
    /\ req[u].op = "reopen" => req[u].from \in {"done", "cancelled"}

\* The row is locked for one completion, of work in progress, and what it has
\* counted is still there.
LockGuards ==
  /\ holder # NoUser => pc[holder] \in {"locked", "counted"}
  /\ \A u \in Users : pc[u] \in {"locked", "counted"} =>
       holder = u /\ status = "in_progress"
  /\ \A u \in Users : pc[u] = "counted" => refs \cap Outputs # {}

NowDue == When(estimate, planned)

\* The calendar write the last commit owes carries the row's date or a deletion,
\* and if it owes none and none was lost or overwritten, the event does.
EventFollows ==
  /\ ~Exists => event = Null /\ latest = NoUser /\ \A u \in Users : pc[u] # "committed"
  /\ latest # NoUser => pc[latest] = "committed" /\ due[latest] \in {Null, NowDue}
  /\ latest = NoUser /\ ~drift => event \in {Null, NowDue}

\* No request puts a task in the backlog.
NoBacklog == status # "backlog"

TaskInv ==
  /\ TypeOK /\ Timeline /\ TrailEndsAtStatus /\ FinishedOnlyIfDone
  /\ ReadWasChecked /\ LockGuards /\ EventFollows /\ NoBacklog

----------------------------------------------------------------------------
(* The steps the handlers share.                                            *)

LEMMA Members ==
  /\ Null \in OptDate /\ Dates \subseteq OptDate
  /\ NoUser \in OptUser /\ Users \subseteq OptUser
  /\ {"absent", "todo", "in_progress", "done", "cancelled"} \subseteq Statuses
  /\ NoRequest \in Request
BY DEF OptDate, OptUser, Null, Statuses, NoRequest, Request

LEMMA RequestFields ==
  ASSUME TypeOK, NEW u \in Users
  PROVE  req[u].from \in Statuses /\ req[u].date \in OptDate
BY DEF TypeOK, Request

LEMMA WhenType ==
  ASSUME NEW est \in OptDate, NEW plan \in OptDate
  PROVE  When(est, plan) \in OptDate
BY DEF When

FlightType ==
  /\ pc \in [Users -> {"idle", "read", "locked", "counted", "committed"}]
  /\ req \in [Users -> Request]
  /\ due \in [Users -> OptDate]
  /\ event \in OptDate
  /\ latest \in OptUser
  /\ drift \in BOOLEAN

\* What a commit does to the flight.
LEMMA CommitLemma ==
  ASSUME TypeOK, NEW u \in Users, NEW date \in OptDate, Commit(u, date)
  PROVE  /\ FlightType'
         /\ pc'[u] = "committed" /\ latest' = u /\ due'[u] = date
         /\ event' = event /\ drift' = drift
         /\ \A v \in Users \ {u} : pc'[v] = pc[v] /\ req'[v] = req[v]
BY Members DEF Commit, TypeOK, FlightType

\* What the answer to a request does to it.
LEMMA AnsweredLemma ==
  ASSUME TypeOK, NEW u \in Users, Answered(u)
  PROVE  /\ pc' \in [Users -> {"idle", "read", "locked", "counted", "committed"}]
         /\ req' \in [Users -> Request]
         /\ due' \in [Users -> OptDate]
         /\ latest' \in OptUser
         /\ pc'[u] = "idle"
         /\ \A v \in Users \ {u} : pc'[v] = pc[v] /\ req'[v] = req[v] /\ due'[v] = due[v]
         /\ latest' # u
         /\ latest # u => latest' = latest
         /\ latest = u => latest' = NoUser
BY Members DEF Answered, TypeOK

LEMMA MoveLemma ==
  ASSUME NEW from \in Statuses, NEW to \in Statuses, Move(from, to)
  PROVE  /\ status' = to /\ status' \in Statuses
         /\ trail' \in [from: Statuses, to: Statuses]
         /\ trail'.from = from /\ trail'.to = to
BY DEF Move

\* What a request does to the flight when it has read the task.
LEMMA ReadLemma ==
  ASSUME TypeOK, NEW u \in Users, NEW op \in {"take", "cancel", "reopen", "delay"},
         NEW target \in {"todo", "in_progress"}, NEW date \in OptDate,
         Read(u, op, target, date)
  PROVE  /\ FlightType'
         /\ Exists /\ pc[u] = "idle"
         /\ pc'[u] = "read" /\ req'[u].op = op /\ req'[u].from = status
         /\ \A v \in Users \ {u} : pc'[v] = pc[v] /\ req'[v] = req[v]
         /\ UNCHANGED <<status, assignee, executor, planned, estimate, started,
                        finished, refs, trail, event, due, latest, holder, gap, drift>>
<1> DEFINE q == [op |-> op, from |-> status, target |-> target, date |-> date]
<1>1. q \in Request
  BY DEF TypeOK, Request
<1>2. req' = [req EXCEPT ![u] = q] /\ pc' = [pc EXCEPT ![u] = "read"]
  BY DEF Read
<1>3. req' \in [Users -> Request] /\ req'[u] = q
  BY <1>1, <1>2 DEF TypeOK
<1>4. /\ pc' \in [Users -> {"idle", "read", "locked", "counted", "committed"}]
      /\ pc'[u] = "read"
      /\ \A v \in Users \ {u} : pc'[v] = pc[v] /\ req'[v] = req[v]
  BY <1>2 DEF TypeOK
<1>5. UNCHANGED <<status, assignee, executor, planned, estimate, started,
                  finished, refs, trail, event, due, latest, holder, gap, drift>>
  BY DEF Read, row, people, dates, facts
<1>6. QED
  BY <1>3, <1>4, <1>5 DEF FlightType, TypeOK, Read

----------------------------------------------------------------------------
(* What each kind of step preserves of the requests in flight.              *)

FlightInv == ReadWasChecked /\ LockGuards /\ EventFollows

\* A commit of an existing row, which nobody else has locked, hands on the new
\* row's date or that there is none.
LEMMA CommitKeeps ==
  ASSUME TaskInv, NEW u \in Users, NEW date \in OptDate, Commit(u, date),
         holder \in {NoUser, u}, holder' = NoUser,
         Exists', date \in {Null, NowDue'}
  PROVE  FlightInv'
<1>1. /\ pc'[u] = "committed" /\ latest' = u /\ due'[u] = date
      /\ \A v \in Users \ {u} : pc'[v] = pc[v] /\ req'[v] = req[v]
  BY CommitLemma DEF TaskInv
<1>2. ReadWasChecked'
  BY <1>1 DEF ReadWasChecked, TaskInv
<1>3. \A v \in Users : pc'[v] \notin {"locked", "counted"}
  BY <1>1 DEF TaskInv, LockGuards
<1>4. LockGuards'
  BY <1>3 DEF LockGuards
<1>5. EventFollows'
  BY <1>1 DEF EventFollows
<1>6. QED
  BY <1>2, <1>4, <1>5 DEF FlightInv

\* A request reads a task that passes its check.
LEMMA ReadKeeps ==
  ASSUME TaskInv, NEW u \in Users,
         NEW op \in {"take", "cancel", "reopen", "delay"},
         NEW target \in {"todo", "in_progress"}, NEW date \in OptDate,
         Read(u, op, target, date),
         op = "take" => status \in {"todo", "backlog"},
         op = "cancel" => status \notin {"done", "cancelled"},
         op = "reopen" => status \in {"done", "cancelled"}
  PROVE  TaskInv' /\ UNCHANGED <<status, trail>>
<1>1. /\ FlightType'
      /\ Exists /\ pc[u] = "idle"
      /\ pc'[u] = "read" /\ req'[u].op = op /\ req'[u].from = status
      /\ \A v \in Users \ {u} : pc'[v] = pc[v] /\ req'[v] = req[v]
      /\ UNCHANGED <<status, assignee, executor, planned, estimate, started,
                     finished, refs, trail, event, due, latest, holder, gap, drift>>
  BY ReadLemma DEF TaskInv
<1>2. TypeOK'
  BY <1>1 DEF TaskInv, TypeOK, FlightType
<1>3. ReadWasChecked'
  BY <1>1 DEF TaskInv, ReadWasChecked, Exists
<1>4. LockGuards'
  <2>1. holder # NoUser => holder \in Users \ {u}
    BY <1>1 DEF TaskInv, LockGuards, TypeOK, OptUser
  <2>2. \A v \in Users : pc'[v] \in {"locked", "counted"} => pc'[v] = pc[v]
    BY <1>1
  <2>3. QED
    BY <1>1, <2>1, <2>2 DEF TaskInv, LockGuards
<1>5. EventFollows'
  <2>1. latest # NoUser => latest \in Users \ {u}
    BY <1>1 DEF TaskInv, EventFollows, TypeOK, OptUser
  <2>2. NowDue' = NowDue /\ Exists' = Exists
    BY <1>1 DEF NowDue, When, Exists
  <2>3. QED
    BY <1>1, <2>1, <2>2 DEF TaskInv, EventFollows
<1>6. Timeline' /\ TrailEndsAtStatus' /\ FinishedOnlyIfDone' /\ NoBacklog'
  BY <1>1 DEF TaskInv, Timeline, TrailEndsAtStatus, FinishedOnlyIfDone, NoBacklog
<1>7. QED
  BY <1>1, <1>2, <1>3, <1>4, <1>5, <1>6 DEF TaskInv

\* A step that leaves the status and the flight alone, and the references unless
\* nobody has the row locked.
LEMMA AsideKeeps ==
  ASSUME TaskInv, UNCHANGED <<status, facts, dates, trail, event, flight, holder, gap, drift>>,
         assignee' \in OptUser, executor' = executor,
         refs' \subseteq Refs, refs' = refs \/ Unlocked
  PROVE  TaskInv'
<1>1. NowDue' = NowDue /\ Exists' = Exists
  BY DEF dates, NowDue, When, Exists
<1>2. TypeOK'
  BY DEF TaskInv, TypeOK, facts, dates, flight
<1>3. ReadWasChecked' /\ EventFollows'
  BY <1>1 DEF TaskInv, ReadWasChecked, EventFollows, flight
<1>4. LockGuards'
  BY DEF TaskInv, LockGuards, flight, Unlocked
<1>5. Timeline' /\ TrailEndsAtStatus' /\ FinishedOnlyIfDone' /\ NoBacklog'
  BY DEF TaskInv, Timeline, TrailEndsAtStatus, FinishedOnlyIfDone, NoBacklog, facts
<1>6. QED
  BY <1>2, <1>3, <1>4, <1>5 DEF TaskInv

----------------------------------------------------------------------------
(* The transitions of a task and the entries of its trail.                  *)

MayMove(from, to) ==
  <<from, to>> \in
    {<<"absent", "todo">>, <<"todo", "in_progress">>,
     <<"backlog", "in_progress">>,
     <<"todo", "cancelled">>, <<"backlog", "cancelled">>,
     <<"in_progress", "cancelled">>,
     <<"in_progress", "done">>, <<"done", "todo">>,
     <<"done", "in_progress">>, <<"cancelled", "todo">>,
     <<"cancelled", "in_progress">>}

LifecycleStep == status' # status /\ ~Slips => MayMove(status, status')

TrailStep ==
  trail' # trail /\ ~Slips => trail'.from = trail.to /\ trail'.from # trail'.to

Gate == status # "done" /\ status' = "done" =>
          status = "in_progress" /\ refs \cap Outputs # {}

StepOK == LifecycleStep /\ TrailStep /\ Gate

\* A transaction commits from a status its request was let through for; if it is
\* no longer the task's, the step is a slip.
LEMMA MoveStep ==
  ASSUME TaskInv, NEW from \in Statuses, NEW to \in Statuses, Move(from, to),
         from # status => Slips, from = status => MayMove(from, to),
         to # "done"
  PROVE  StepOK
<1>1. status' = to /\ trail'.from = from /\ trail'.to = to /\ trail.to = status
  BY MoveLemma DEF TaskInv, TrailEndsAtStatus
<1>2. MayMove(from, to) => from # to
  BY DEF MayMove
<1>3. QED
  BY <1>1, <1>2 DEF StepOK, LifecycleStep, TrailStep, Gate

\* The update of a request that has read the task is a slip if the status has
\* changed since.
LEMMA SlipStep ==
  ASSUME TypeOK, NEW u \in Users, NEW op, Reading(u, op),
         NEW date, Commit(u, date), req[u].from # status
  PROVE  Slips
<1>1. pc[u] = "read" /\ pc'[u] = "committed" /\ Overtaken(u)
  BY DEF Reading, Commit, TypeOK, Overtaken
<1>2. QED
  BY <1>1 DEF Slips

----------------------------------------------------------------------------
LEMMA InitInv == Init => TaskInv
<1> SUFFICES ASSUME Init PROVE TaskInv
  OBVIOUS
<1>1. /\ pc \in [Users -> {"idle", "read", "locked", "counted", "committed"}]
      /\ req \in [Users -> Request] /\ due \in [Users -> OptDate]
  BY Members DEF Init
<1>2. trail \in [from: Statuses, to: Statuses] /\ status \in Statuses
  BY DEF Init, Statuses
<1>3. TypeOK
  BY <1>1, <1>2, Members DEF Init, TypeOK
<1>4. ReadWasChecked /\ LockGuards /\ EventFollows
  BY DEF Init, ReadWasChecked, LockGuards, EventFollows, Exists
<1>5. Timeline /\ TrailEndsAtStatus /\ FinishedOnlyIfDone /\ NoBacklog
  BY DEF Init, Timeline, TrailEndsAtStatus, FinishedOnlyIfDone, NoBacklog
<1>6. QED
  BY <1>3, <1>4, <1>5 DEF TaskInv

----------------------------------------------------------------------------
(* One lemma per transaction.                                               *)

LEMMA CreateKeeps ==
  ASSUME TaskInv, NEW u \in Users, NEW who \in OptUser, NEW plan \in OptDate,
         NEW est \in OptDate, CreateTask(u, who, plan, est)
  PROVE  TaskInv' /\ StepOK
<1>1. Move("absent", "todo") /\ status = "absent"
  BY DEF CreateTask, Exists
<1>2. /\ status' = "todo" /\ trail' \in [from: Statuses, to: Statuses]
      /\ trail'.to = "todo" /\ status' \in Statuses
  BY <1>1, Members, MoveLemma
<1>3. holder = NoUser /\ event = Null /\ latest = NoUser
  BY <1>1 DEF TaskInv, LockGuards, EventFollows, Exists, TypeOK, OptUser
<1>4. NowDue' = When(est, plan) /\ Exists'
  BY <1>2 DEF CreateTask, NowDue, When, Exists
<1>5. FlightType' /\ FlightInv'
  <2>1. CASE plan # Null
    <3>1. Commit(u, When(est, plan))
      BY <2>1 DEF CreateTask
    <3>2. QED
      BY <1>3, <1>4, <3>1, WhenType, CommitLemma, CommitKeeps DEF CreateTask, TaskInv
  <2>2. CASE plan = Null
    <3>1. UNCHANGED <<pc, req, due, latest, event, drift, holder>>
      BY <2>2 DEF CreateTask, flight
    <3>2. FlightType'
      BY <3>1 DEF FlightType, TaskInv, TypeOK
    <3>3. ReadWasChecked' /\ LockGuards'
      BY <1>1, <1>3, <1>4, <3>1 DEF TaskInv, ReadWasChecked, LockGuards, Exists
    <3>4. EventFollows'
      BY <1>3, <1>4, <3>1 DEF EventFollows
    <3>5. QED
      BY <3>2, <3>3, <3>4 DEF FlightInv
  <2>3. QED
    BY <2>1, <2>2
<1>6. TypeOK'
  BY <1>2, <1>5 DEF CreateTask, FlightType, TaskInv, TypeOK, facts
<1>7. Timeline' /\ TrailEndsAtStatus' /\ FinishedOnlyIfDone' /\ NoBacklog'
  BY <1>1, <1>2 DEF CreateTask, TaskInv, Timeline, TrailEndsAtStatus,
     FinishedOnlyIfDone, NoBacklog, facts
<1>8. StepOK
  BY <1>1, Members, MoveStep DEF MayMove
<1>9. QED
  BY <1>5, <1>6, <1>7, <1>8 DEF FlightInv, TaskInv

LEMMA PatchKeeps ==
  ASSUME TaskInv, NEW u \in Users, NEW plan \in OptDate, NEW est \in OptDate,
         PatchTask(u, plan, est)
  PROVE  TaskInv' /\ UNCHANGED <<status, trail>>
<1>1. /\ Commit(u, NowDue') /\ NowDue' \in OptDate /\ Exists'
      /\ holder = NoUser /\ holder' = NoUser
  BY WhenType DEF PatchTask, NowDue, When, Exists, Unlocked
<1>2. FlightType' /\ FlightInv'
  BY <1>1, CommitLemma, CommitKeeps DEF TaskInv
<1>3. TypeOK'
  BY <1>1, <1>2 DEF PatchTask, FlightType, TaskInv, TypeOK, people, facts
<1>4. Timeline' /\ TrailEndsAtStatus' /\ FinishedOnlyIfDone' /\ NoBacklog'
  BY DEF PatchTask, TaskInv, Timeline, TrailEndsAtStatus, FinishedOnlyIfDone,
     NoBacklog, facts
<1>5. QED
  BY <1>2, <1>3, <1>4 DEF FlightInv, TaskInv, PatchTask

LEMMA DelayKeeps ==
  ASSUME TaskInv, NEW u \in Users, DelayTask(u)
  PROVE  TaskInv' /\ UNCHANGED <<status, trail>>
<1>1. estimate' \in OptDate /\ planned' \in OptDate /\ Exists
  BY RequestFields DEF DelayTask, TaskInv, TypeOK, Reading, ReadWasChecked
<1>2. /\ Commit(u, NowDue') /\ NowDue' \in OptDate /\ Exists'
      /\ holder = NoUser /\ holder' = NoUser
  BY <1>1, WhenType DEF DelayTask, NowDue, When, Exists, Reading, Unlocked
<1>3. FlightType' /\ FlightInv'
  BY <1>2, CommitLemma, CommitKeeps DEF TaskInv
<1>4. TypeOK'
  BY <1>1, <1>2, <1>3 DEF DelayTask, FlightType, TaskInv, TypeOK, people, facts
<1>5. Timeline' /\ TrailEndsAtStatus' /\ FinishedOnlyIfDone' /\ NoBacklog'
  BY DEF DelayTask, TaskInv, Timeline, TrailEndsAtStatus, FinishedOnlyIfDone,
     NoBacklog, facts
<1>6. QED
  BY <1>3, <1>4, <1>5 DEF FlightInv, TaskInv, DelayTask

LEMMA TakeKeeps ==
  ASSUME TaskInv, NEW u \in Users, TakeTask(u)
  PROVE  TaskInv' /\ StepOK
<1>1. /\ Move(req[u].from, "in_progress") /\ Reading(u, "take")
      /\ estimate' = req[u].date /\ planned' = planned
      /\ assignee' = u /\ executor' = u
      /\ started' = TRUE /\ finished' = finished /\ refs' = refs
      /\ holder = NoUser /\ holder' = NoUser
      /\ gap' = (gap \/ Overtaken(u))
      /\ Commit(u, NowDue')
  BY DEF TakeTask, Reading, Unlocked, NowDue
<1>2. req[u].from \in Statuses /\ req[u].date \in OptDate
  BY RequestFields DEF TaskInv
<1>3. req[u].from \in {"todo", "backlog"}
  BY <1>1 DEF Reading, TaskInv, ReadWasChecked
<1>4. /\ status' = "in_progress" /\ status' \in Statuses
      /\ trail' \in [from: Statuses, to: Statuses] /\ trail'.to = "in_progress"
  BY <1>1, <1>2, Members, MoveLemma
<1>5. NowDue' \in OptDate /\ Exists'
  BY <1>1, <1>2, <1>4, WhenType DEF NowDue, Exists, TaskInv, TypeOK
<1>6. FlightType' /\ FlightInv'
  BY <1>1, <1>5, CommitLemma, CommitKeeps DEF TaskInv
<1>7. TypeOK'
  BY <1>1, <1>2, <1>4, <1>6, Members DEF FlightType, TaskInv, TypeOK, Overtaken
<1>8. Timeline' /\ TrailEndsAtStatus' /\ NoBacklog'
  BY <1>1, <1>4 DEF Timeline, TrailEndsAtStatus, NoBacklog
<1>9. FinishedOnlyIfDone'
  BY <1>1, <1>3 DEF TaskInv, FinishedOnlyIfDone, Overtaken
<1>10. StepOK
  <2>1. req[u].from # status => Slips
    BY <1>1, SlipStep DEF TaskInv
  <2>2. QED
    BY <1>1, <1>2, <1>3, <2>1, Members, MoveStep DEF MayMove
<1>11. QED
  BY <1>6, <1>7, <1>8, <1>9, <1>10 DEF FlightInv, TaskInv

LEMMA CancelKeeps ==
  ASSUME TaskInv, NEW u \in Users, CancelTask(u)
  PROVE  TaskInv' /\ StepOK
<1>1. /\ Move(req[u].from, "cancelled") /\ Reading(u, "cancel")
      /\ UNCHANGED <<assignee, executor, planned, estimate, started, finished, refs>>
      /\ holder = NoUser /\ holder' = NoUser
      /\ gap' = (gap \/ Overtaken(u))
      /\ Commit(u, Null)
  BY DEF CancelTask, Reading, Unlocked, people, dates, facts
<1>2. req[u].from \in Statuses
  BY RequestFields DEF TaskInv
<1>3. req[u].from \notin {"done", "cancelled", "absent"}
  BY <1>1 DEF Reading, TaskInv, ReadWasChecked
<1>4. /\ status' = "cancelled" /\ status' \in Statuses
      /\ trail' \in [from: Statuses, to: Statuses] /\ trail'.to = "cancelled"
  BY <1>1, <1>2, Members, MoveLemma
<1>5. Exists' /\ Null \in OptDate
  BY <1>4, Members DEF Exists
<1>6. FlightType' /\ FlightInv'
  BY <1>1, <1>5, CommitLemma, CommitKeeps DEF TaskInv
<1>7. TypeOK'
  BY <1>1, <1>4, <1>6, Members DEF FlightType, TaskInv, TypeOK, Overtaken
<1>8. Timeline' /\ TrailEndsAtStatus' /\ NoBacklog'
  BY <1>1, <1>4 DEF TaskInv, Timeline, TrailEndsAtStatus, NoBacklog
<1>9. FinishedOnlyIfDone'
  BY <1>1, <1>3 DEF TaskInv, FinishedOnlyIfDone, Overtaken
<1>10. StepOK
  <2>1. req[u].from # status => Slips
    BY <1>1, SlipStep DEF TaskInv
  <2>2. MayMove(req[u].from, "cancelled")
    BY <1>2, <1>3 DEF Statuses, MayMove
  <2>3. QED
    BY <1>1, <1>2, <2>1, <2>2, Members, MoveStep
<1>11. QED
  BY <1>6, <1>7, <1>8, <1>9, <1>10 DEF FlightInv, TaskInv

LEMMA ReopenKeeps ==
  ASSUME TaskInv, NEW u \in Users, ReopenToWork(u) \/ ReopenToTodo(u)
  PROVE  TaskInv' /\ StepOK
<1> DEFINE to == status'
<1>1. /\ Reading(u, "reopen") /\ Commit(u, NowDue')
      /\ estimate' \in {req[u].date, Null} /\ planned' = planned /\ refs' = refs
      /\ holder = NoUser /\ holder' = NoUser /\ gap' = FALSE
      /\ finished' = FALSE
  BY DEF ReopenToWork, ReopenToTodo, Reading, Unlocked, NowDue
<1>2. /\ to \in {"in_progress", "todo"} /\ Move(req[u].from, to)
      /\ to = "in_progress" => started'
      /\ started' \in BOOLEAN
      /\ assignee' \in {assignee, NoUser} /\ executor' \in {executor, NoUser}
  BY DEF ReopenToWork, ReopenToTodo, Move, people
<1>3. req[u].from \in Statuses /\ req[u].date \in OptDate
  BY RequestFields DEF TaskInv
<1>4. req[u].from \in {"done", "cancelled"}
  BY <1>1 DEF Reading, TaskInv, ReadWasChecked
<1>5. to \in Statuses /\ trail' \in [from: Statuses, to: Statuses] /\ trail'.to = to
  BY <1>2, <1>3, Members, MoveLemma
<1>6. NowDue' \in OptDate /\ Exists' /\ estimate' \in OptDate
  BY <1>1, <1>2, <1>3, Members, WhenType DEF NowDue, Exists, TaskInv, TypeOK
<1>7. FlightType' /\ FlightInv'
  BY <1>1, <1>6, CommitLemma, CommitKeeps DEF TaskInv
<1>8. TypeOK'
  BY <1>1, <1>2, <1>5, <1>6, <1>7, Members DEF FlightType, TaskInv, TypeOK
<1>9. Timeline' /\ TrailEndsAtStatus' /\ NoBacklog' /\ FinishedOnlyIfDone'
  BY <1>1, <1>2, <1>5 DEF Timeline, TrailEndsAtStatus, NoBacklog, FinishedOnlyIfDone
<1>10. StepOK
  <2>1. req[u].from # status => Slips
    BY <1>1, SlipStep DEF TaskInv
  <2>2. MayMove(req[u].from, to)
    BY <1>2, <1>4 DEF MayMove
  <2>3. QED
    BY <1>2, <1>3, <1>5, <2>1, <2>2, MoveStep
<1>11. QED
  BY <1>7, <1>8, <1>9, <1>10 DEF FlightInv, TaskInv

\* The first two steps of a completion.
LEMMA LockKeeps ==
  ASSUME TaskInv, NEW u \in Users, BeginDone(u) \/ CountOutputs(u)
  PROVE  TaskInv' /\ UNCHANGED <<status, trail>>
<1>1. UNCHANGED <<status, assignee, executor, planned, estimate, started, finished,
                  refs, trail, event, req, due, latest, gap, drift>>
  BY DEF BeginDone, CountOutputs, row, people, dates, facts
<1>2. /\ status = "in_progress"
      /\ holder' = u /\ pc'[u] \in {"locked", "counted"} /\ pc[u] \in {"idle", "locked"}
      /\ holder \in {NoUser, u}
      /\ pc' \in [Users -> {"idle", "read", "locked", "counted", "committed"}]
      /\ \A v \in Users \ {u} : pc'[v] = pc[v]
      /\ pc'[u] = "counted" => refs \cap Outputs # {}
  BY DEF BeginDone, CountOutputs, Unlocked, TaskInv, TypeOK, LockGuards
<1>3. TypeOK'
  BY <1>1, <1>2, Members DEF TaskInv, TypeOK
<1>4. LockGuards'
  <2>1. \A v \in Users \ {u} : pc'[v] \notin {"locked", "counted"}
    BY <1>2 DEF TaskInv, LockGuards
  <2>2. QED
    BY <1>1, <1>2, <2>1 DEF LockGuards
<1>5. ReadWasChecked'
  BY <1>1, <1>2 DEF TaskInv, ReadWasChecked, Exists
<1>6. EventFollows'
  <2>1. latest # NoUser => latest \in Users \ {u}
    BY <1>2 DEF TaskInv, EventFollows, TypeOK, OptUser
  <2>2. NowDue' = NowDue /\ Exists' = Exists
    BY <1>1 DEF NowDue, When, Exists
  <2>3. QED
    BY <1>1, <1>2, <2>1, <2>2 DEF TaskInv, EventFollows
<1>7. Timeline' /\ TrailEndsAtStatus' /\ FinishedOnlyIfDone' /\ NoBacklog'
  BY <1>1 DEF TaskInv, Timeline, TrailEndsAtStatus, FinishedOnlyIfDone, NoBacklog
<1>8. QED
  BY <1>1, <1>3, <1>4, <1>5, <1>6, <1>7 DEF TaskInv

\* The lock still guards what the completion has counted.
LEMMA DoneKeeps ==
  ASSUME TaskInv, NEW u \in Users, MarkDone(u)
  PROVE  TaskInv' /\ StepOK
<1>1. /\ Move("in_progress", "done") /\ Commit(u, Null) /\ finished' = TRUE
      /\ UNCHANGED <<assignee, executor, planned, estimate, started, refs, gap>>
      /\ pc[u] = "counted" /\ holder' = NoUser
  BY DEF MarkDone, people, dates
<1>2. status = "in_progress" /\ holder = u /\ refs \cap Outputs # {}
  BY <1>1 DEF TaskInv, LockGuards
<1>3. /\ status' = "done" /\ status' \in Statuses
      /\ trail' \in [from: Statuses, to: Statuses]
      /\ trail'.from = "in_progress" /\ trail'.to = "done"
  BY <1>1, Members, MoveLemma
<1>4. Exists' /\ Null \in OptDate
  BY <1>3, Members DEF Exists
<1>5. FlightType' /\ FlightInv'
  BY <1>1, <1>2, <1>4, CommitLemma, CommitKeeps DEF TaskInv
<1>6. TypeOK'
  BY <1>1, <1>3, <1>5, Members DEF FlightType, TaskInv, TypeOK
<1>7. Timeline' /\ TrailEndsAtStatus' /\ NoBacklog' /\ FinishedOnlyIfDone'
  BY <1>1, <1>2, <1>3 DEF TaskInv, Timeline, TrailEndsAtStatus, NoBacklog,
     FinishedOnlyIfDone
<1>8. StepOK
  BY <1>2, <1>3 DEF TaskInv, TrailEndsAtStatus, StepOK, LifecycleStep, TrailStep,
     Gate, MayMove
<1>9. QED
  BY <1>5, <1>6, <1>7, <1>8 DEF FlightInv, TaskInv

\* A calendar write lands, or a request ends without one.
LEMMA AnswerKeeps ==
  ASSUME TaskInv, NEW u \in Users, SyncCalendar(u) \/ Abandon(u)
  PROVE  TaskInv' /\ UNCHANGED <<status, trail>>
<1>1. /\ UNCHANGED <<status, assignee, executor, planned, estimate, started,
                     finished, refs, trail, gap>>
      /\ Answered(u)
  BY DEF SyncCalendar, Abandon, row, people, dates, facts
<1>2. /\ pc' \in [Users -> {"idle", "read", "locked", "counted", "committed"}]
      /\ req' \in [Users -> Request]
      /\ due' \in [Users -> OptDate]
      /\ latest' \in OptUser
      /\ pc'[u] = "idle"
      /\ \A v \in Users \ {u} : pc'[v] = pc[v] /\ req'[v] = req[v] /\ due'[v] = due[v]
      /\ latest' # u
      /\ latest # u => latest' = latest
      /\ latest = u => latest' = NoUser
  BY <1>1, AnsweredLemma DEF TaskInv
<1>3. /\ holder' = (IF holder = u THEN NoUser ELSE holder)
      /\ event' \in OptDate /\ drift' \in BOOLEAN
  <2>1. CASE SyncCalendar(u)
    <3>1. holder # u
      BY <2>1 DEF SyncCalendar, TaskInv, LockGuards, TypeOK
    <3>2. drift' \in BOOLEAN
      BY <2>1 DEF SyncCalendar
    <3>3. QED
      BY <2>1, <3>1, <3>2 DEF SyncCalendar, TaskInv, TypeOK
  <2>2. CASE Abandon(u)
    <3>1. drift' \in BOOLEAN
      BY <2>2 DEF Abandon
    <3>2. QED
      BY <2>2, <3>1 DEF Abandon, TaskInv, TypeOK
  <2>3. QED
    BY <2>1, <2>2
<1>4. TypeOK'
  BY <1>1, <1>2, <1>3, Members DEF TaskInv, TypeOK
<1>5. ReadWasChecked'
  BY <1>1, <1>2 DEF TaskInv, ReadWasChecked, Exists
<1>6. LockGuards'
  <2>1. holder' # NoUser => holder' \in Users \ {u} /\ holder' = holder
    BY <1>3 DEF TaskInv, TypeOK, OptUser
  <2>2. QED
    BY <1>1, <1>2, <1>3, <2>1 DEF TaskInv, LockGuards
<1>7. EventFollows'
  <2>1. NowDue' = NowDue /\ Exists' = Exists
    BY <1>1 DEF NowDue, When, Exists
  <2>2. latest' # NoUser => latest' = latest /\ latest' \in Users \ {u}
    BY <1>2 DEF TaskInv, TypeOK, OptUser
  <2>3. latest' # NoUser => pc'[latest'] = "committed" /\ due'[latest'] \in {Null, NowDue'}
    BY <1>2, <2>1, <2>2 DEF TaskInv, EventFollows
  <2>4. latest' = NoUser /\ ~drift' => event' \in {Null, NowDue'}
    <3>1. CASE SyncCalendar(u)
      BY <2>1, <3>1 DEF SyncCalendar, TaskInv, EventFollows
    <3>2. CASE Abandon(u)
      BY <1>2, <2>1, <3>2 DEF Abandon, TaskInv, EventFollows
    <3>3. QED
      BY <3>1, <3>2
  <2>5. ~Exists' => event' = Null /\ latest' = NoUser
                    /\ \A v \in Users : pc'[v] # "committed"
    <3>1. CASE SyncCalendar(u)
      BY <1>2, <2>1, <3>1 DEF SyncCalendar, TaskInv, EventFollows
    <3>2. CASE Abandon(u)
      BY <1>2, <2>1, <3>2 DEF Abandon, TaskInv, EventFollows
    <3>3. QED
      BY <3>1, <3>2
  <2>6. QED
    BY <2>3, <2>4, <2>5 DEF EventFollows
<1>8. Timeline' /\ TrailEndsAtStatus' /\ FinishedOnlyIfDone' /\ NoBacklog'
  BY <1>1 DEF TaskInv, Timeline, TrailEndsAtStatus, FinishedOnlyIfDone, NoBacklog
<1>9. QED
  BY <1>1, <1>4, <1>5, <1>6, <1>7, <1>8 DEF TaskInv

----------------------------------------------------------------------------
LEMMA NextKeeps == TaskInv /\ [Next]_vars => TaskInv' /\ StepOK
<1> SUFFICES ASSUME TaskInv, [Next]_vars PROVE TaskInv' /\ StepOK
  OBVIOUS
<1>1. ASSUME UNCHANGED <<status, trail>> PROVE StepOK
  BY <1>1 DEF StepOK, LifecycleStep, TrailStep, Gate
<1>2. ASSUME NEW u \in Users,
             \/ \E date \in Dates : BeginTake(u, date) \/ BeginDelay(u, date)
             \/ BeginCancel(u)
             \/ \E target \in {"todo", "in_progress"}, date \in OptDate :
                  BeginReopen(u, target, date)
      PROVE  TaskInv' /\ UNCHANGED <<status, trail>>
  <2>1. CASE \E date \in Dates : BeginTake(u, date)
    BY <2>1, Members, ReadKeeps DEF BeginTake
  <2>2. CASE \E date \in Dates : BeginDelay(u, date)
    BY <2>2, Members, ReadKeeps DEF BeginDelay
  <2>3. CASE BeginCancel(u)
    BY <2>3, Members, ReadKeeps DEF BeginCancel
  <2>4. CASE \E target \in {"todo", "in_progress"}, date \in OptDate :
               BeginReopen(u, target, date)
    BY <2>4, ReadKeeps DEF BeginReopen
  <2>5. QED
    BY <1>2, <2>1, <2>2, <2>3, <2>4
<1>3. ASSUME NEW u \in Users,
             \/ \E who \in Users : ReassignTask(u, who)
             \/ \E r \in Refs : AddReference(u, r) \/ RemoveReference(u, r)
      PROVE  TaskInv' /\ UNCHANGED <<status, trail>>
  <2>1. CASE \E who \in Users : ReassignTask(u, who)
    <3>1. /\ UNCHANGED <<status, facts, dates, trail, event, flight, holder, gap, drift>>
          /\ assignee' \in OptUser /\ executor' = executor
          /\ refs' = refs /\ refs' \subseteq Refs
      BY <2>1, Members DEF ReassignTask, TaskInv, TypeOK
    <3>2. QED
      BY <3>1, AsideKeeps
  <2>2. CASE \E r \in Refs : AddReference(u, r) \/ RemoveReference(u, r)
    <3>1. /\ UNCHANGED <<status, facts, dates, trail, event, flight, holder, gap, drift>>
          /\ assignee' \in OptUser /\ executor' = executor
          /\ Unlocked /\ refs' \subseteq Refs
      BY <2>2 DEF AddReference, RemoveReference, TaskInv, TypeOK, row, people
    <3>2. QED
      BY <3>1, AsideKeeps
  <2>3. QED
    BY <1>3, <2>1, <2>2
<1>4. CASE UNCHANGED vars
  <2>1. /\ UNCHANGED <<status, facts, dates, trail, event, flight, holder, gap, drift>>
        /\ assignee' \in OptUser /\ executor' = executor
        /\ refs' = refs /\ refs' \subseteq Refs
    BY <1>4 DEF vars, row, people, flight, TaskInv, TypeOK
  <2>2. QED
    BY <1>1, <2>1, AsideKeeps
<1>5. CASE Next
  <2>1. PICK u \in Users :
          \/ \E who \in OptUser, plan \in OptDate, est \in OptDate :
               CreateTask(u, who, plan, est)
          \/ \E plan \in OptDate, est \in OptDate : PatchTask(u, plan, est)
          \/ \E date \in Dates : BeginTake(u, date) \/ BeginDelay(u, date)
          \/ \E who \in Users : ReassignTask(u, who)
          \/ BeginCancel(u)
          \/ \E target \in {"todo", "in_progress"}, date \in OptDate :
               BeginReopen(u, target, date)
          \/ TakeTask(u) \/ CancelTask(u) \/ DelayTask(u)
          \/ ReopenToWork(u) \/ ReopenToTodo(u)
          \/ BeginDone(u) \/ CountOutputs(u) \/ MarkDone(u)
          \/ \E r \in Refs : AddReference(u, r) \/ RemoveReference(u, r)
          \/ SyncCalendar(u) \/ Abandon(u)
    BY <1>5 DEF Next
  <2>2. QED
    BY <1>1, <1>2, <1>3, <2>1, CreateKeeps, PatchKeeps, DelayKeeps, TakeKeeps,
       CancelKeeps, ReopenKeeps, LockKeeps, DoneKeeps, AnswerKeeps
<1>6. QED
  BY <1>4, <1>5

THEOREM TaskSafety == Spec => []TaskInv
<1>1. TaskInv /\ [Next]_vars => TaskInv'
  BY NextKeeps
<1>2. QED
  BY InitInv, <1>1, PTL DEF Spec

\* Every variable keeps its type.
THEOREM TypeCorrect == Spec => []TypeOK
<1>1. TaskInv => TypeOK
  BY DEF TaskInv
<1>2. QED
  BY <1>1, TaskSafety, PTL

\* The facts inferred from the lifecycle fit the status, for any number of
\* users whose takes, cancels, reopens and completions overlap.
THEOREM TimelineHolds == Spec => []Timeline
<1>1. TaskInv => Timeline
  BY DEF TaskInv
<1>2. QED
  BY <1>1, TaskSafety, PTL

\* The trail never falls behind the status.
THEOREM TrailHolds == Spec => []TrailEndsAtStatus
<1>1. TaskInv => TrailEndsAtStatus
  BY DEF TaskInv
<1>2. QED
  BY <1>1, TaskSafety, PTL

\* Only an overtaken take or cancellation gives a task that is not done an
\* actual end.
THEOREM FinishedHolds == Spec => []FinishedOnlyIfDone
<1>1. TaskInv => FinishedOnlyIfDone
  BY DEF TaskInv
<1>2. QED
  BY <1>1, TaskSafety, PTL

\* Only a lost calendar write, or one that lands after a later commit's, leaves
\* the event on a date that is not the task's.
THEOREM CalendarHolds == Spec => []CalendarInSync
<1>1. TaskInv => CalendarInSync
  BY DEF TaskInv, TypeOK, OptUser, EventFollows, CalendarInSync, NowDue
<1>2. QED
  BY <1>1, TaskSafety, PTL

LEMMA EveryStep == Spec => [][StepOK]_vars
<1>1. TaskInv /\ [Next]_vars => [StepOK]_vars
  BY NextKeeps
<1>2. QED
  BY <1>1, TaskSafety, PTL DEF Spec

\* No interleaving closes a task that references no output, or that is not in
\* progress: the references are counted under the lock and still there when the
\* status is written.
THEOREM DoneGateHolds == Spec => DoneGate
<1>1. [StepOK]_vars => [Gate]_vars
  BY DEF StepOK
<1>2. Spec => [][Gate]_vars
  BY <1>1, EveryStep, PTL
<1>3. QED
  BY <1>2 DEF DoneGate, Gate

\* Whatever requests overlap, only a commit over a status it has not read takes,
\* cancels or reopens a task it should not.
THEOREM LifecycleHolds == Spec => Lifecycle
<1>1. [StepOK]_vars => [LifecycleStep]_vars
  BY DEF StepOK
<1>2. Spec => [][LifecycleStep]_vars
  BY <1>1, EveryStep, PTL
<1>3. QED
  BY <1>2 DEF Lifecycle, LifecycleStep, MayMove

\* Whatever requests overlap, only such a commit breaks the chain of the trail.
THEOREM TrailIsChainHolds == Spec => TrailIsChain
<1>1. [StepOK]_vars => [TrailStep]_vars
  BY DEF StepOK
<1>2. Spec => [][TrailStep]_vars
  BY <1>1, EveryStep, PTL
<1>3. QED
  BY <1>2 DEF TrailIsChain, TrailStep
=============================================================================
