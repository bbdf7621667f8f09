--------------------------- MODULE TaskLifecycle ---------------------------
(***************************************************************************)
(* One task of the task module (internal/task): its status, the facts the  *)
(* lifecycle infers from it (started_at, finished_at, executor), its       *)
(* references, its progress trail and the calendar event kept for it.      *)
(*                                                                         *)
(* Take, cancel, reopen and delay read the task and check it, and then     *)
(* update it by id alone in a transaction of their own; done locks the row *)
(* (SELECT ... FOR UPDATE), counts the references and updates it.  The     *)
(* calendar is written after the commit, from the row the commit returned. *)
(* Each of these is a step of its own.  An update of the row waits for the *)
(* lock, and so does a progress entry, whose foreign key shares the row.   *)
(*                                                                         *)
(* Timestamps of the past are booleans (NULL or not).  E-mails, mentions   *)
(* and audit entries read nothing back and are left out, and so are the    *)
(* trail's entries that carry no status.                                   *)
(***************************************************************************)
EXTENDS Naturals

CONSTANTS
  Users,       \* callers, each with at most one request in flight
  Refs,        \* what a task can reference
  Outputs,     \* the references of type sample, experiment or page
  MaxDate,     \* bound: planned and estimated dates are 1..MaxDate
  SyncMayFail  \* may the best-effort calendar write be lost?

ASSUME OutputsAssumption == Outputs \subseteq Refs
ASSUME DateAssumption    == MaxDate \in Nat
ASSUME SyncAssumption    == SyncMayFail \in BOOLEAN

Dates    == 1..MaxDate
Null     == 0               \* SQL NULL of a date
OptDate  == {Null} \cup Dates
NoUser   == "nobody"
ASSUME NoUserAssumption  == NoUser \notin Users
OptUser  == Users \cup {NoUser}
Statuses == {"absent", "backlog", "todo", "in_progress", "done", "cancelled"}

VARIABLES
  status,   \* tasks.status; "absent" before the insert
  assignee, \* tasks.assignee_user_id
  executor, \* tasks.actual_executor_id
  planned,  \* tasks.planned_start_at
  estimate, \* tasks.estimated_finish_at
  started,  \* is tasks.started_at set?
  finished, \* is tasks.finished_at set?
  refs,     \* task_references
  trail,    \* the last status entry of task_progress: from, to
  event,    \* the start of the task's calendar event; Null if it has none
  pc,       \* how far each user's request is
  req,      \* the request: what it was asked, and the status it read
  due,      \* the date its calendar write carries; Null to delete the event
  holder,   \* whose transaction holds the row locked
  gap,      \* history: since the last reopening, has a take or a cancel been overtaken?
  latest,   \* history: whose calendar write the last commit owes
  drift     \* history: was the last commit's calendar write lost, or overwritten?

dates  == <<planned, estimate>>
facts  == <<started, finished>>
people == <<assignee, executor>>
row    == <<status, people, dates, facts>>
flight == <<pc, req, due, latest>>
vars   == <<row, refs, trail, event, flight, holder, gap, drift>>

Request == [op: {"take", "cancel", "reopen", "delay"}, from: Statuses,
            target: {"todo", "in_progress"}, date: OptDate]

TypeOK ==
  /\ status \in Statuses
  /\ assignee \in OptUser /\ executor \in OptUser
  /\ planned \in OptDate /\ estimate \in OptDate
  /\ started \in BOOLEAN /\ finished \in BOOLEAN
  /\ refs \subseteq Refs
  /\ trail \in [from: Statuses, to: Statuses]
  /\ event \in OptDate
  /\ pc \in [Users -> {"idle", "read", "locked", "counted", "committed"}]
  /\ req \in [Users -> Request]
  /\ due \in [Users -> OptDate]
  /\ holder \in OptUser /\ latest \in OptUser
  /\ gap \in BOOLEAN /\ drift \in BOOLEAN

NoRequest == [op |-> "take", from |-> "absent", target |-> "todo", date |-> Null]

Init ==
  /\ status = "absent"
  /\ assignee = NoUser /\ executor = NoUser
  /\ planned = Null /\ estimate = Null
  /\ started = FALSE /\ finished = FALSE
  /\ refs = {}
  /\ trail = [from |-> "absent", to |-> "absent"]
  /\ event = Null
  /\ pc = [u \in Users |-> "idle"]
  /\ req = [u \in Users |-> NoRequest]
  /\ due = [u \in Users |-> Null]
  /\ holder = NoUser /\ latest = NoUser
  /\ gap = FALSE /\ drift = FALSE

Unlocked == holder = NoUser

Exists == status # "absent"

----------------------------------------------------------------------------
(* Steps the handlers share. *)

\* The task is read and checked.
Read(u, op, target, date) ==
  /\ Exists
  /\ pc[u] = "idle"
  /\ pc' = [pc EXCEPT ![u] = "read"]
  /\ req' = [req EXCEPT ![u] = [op |-> op, from |-> status, target |-> target,
                               date |-> date]]
  /\ UNCHANGED <<row, refs, trail, event, due, latest, holder, gap, drift>>

Reading(u, op) == pc[u] = "read" /\ req[u].op = op /\ Unlocked

\* The status is no longer the one the request has read.
Overtaken(u) == req[u].from # status

\* syncCalendarEvents: the estimate if there is one, else the planned start.
When(est, plan) == IF est # Null THEN est ELSE plan

\* The transaction commits; the calendar write is still to come.
Commit(u, date) ==
  /\ pc' = [pc EXCEPT ![u] = "committed"]
  /\ req' = [req EXCEPT ![u] = NoRequest]
  /\ due' = [due EXCEPT ![u] = date]
  /\ latest' = u
  /\ UNCHANGED <<event, drift>>

\* insertProgressTx with a from and a to status.
Move(from, to) ==
  /\ status' = to
  /\ trail' = [from |-> from, to |-> to]

----------------------------------------------------------------------------
(* createTask: its trail entry names no status and stands for the default,  *)
(* todo; the calendar is written only if a planned start was given.         *)
CreateTask(u, who, plan, est) ==
  /\ ~Exists
  /\ pc[u] = "idle"
  /\ Move("absent", "todo")
  /\ assignee' = who
  /\ planned' = plan
  /\ estimate' = est
  /\ IF plan # Null THEN Commit(u, When(est, plan))
                    ELSE UNCHANGED <<flight, event, drift>>
  /\ UNCHANGED <<executor, facts, refs, holder, gap>>

(* patchTask: one UPDATE, of any status; also when no date is among the     *)
(* fields the calendar is written again.                                    *)
PatchTask(u, plan, est) ==
  /\ Exists
  /\ Unlocked
  /\ pc[u] = "idle"
  /\ planned' = plan
  /\ estimate' = est
  /\ Commit(u, When(est, plan))
  /\ UNCHANGED <<status, people, facts, refs, trail, holder, gap>>

----------------------------------------------------------------------------
(* TakeTask *)
BeginTake(u, date) ==
  /\ status \in {"todo", "backlog"}
  /\ Read(u, "take", "todo", date)

TakeTask(u) ==
  /\ Reading(u, "take")
  /\ Move(req[u].from, "in_progress")
  /\ assignee' = u
  /\ executor' = u
  /\ estimate' = req[u].date
  /\ started' = TRUE
  /\ gap' = (gap \/ Overtaken(u))
  /\ Commit(u, When(estimate', planned))
  /\ UNCHANGED <<planned, finished, refs, holder>>

(* ReassignTask: what it reads first goes into the trail's assignee columns *)
(* and decides on the e-mail only, so the request is its transaction.       *)
ReassignTask(u, who) ==
  /\ Exists
  /\ Unlocked
  /\ pc[u] = "idle"
  /\ assignee' = who
  /\ UNCHANGED <<status, executor, dates, facts, refs, trail, event, flight, holder, gap, drift>>

(* CancelTask *)

\* Mutant: done work can be cancelled.
BeginCancelDone(u) ==
  /\ status # "cancelled"
  /\ Read(u, "cancel", "todo", Null)

BeginCancel(u) ==
  /\ status \notin {"done", "cancelled"}
  /\ Read(u, "cancel", "todo", Null)

CancelTask(u) ==
  /\ Reading(u, "cancel")
  /\ Move(req[u].from, "cancelled")
  /\ gap' = (gap \/ Overtaken(u))
  /\ Commit(u, Null)
  /\ UNCHANGED <<people, dates, facts, refs, holder>>

(* ReopenTask *)
BeginReopen(u, target, date) ==
  /\ status \in {"done", "cancelled"}
  /\ target = "in_progress" => date # Null
  /\ Read(u, "reopen", target, date)

\* Mutant: started_at is left as it is.
ReopenNotStarted(u) ==
  /\ Reading(u, "reopen") /\ req[u].target = "in_progress"
  /\ Move(req[u].from, "in_progress")
  /\ estimate' = req[u].date
  /\ finished' = FALSE
  /\ Commit(u, When(estimate', planned))
  /\ gap' = FALSE
  /\ UNCHANGED <<people, planned, started, refs, holder>>

\* Mutant: finished_at is left as it is.
ReopenStillFinished(u) ==
  /\ Reading(u, "reopen") /\ req[u].target = "in_progress"
  /\ Move(req[u].from, "in_progress")
  /\ estimate' = req[u].date
  /\ started' = TRUE
  /\ Commit(u, When(estimate', planned))
  /\ gap' = FALSE
  /\ UNCHANGED <<people, planned, finished, refs, holder>>

\* Mutant: the trail says every reopened task was cancelled.
ReopenFromCancelled(u) ==
  /\ Reading(u, "reopen") /\ req[u].target = "in_progress"
  /\ Move("cancelled", "in_progress")
  /\ estimate' = req[u].date
  /\ started' = TRUE
  /\ finished' = FALSE
  /\ Commit(u, When(estimate', planned))
  /\ gap' = FALSE
  /\ UNCHANGED <<people, planned, refs, holder>>

ReopenToWork(u) ==
  /\ Reading(u, "reopen") /\ req[u].target = "in_progress"
  /\ Move(req[u].from, "in_progress")
  /\ estimate' = req[u].date
  /\ started' = TRUE          \* COALESCE(started_at, now())
  /\ finished' = FALSE
  /\ Commit(u, When(estimate', planned))
  /\ gap' = FALSE
  /\ UNCHANGED <<people, planned, refs, holder>>

\* Mutant: no progress entry.
ReopenUnlogged(u) ==
  /\ Reading(u, "reopen") /\ req[u].target = "todo"
  /\ status' = "todo"
  /\ assignee' = NoUser /\ executor' = NoUser
  /\ started' = FALSE /\ finished' = FALSE
  /\ estimate' = Null
  /\ Commit(u, When(estimate', planned))
  /\ gap' = FALSE
  /\ UNCHANGED <<planned, refs, trail, holder>>

ReopenToTodo(u) ==
  /\ Reading(u, "reopen") /\ req[u].target = "todo"
  /\ Move(req[u].from, "todo")
  /\ assignee' = NoUser /\ executor' = NoUser
  /\ started' = FALSE /\ finished' = FALSE
  /\ estimate' = Null
  /\ Commit(u, When(estimate', planned))
  /\ gap' = FALSE
  /\ UNCHANGED <<planned, refs, holder>>

(* MarkDone: the row is locked and its status checked, the references are   *)
(* counted, the row is updated.                                             *)

\* Mutant: a SELECT without FOR UPDATE.
BeginDoneUnlocked(u) ==
  /\ pc[u] = "idle"
  /\ Unlocked
  /\ status = "in_progress"
  /\ pc' = [pc EXCEPT ![u] = "locked"]
  /\ UNCHANGED <<row, refs, trail, event, req, due, latest, holder, gap, drift>>

BeginDone(u) ==
  /\ pc[u] = "idle"
  /\ Unlocked
  /\ status = "in_progress"
  /\ holder' = u
  /\ pc' = [pc EXCEPT ![u] = "locked"]
  /\ UNCHANGED <<row, refs, trail, event, req, due, latest, gap, drift>>

CountOutputs(u) ==
  /\ pc[u] = "locked"
  /\ refs \cap Outputs # {}
  /\ pc' = [pc EXCEPT ![u] = "counted"]
  /\ UNCHANGED <<row, refs, trail, event, req, due, latest, holder, gap, drift>>

MarkDone(u) ==
  /\ pc[u] = "counted"
  /\ Move("in_progress", "done")
  /\ finished' = TRUE
  /\ holder' = NoUser
  /\ Commit(u, Null)
  /\ UNCHANGED <<people, dates, started, refs, gap>>

(* DelayTask: of any status. *)
BeginDelay(u, date) ==
  /\ estimate # Null
  /\ date > estimate
  /\ Read(u, "delay", "todo", date)

\* Mutant: the calendar is given the row as it was read.
DelaySyncsOldRow(u) ==
  /\ Reading(u, "delay")
  /\ estimate' = req[u].date
  /\ Commit(u, When(estimate, planned))
  /\ UNCHANGED <<status, people, planned, facts, refs, trail, holder, gap>>

DelayTask(u) ==
  /\ Reading(u, "delay")
  /\ estimate' = req[u].date
  /\ Commit(u, When(estimate', planned))
  /\ UNCHANGED <<status, people, planned, facts, refs, trail, holder, gap>>

----------------------------------------------------------------------------
(* AddReference and RemoveReference: of any status.                         *)
AddReference(u, r) ==
  /\ Exists
  /\ Unlocked
  /\ pc[u] = "idle"
  /\ refs' = refs \cup {r}
  /\ UNCHANGED <<row, trail, event, flight, holder, gap, drift>>

RemoveReference(u, r) ==
  /\ Exists
  /\ Unlocked
  /\ pc[u] = "idle"
  /\ refs' = refs \ {r}
  /\ UNCHANGED <<row, trail, event, flight, holder, gap, drift>>

----------------------------------------------------------------------------
\* The calendar write of u has ended, with the last commit's row or an older one.
Answered(u) ==
  /\ pc' = [pc EXCEPT ![u] = "idle"]
  /\ req' = [req EXCEPT ![u] = NoRequest]
  /\ due' = [due EXCEPT ![u] = Null]
  /\ latest' = IF latest = u THEN NoUser ELSE latest

(* UpsertTaskEvent or DeleteTaskEvents, with the row the commit returned.   *)
SyncCalendar(u) ==
  /\ pc[u] = "committed"
  /\ event' = due[u]
  /\ drift' = (latest # u)
  /\ Answered(u)
  /\ UNCHANGED <<row, refs, trail, holder, gap>>

\* A request that fails before it commits leaves nothing; a calendar write
\* that fails is logged and forgotten.
Abandon(u) ==
  /\ pc[u] \in {"read", "locked", "counted"} \/ (pc[u] = "committed" /\ SyncMayFail)
  /\ drift' = (drift \/ latest = u)
  /\ holder' = IF holder = u THEN NoUser ELSE holder
  /\ Answered(u)
  /\ UNCHANGED <<row, refs, trail, event, gap>>

----------------------------------------------------------------------------
Next ==
  \E u \in Users :
    \/ \E who \in OptUser, plan \in OptDate, est \in OptDate :
         CreateTask(u, who, plan, est)
    \/ \E plan \in OptDate, est \in OptDate : PatchTask(u, plan, est)
    \/ \E date \in Dates : BeginTake(u, date) \/ BeginDelay(u, date)
    \/ \E who \in Users : ReassignTask(u, who)
    \/ BeginCancel(u)
    \/ \E target \in {"todo", "in_progress"}, date \in OptDate :
         BeginReopen(u, target, date)
    \/ TakeTask(u) \/ CancelTask(u) \/ DelayTask(u)
    \/ ReopenToWork(u) \/ ReopenToTodo(u)
    \/ BeginDone(u) \/ CountOutputs(u) \/ MarkDone(u)
    \/ \E r \in Refs : AddReference(u, r) \/ RemoveReference(u, r)
    \/ SyncCalendar(u)
    \/ Abandon(u)

Spec == Init /\ [][Next]_vars

----------------------------------------------------------------------------
(***************************************************************************)
(* Properties of every interleaving of requests.                           *)
(***************************************************************************)

\* Work in progress was started, done work was finished, and nothing was
\* finished that was not started, although a take, cancel or reopen may act on
\* a status that has changed since it was read (internal/task/http.go:189).
Timeline ==
  /\ status \in {"in_progress", "done"} => started
  /\ status = "done" => finished
  /\ finished => started

\* The trail's last status entry names the status the task has: the entry and
\* the status are written under the same row lock (internal/task/task.go:166).
TrailEndsAtStatus == trail.to = status

\* A task becomes done only out of in_progress and while it references a
\* sample, an experiment or a page (internal/task/task.go:643): the references
\* counted before the update are still there, and no take, cancel or reopen
\* comes in between.
DoneGate ==
  [][status # "done" /\ status' = "done" =>
       status = "in_progress" /\ refs \cap Outputs # {}]_vars

\* A request commits over a status it has not read.
Slips == \E u \in Users : pc[u] = "read" /\ pc'[u] = "committed" /\ Overtaken(u)

\* Only done and cancelled work is reopened, only open work is taken or
\* cancelled (internal/task/task.go:430, 526 and 574), however many requests
\* overlap, unless one commits over a status it has not read: its check then was
\* of another status, and nothing repeats it.
Lifecycle ==
  [][status' # status /\ ~Slips =>
       <<status, status'>> \in
         {<<"absent", "todo">>, <<"todo", "in_progress">>, <<"backlog", "in_progress">>,
          <<"todo", "cancelled">>, <<"backlog", "cancelled">>,
          <<"in_progress", "cancelled">>, <<"in_progress", "done">>,
          <<"done", "todo">>, <<"done", "in_progress">>,
          <<"cancelled", "todo">>, <<"cancelled", "in_progress">>}]_vars

\* Every entry of the trail continues the one before it, but that of a request
\* which commits over a status it has not read.
TrailIsChain ==
  [][trail' # trail /\ ~Slips =>
       trail'.from = trail.to /\ trail'.from # trail'.to]_vars

\* The actual end is set when the task is marked done and stays empty if it is
\* cancelled (internal/task/http.go:191-192), unless a take or a cancellation has
\* committed over a completion it had not read, until the task is next reopened.
FinishedOnlyIfDone == finished => status = "done" \/ gap

\* Once every request has been answered the event of a task is on the task's own
\* date (internal/calendar/calendar.go:272: repeated calls keep exactly one event
\* in sync), unless the calendar write of the last commit was lost, or an earlier
\* commit's landed after it: no other order of requests leaves it elsewhere.
CalendarInSync ==
  (\A u \in Users : pc[u] # "committed") /\ event # Null /\ ~drift =>
    event = When(estimate, planned)
=============================================================================
