---------------------------- MODULE RiskRegister ----------------------------
(***************************************************************************)
(* The risk register of a project (internal/risk) and the gate it puts on  *)
(* activating an iteration (internal/iteration): one iteration, and the    *)
(* risks that belong to it or to the project as a whole.                   *)
(*                                                                         *)
(* Two handlers have a window.  UpdateIteration asks the register whether  *)
(* the iteration is blocked and then updates it by id alone.  The upserts  *)
(* of the AI paths delete the rows their transaction sees and then insert  *)
(* theirs: READ COMMITTED, no lock on the target, so two of them may both  *)
(* delete before either inserts.  Every other request is one statement.    *)
(*                                                                         *)
(* A risk keeps what the gate and the upserts look at.  Likelihood is high *)
(* or not, status open or not; texts, seq, audit and e-mails are left out. *)
(***************************************************************************)
EXTENDS Naturals

CONSTANTS
  Users,    \* callers, each with at most one request in flight
  Ids,      \* the ids of risks: bound, that many rows at a time
  MaxRuns,  \* bound: workflow runs
  Ratings   \* the ratings a run may give

ASSUME RunsAssumption    == MaxRuns \in Nat
ASSUME RatingsAssumption == Ratings \subseteq 1..5

Runs     == 1..MaxRuns
NoRun    == 0                  \* workflow_run_id IS NULL
Targets  == {"iteration", "project"}
Statuses == {"absent", "planned", "active", "done", "blocked"}

Risk == [target: Targets, source: {"human", "ai"}, run: {NoRun} \cup Runs,
         high: BOOLEAN, flagged: BOOLEAN, open: BOOLEAN,
         edited: BOOLEAN]      \* has a person patched the row?

NoRisk == [target |-> "none"]

VARIABLES
  status,  \* iterations.status; "absent" before the insert and after the delete
  gone,    \* was the iteration deleted?
  risks,   \* the table risks
  begun,   \* workflow runs ever begun
  pc,      \* how far each user's request is
  req,     \* the upsert: its target and its run, NoRun for an assessment
  doomed,  \* the rows its transaction has deleted, and holds locked
  beside,  \* history: the runs of its target in flight when a run deleted
  late     \* history: has a run of the iteration committed since the user
           \* asked the gate?

iteration == <<status, gone>>
requests  == <<begun, pc, req, doomed, beside, late>>
vars      == <<iteration, risks, requests>>

TypeOK ==
  /\ status \in Statuses
  /\ gone \in BOOLEAN
  /\ risks \in [Ids -> Risk \cup {NoRisk}]
  /\ begun \in 0..MaxRuns
  /\ pc \in [Users -> {"idle", "checked", "deleted"}]
  /\ req \in [Users -> [target: Targets, run: {NoRun} \cup Runs]]
  /\ doomed \in [Users -> SUBSET Ids]
  /\ beside \in [Runs -> SUBSET Runs]
  /\ late \in [Users -> BOOLEAN]

NoRequest == [target |-> "project", run |-> NoRun]

Init ==
  /\ status = "absent" /\ gone = FALSE
  /\ risks = [i \in Ids |-> NoRisk]
  /\ begun = 0
  /\ pc = [u \in Users |-> "idle"]
  /\ req = [u \in Users |-> NoRequest]
  /\ doomed = [u \in Users |-> {}]
  /\ beside = [run \in Runs |-> {}]
  /\ late = [u \in Users |-> FALSE]

Rows           == {i \in Ids : risks[i] # NoRisk}
Exists(target) == target = "project" \/ status # "absent"   \* the foreign key
Locked         == UNION {doomed[u] : u \in Users}

\* A new row's id: that of no other row, nor of one a transaction still holds.
Fresh(u) == {i \in Ids : /\ i \in Rows => i \in doomed[u]
                         /\ \A v \in Users \ {u} : i \notin doomed[v]}

\* The rows of `removed` go and those of the function `new` come.
Replace(removed, new) ==
  risks' = [i \in Ids |-> IF i \in DOMAIN new THEN new[i]
                         ELSE IF i \in removed THEN NoRisk ELSE risks[i]]

----------------------------------------------------------------------------
(* The iteration. *)

\* The status is the caller's, "active" included: a new iteration has no risks.
CreateIteration(u, s) ==
  /\ pc[u] = "idle"
  /\ status = "absent" /\ ~gone
  /\ status' = s
  /\ UNCHANGED <<gone, risks, requests>>

\* The rows of the iteration go with it (ON DELETE CASCADE), once no
\* transaction holds any of them.
DeleteIteration(u) ==
  /\ pc[u] = "idle"
  /\ status # "absent"
  /\ \A i \in Locked : risks[i] # NoRisk => risks[i].target # "iteration"
  /\ status' = "absent" /\ gone' = TRUE
  /\ risks' = [i \in Ids |-> IF risks[i].target = "iteration" THEN NoRisk
                                                            ELSE risks[i]]
  /\ UNCHANGED requests

\* UpdateIteration to any other status asks nothing.
SetStatus(u, s) ==
  /\ pc[u] = "idle"
  /\ status # "absent"
  /\ s # "active"
  /\ status' = s
  /\ UNCHANGED <<gone, risks, requests>>

\* HasBlockingHighRisk: of the iteration, high, flagged for PI review and open.
HasBlockingHighRisk ==
  \E i \in Rows : /\ risks[i].target = "iteration"
                  /\ risks[i].high /\ risks[i].flagged /\ risks[i].open

\* UpdateIteration to "active": the gate is asked first, in a query of its own.
BeginActivate(u) ==
  /\ pc[u] = "idle"
  /\ status # "absent"
  /\ ~HasBlockingHighRisk
  /\ pc' = [pc EXCEPT ![u] = "checked"]
  /\ UNCHANGED <<iteration, risks, begun, req, doomed, beside, late>>

Activate(u) ==
  /\ pc[u] = "checked"
  /\ status # "absent"
  /\ status' = "active"
  /\ pc' = [pc EXCEPT ![u] = "idle"]
  /\ late' = [late EXCEPT ![u] = FALSE]
  /\ UNCHANGED <<gone, risks, begun, req, doomed, beside>>

----------------------------------------------------------------------------
(* The register: what people do. *)

\* Neither the flag nor the status can be given.
CreateRisk(u, i, target, high) ==
  /\ pc[u] = "idle"
  /\ Exists(target)
  /\ i \in Fresh(u)
  /\ risks' = [risks EXCEPT ![i] =
                 [target |-> target, source |-> "human", run |-> NoRun,
                  high |-> high, flagged |-> FALSE, open |-> TRUE,
                  edited |-> FALSE]]
  /\ UNCHANGED <<iteration, requests>>

\* patchRisk, any of its fields; setPIReview, the flag alone.
PatchRisk(u, i, high, flagged, open) ==
  /\ pc[u] = "idle"
  /\ i \in Rows \ Locked
  /\ risks' = [risks EXCEPT ![i] =
                 [target |-> risks[i].target, source |-> risks[i].source,
                  run |-> risks[i].run,
                  high |-> high, flagged |-> flagged, open |-> open,
                  edited |-> TRUE]]
  /\ UNCHANGED <<iteration, requests>>

DeleteRisk(u, i) ==
  /\ pc[u] = "idle"
  /\ i \in Rows \ Locked
  /\ risks' = [risks EXCEPT ![i] = NoRisk]
  /\ UNCHANGED <<iteration, requests>>

----------------------------------------------------------------------------
(* The register: what the AI paths do. *)

\* Mutant: an assessment forgets that people's rows have no run either.
AnySourceReplaced(target, run) ==
  {i \in Rows : risks[i].target = target /\ (risks[i].run # NoRun) = (run # NoRun)}

\* Mutant: a run replaces its own rows only.
OwnRowsReplaced(target, run) ==
  {i \in Rows : /\ risks[i].target = target /\ risks[i].source = "ai"
                /\ risks[i].run = run}

\* The DELETE of UpsertFromWorkflow (a run) and of UpsertFromAssessment (none).
Replaced(target, run) ==
  {i \in Rows : /\ risks[i].target = target /\ risks[i].source = "ai"
                /\ (risks[i].run # NoRun) = (run # NoRun)}

BeginUpsert(u, target, run) ==
  /\ pc[u] = "idle"
  /\ Exists(target)
  /\ pc' = [pc EXCEPT ![u] = "deleted"]
  /\ req' = [req EXCEPT ![u] = [target |-> target, run |-> run]]
  /\ doomed' = [doomed EXCEPT ![u] = Replaced(target, run)]
  /\ UNCHANGED <<iteration, risks, late>>

\* The runs of a target whose transactions are open.
InFlight(target) == {req[v].run : v \in {w \in Users : /\ pc[w] = "deleted"
                                                       /\ req[w].target = target}}

\* RunWorkflow has finished the steps of a run of its own.
BeginWorkflow(u, target) ==
  /\ begun < MaxRuns
  /\ begun' = begun + 1
  /\ BeginUpsert(u, target, begun')
  /\ beside' = [beside EXCEPT ![begun'] = InFlight(target) \ {NoRun}]

BeginAssessment(u, target) ==
  /\ BeginUpsert(u, target, NoRun)
  /\ UNCHANGED <<begun, beside>>

EndUpsert(u) ==
  /\ pc' = [pc EXCEPT ![u] = "idle"]
  /\ req' = [req EXCEPT ![u] = NoRequest]
  /\ doomed' = [doomed EXCEPT ![u] = {}]
  /\ UNCHANGED <<iteration, begun, beside>>

\* The INSERTs and the commit.  `new` gives each new row's likelihood and flag.
Commit(u, new) ==
  /\ pc[u] = "deleted"
  /\ Exists(req[u].target)
  /\ DOMAIN new \subseteq Fresh(u)
  /\ Replace(doomed[u],
             [i \in DOMAIN new |->
                [target |-> req[u].target, source |-> "ai", run |-> req[u].run,
                 high |-> new[i].high, flagged |-> new[i].flagged,
                 open |-> TRUE, edited |-> FALSE]])
  /\ EndUpsert(u)

\* One row per category rating, or one for the overall rating if there are
\* none: high from 4 up, and then flagged whatever the output's own flag says.

\* Mutant: the output's own flag decides alone.
RatedFlagOnly(ratings, flag) ==
  [i \in DOMAIN ratings |-> [high |-> ratings[i] >= 4, flagged |-> flag]]

Rated(ratings, flag) ==
  [i \in DOMAIN ratings |-> [high    |-> ratings[i] >= 4,
                             flagged |-> flag \/ ratings[i] >= 4]]

CommitWorkflow(u, ratings, flag) ==
  /\ req[u].run # NoRun
  /\ DOMAIN ratings # {}
  /\ Commit(u, Rated(ratings, flag))
  /\ late' = [v \in Users |-> late[v] \/ (pc[v] = "checked" /\ req[u].target = "iteration")]

\* One row per failure mode of the dialogue, which decides on both fields.
CommitAssessment(u, modes) ==
  /\ req[u].run = NoRun
  /\ Commit(u, modes)
  /\ UNCHANGED late

\* A request that fails: nothing of it is committed.
Abandon(u) ==
  /\ pc[u] # "idle"
  /\ EndUpsert(u)
  /\ late' = [late EXCEPT ![u] = FALSE]
  /\ UNCHANGED risks

----------------------------------------------------------------------------
Next ==
  \E u \in Users :
    \/ \E s \in Statuses \ {"absent"} : CreateIteration(u, s) \/ SetStatus(u, s)
    \/ DeleteIteration(u)
    \/ BeginActivate(u) \/ Activate(u)
    \/ \E i \in Ids, target \in Targets, high \in BOOLEAN :
         CreateRisk(u, i, target, high)
    \/ \E i \in Ids, high, flagged, open \in BOOLEAN :
         PatchRisk(u, i, high, flagged, open)
    \/ \E i \in Ids : DeleteRisk(u, i)
    \/ \E target \in Targets :
         BeginWorkflow(u, target) \/ BeginAssessment(u, target)
    \/ \E new \in SUBSET Ids :
         \/ \E ratings \in [new -> Ratings], flag \in BOOLEAN :
              CommitWorkflow(u, ratings, flag)
         \/ \E modes \in [new -> [high: BOOLEAN, flagged: BOOLEAN]] :
              CommitAssessment(u, modes)
    \/ Abandon(u)

Spec == Init /\ [][Next]_vars

----------------------------------------------------------------------------
(***************************************************************************)
(* Properties of every interleaving of requests.                           *)
(***************************************************************************)

\* A row of one path and target that another upsert commits over: its rows are
\* not this upsert's to delete.
NotItsOwn(u) ==
  {i \in Rows : \/ risks[i].target # req[u].target
                \/ risks[i].source = "human"
                \/ (risks[i].run # NoRun) # (req[u].run # NoRun)}

\* An upsert replaces rows of its own path and target only: what people wrote,
\* what the other path found, and the other target's rows are as they were,
\* with every edit made while it ran (internal/risk/risk.go:8-13 and 515-519).
OthersUntouched ==
  [][\A u \in Users : pc[u] = "deleted" /\ pc'[u] = "idle" =>
       \A i \in NotItsOwn(u) : risks'[i] = risks[i]]_vars

\* A target shows the rows of one workflow run (internal/risk/risk.go:10-13),
\* unless the later of two ran its DELETE while the transaction of the earlier
\* was open: rows of runs whose transactions do not overlap never meet.
OneRunPerTarget ==
  \A i, j \in Rows :
    /\ risks[i].target = risks[j].target
    /\ risks[i].run # NoRun /\ risks[i].run < risks[j].run
    => risks[i].run \in beside[risks[j].run]

\* The rule that flags and the gate together: an iteration that becomes active
\* has no high risk of a workflow run that nobody has looked at since, unless the
\* run committed between the gate's query and the update
\* (internal/risk/risk.go:439, internal/iteration/iteration.go:191).
HighRunWasReviewed ==
  [][status # "active" /\ status' = "active" =>
       \/ \A i \in Rows :
            risks[i].target = "iteration" /\ risks[i].run # NoRun /\ risks[i].high
              => risks[i].edited
       \/ \E u \in Users : pc[u] = "checked" /\ pc'[u] = "idle" /\ late[u]]_vars

\* No iteration becomes active while a high risk of it is flagged for PI review
\* and open: "Activating an iteration is **blocked** [...] while it has a HIGH risk
\* flagged for PI review and still `open`" (docs/ARCHITECTURE.md:228-231).  It does
\* not hold: a risk can be flagged, or a run commit, after the gate's query.
SignOffGate ==
  [][status # "active" /\ status' = "active" => ~HasBlockingHighRisk]_vars
=============================================================================
