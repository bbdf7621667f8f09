------------------------- MODULE RiskRegisterProofs -------------------------
(* Theorems about RiskRegister, for any number of users, rows and runs.     *)
EXTENDS RiskRegister, TLAPS

USE RunsAssumption, RatingsAssumption

----------------------------------------------------------------------------
(***************************************************************************)
(* Whatever overlaps.  A transaction holds the rows it has deleted, so no  *)
(* row can take the place of one of them before it ends: those rows remain *)
(* of the upsert's own target and path, or go.                             *)
(***************************************************************************)
Own(r, q) ==
  r.target = q.target /\ r.source = "ai" /\ (r.run # NoRun) = (q.run # NoRun)

HoldsItsOwn ==
  \A u \in Users : \A i \in doomed[u] :
    pc[u] = "deleted" /\ (i \in Rows => Own(risks[i], req[u]))

RiskInv == TypeOK /\ HoldsItsOwn

LEMMA InitInv == Init => RiskInv
<1> SUFFICES ASSUME Init PROVE RiskInv
  OBVIOUS
<1>1. NoRequest \in [target: Targets, run: {NoRun} \cup Runs]
  BY DEF NoRequest, Targets
<1>2. 0 \in 0..MaxRuns /\ "absent" \in Statuses
  BY DEF Statuses
<1>3. risks \in [Ids -> Risk \cup {NoRisk}]
  BY DEF Init
<1>4. /\ pc \in [Users -> {"idle", "checked", "deleted"}]
      /\ req \in [Users -> [target: Targets, run: {NoRun} \cup Runs]]
      /\ doomed \in [Users -> SUBSET Ids]
      /\ beside \in [Runs -> SUBSET Runs] /\ late \in [Users -> BOOLEAN]
  BY <1>1 DEF Init
<1>5. TypeOK
  BY <1>2, <1>3, <1>4 DEF Init, TypeOK
<1>6. QED
  BY <1>5 DEF Init, RiskInv, HoldsItsOwn

LEMMA RiskIsNotNone == \A r \in Risk : r # NoRisk
BY DEF Risk, NoRisk, Targets

\* The row an upsert inserts.
AiRow(q, d) == [target |-> q.target, source |-> "ai", run |-> q.run,
                high |-> d.high, flagged |-> d.flagged,
                open |-> TRUE, edited |-> FALSE]

LEMMA AiRowType ==
  ASSUME NEW q \in [target: Targets, run: {NoRun} \cup Runs],
         NEW d, d.high \in BOOLEAN, d.flagged \in BOOLEAN
  PROVE  AiRow(q, d) \in Risk
BY DEF AiRow, Risk

LEMMA CommitLemma ==
  ASSUME RiskInv, NEW u \in Users, NEW new, DOMAIN new \in SUBSET Ids,
         \A i \in DOMAIN new : new[i].high \in BOOLEAN /\ new[i].flagged \in BOOLEAN,
         Commit(u, new), late' \in [Users -> BOOLEAN]
  PROVE  /\ RiskInv'
         /\ UNCHANGED <<status, gone, begun, beside>>
         /\ pc' = [pc EXCEPT ![u] = "idle"]
         /\ doomed' = [doomed EXCEPT ![u] = {}]
         /\ DOMAIN new \subseteq Fresh(u)
         /\ \A i \in Ids :
              risks'[i] = IF i \in DOMAIN new THEN AiRow(req[u], new[i])
                          ELSE IF i \in doomed[u] THEN NoRisk ELSE risks[i]
<1>1. /\ UNCHANGED <<status, gone, begun, beside>>
      /\ pc' = [pc EXCEPT ![u] = "idle"]
      /\ req' = [req EXCEPT ![u] = NoRequest]
      /\ doomed' = [doomed EXCEPT ![u] = {}]
  BY DEF Commit, EndUpsert, iteration
<1>2. risks' = [i \in Ids |-> IF i \in DOMAIN new THEN AiRow(req[u], new[i])
                              ELSE IF i \in doomed[u] THEN NoRisk ELSE risks[i]]
  BY DEF Commit, Replace, AiRow
<1>3. \A i \in DOMAIN new : AiRow(req[u], new[i]) \in Risk
  BY AiRowType DEF RiskInv, TypeOK
<1>4. risks' \in [Ids -> Risk \cup {NoRisk}]
  BY <1>2, <1>3 DEF RiskInv, TypeOK
<1>5. NoRequest \in [target: Targets, run: {NoRun} \cup Runs]
  BY DEF NoRequest, Targets
<1>6. TypeOK'
  BY <1>1, <1>4, <1>5 DEF RiskInv, TypeOK
<1>7. DOMAIN new \subseteq Fresh(u)
  BY DEF Commit
<1>8. ASSUME NEW v \in Users, NEW i \in doomed'[v]
      PROVE  pc'[v] = "deleted" /\ (i \in Rows' => Own(risks'[i], req'[v]))
  <2>1. v # u /\ i \in doomed[v] /\ i \in Ids
    BY <1>1, <1>8 DEF RiskInv, TypeOK
  <2>2. pc'[v] = "deleted" /\ req'[v] = req[v]
    BY <1>1, <2>1 DEF RiskInv, TypeOK, HoldsItsOwn
  <2>3. i \notin DOMAIN new
    BY <1>7, <2>1 DEF Fresh
  <2>4. risks'[i] = NoRisk \/ risks'[i] = risks[i]
    BY <1>2, <2>1, <2>3
  <2>5. QED
    BY <2>1, <2>2, <2>4 DEF RiskInv, HoldsItsOwn, Rows
<1>9. HoldsItsOwn'
  BY <1>8 DEF HoldsItsOwn
<1>10. QED
  BY <1>1, <1>2, <1>6, <1>7, <1>9 DEF RiskInv

\* What the outcome of a run, or of an assessment, gives its rows.
LEMMA RatedType ==
  ASSUME NEW new \in SUBSET Ids, NEW ratings \in [new -> Ratings],
         NEW flag \in BOOLEAN
  PROVE  /\ DOMAIN Rated(ratings, flag) = new
         /\ \A i \in new : /\ Rated(ratings, flag)[i].high \in BOOLEAN
                           /\ Rated(ratings, flag)[i].flagged \in BOOLEAN
BY DEF Rated

LEMMA RatedFlags ==
  ASSUME NEW new \in SUBSET Ids, NEW ratings \in [new -> Ratings],
         NEW flag \in BOOLEAN, NEW i \in new, Rated(ratings, flag)[i].high
  PROVE  Rated(ratings, flag)[i].flagged
BY DEF Rated

\* A change of the rows alone that makes no held row another's.
LEMMA RowsLemma ==
  ASSUME RiskInv, UNCHANGED requests,
         status' \in Statuses, gone' \in BOOLEAN,
         risks' \in [Ids -> Risk \cup {NoRisk}],
         \A i \in Locked : risks'[i] \in {NoRisk, risks[i]}
  PROVE  RiskInv'
<1>1. TypeOK'
  BY DEF RiskInv, TypeOK, requests
<1>2. ASSUME NEW v \in Users, NEW i \in doomed[v]
      PROVE  pc[v] = "deleted" /\ (i \in Rows' => Own(risks'[i], req[v]))
  <2>1. i \in Locked /\ i \in Ids
    BY <1>2 DEF Locked, RiskInv, TypeOK
  <2>2. QED
    BY <1>2, <2>1 DEF RiskInv, HoldsItsOwn, Rows
<1>3. HoldsItsOwn'
  BY <1>2 DEF HoldsItsOwn, requests
<1>4. QED
  BY <1>1, <1>3 DEF RiskInv

\* A user at rest holds no row, so a fresh id is nobody's.
LEMMA FreshLemma ==
  ASSUME RiskInv, NEW u \in Users, pc[u] # "deleted", NEW i \in Fresh(u)
  PROVE  i \notin Rows /\ i \notin Locked
BY DEF RiskInv, HoldsItsOwn, Fresh, Locked, Rows

LEMMA BeginUpsertLemma ==
  ASSUME RiskInv, NEW u \in Users, NEW target \in Targets,
         NEW run \in {NoRun} \cup Runs, BeginUpsert(u, target, run),
         begun' \in 0..MaxRuns, beside' \in [Runs -> SUBSET Runs]
  PROVE  RiskInv'
<1>1. /\ UNCHANGED <<status, gone, risks, late>>
      /\ pc' = [pc EXCEPT ![u] = "deleted"]
      /\ req' = [req EXCEPT ![u] = [target |-> target, run |-> run]]
      /\ doomed' = [doomed EXCEPT ![u] = Replaced(target, run)]
  BY DEF BeginUpsert, iteration
<1>2. TypeOK'
  BY <1>1 DEF RiskInv, TypeOK, Replaced, Rows
<1>3. ASSUME NEW v \in Users, NEW i \in doomed'[v]
      PROVE  pc'[v] = "deleted" /\ (i \in Rows' => Own(risks'[i], req'[v]))
  <2>1. CASE v = u
    BY <1>1, <1>3, <2>1 DEF RiskInv, TypeOK, Replaced, Own, Rows
  <2>2. CASE v # u
    BY <1>1, <1>3, <2>2 DEF RiskInv, TypeOK, HoldsItsOwn, Rows
  <2>3. QED
    BY <2>1, <2>2
<1>4. QED
  BY <1>2, <1>3 DEF RiskInv, HoldsItsOwn

LEMMA NextInv == RiskInv /\ [Next]_vars => RiskInv'
<1> SUFFICES ASSUME RiskInv, [Next]_vars PROVE RiskInv'
  OBVIOUS
<1>1. ASSUME NEW u \in Users, NEW s \in Statuses \ {"absent"},
             CreateIteration(u, s) \/ SetStatus(u, s)
      PROVE  RiskInv'
  <2>1. /\ status' \in Statuses /\ gone' \in BOOLEAN
        /\ UNCHANGED risks /\ UNCHANGED requests
    BY <1>1 DEF CreateIteration, SetStatus, RiskInv, TypeOK
  <2>2. QED
    BY <2>1, RowsLemma DEF RiskInv, TypeOK
<1>2. ASSUME NEW u \in Users, DeleteIteration(u)
      PROVE  RiskInv'
  <2>1. /\ status' \in Statuses /\ gone' \in BOOLEAN /\ UNCHANGED requests
        /\ \A i \in Ids : risks'[i] \in {NoRisk, risks[i]}
        /\ risks' \in [Ids -> Risk \cup {NoRisk}]
    BY <1>2 DEF DeleteIteration, RiskInv, TypeOK, Statuses
  <2>2. Locked \subseteq Ids
    BY DEF Locked, RiskInv, TypeOK
  <2>3. QED
    BY <2>1, <2>2, RowsLemma
<1>3. ASSUME NEW u \in Users, BeginActivate(u) \/ Activate(u) \/ Abandon(u)
      PROVE  RiskInv'
  <2>1. /\ pc' \in [Users -> {"idle", "checked", "deleted"}]
        /\ req' \in [Users -> [target: Targets, run: {NoRun} \cup Runs]]
        /\ status' \in Statuses /\ late' \in [Users -> BOOLEAN]
        /\ UNCHANGED <<gone, risks, begun, beside>>
    <3>1. NoRequest \in [target: Targets, run: {NoRun} \cup Runs]
      BY DEF NoRequest, Targets
    <3>2. CASE BeginActivate(u)
      BY <3>2 DEF BeginActivate, iteration, RiskInv, TypeOK
    <3>3. CASE Activate(u)
      BY <3>3 DEF Activate, RiskInv, TypeOK, Statuses
    <3>4. CASE Abandon(u)
      BY <3>1, <3>4 DEF Abandon, EndUpsert, iteration, RiskInv, TypeOK
    <3>5. QED
      BY <1>3, <3>2, <3>3, <3>4
  <2>2. \A v \in Users : doomed'[v] # {} =>
           doomed'[v] = doomed[v] /\ pc'[v] = pc[v] /\ req'[v] = req[v]
    BY <1>3 DEF BeginActivate, Activate, Abandon, EndUpsert, RiskInv, TypeOK,
       HoldsItsOwn
  <2>3. doomed' \in [Users -> SUBSET Ids]
    BY <1>3 DEF BeginActivate, Activate, Abandon, EndUpsert, RiskInv, TypeOK
  <2>4. TypeOK'
    BY <2>1, <2>3 DEF RiskInv, TypeOK
  <2>5. HoldsItsOwn'
    BY <2>1, <2>2 DEF RiskInv, HoldsItsOwn, Rows
  <2>6. QED
    BY <2>4, <2>5 DEF RiskInv
<1>4. ASSUME NEW u \in Users, NEW i \in Ids, NEW target \in Targets,
             NEW high \in BOOLEAN, CreateRisk(u, i, target, high)
      PROVE  RiskInv'
  <2> DEFINE r == [target |-> target, source |-> "human", run |-> NoRun,
                   high |-> high, flagged |-> FALSE, open |-> TRUE,
                   edited |-> FALSE]
  <2>1. r \in Risk
    BY DEF Risk
  <2>2. /\ risks' = [risks EXCEPT ![i] = r] /\ UNCHANGED requests
        /\ status' = status /\ gone' = gone
    BY <1>4 DEF CreateRisk, iteration
  <2>3. i \notin Locked
    BY <1>4, FreshLemma DEF CreateRisk
  <2>4. Locked \subseteq Ids
    BY DEF Locked, RiskInv, TypeOK
  <2>5. /\ risks' \in [Ids -> Risk \cup {NoRisk}]
        /\ \A j \in Locked : risks'[j] = risks[j]
    BY <2>1, <2>2, <2>3, <2>4 DEF RiskInv, TypeOK
  <2>6. QED
    BY <2>2, <2>5, RowsLemma DEF RiskInv, TypeOK
<1>5. ASSUME NEW u \in Users, NEW i \in Ids, NEW high \in BOOLEAN,
             NEW flagged \in BOOLEAN, NEW open \in BOOLEAN,
             PatchRisk(u, i, high, flagged, open)
      PROVE  RiskInv'
  <2> DEFINE r == [target |-> risks[i].target, source |-> risks[i].source,
                   run |-> risks[i].run,
                   high |-> high, flagged |-> flagged, open |-> open,
                   edited |-> TRUE]
  <2>1. r \in Risk
    BY <1>5 DEF PatchRisk, Rows, RiskInv, TypeOK, Risk
  <2>2. /\ risks' = [risks EXCEPT ![i] = r] /\ UNCHANGED requests
        /\ status' = status /\ gone' = gone /\ i \notin Locked
    BY <1>5 DEF PatchRisk, iteration
  <2>3. Locked \subseteq Ids
    BY DEF Locked, RiskInv, TypeOK
  <2>4. /\ risks' \in [Ids -> Risk \cup {NoRisk}]
        /\ \A j \in Locked : risks'[j] = risks[j]
    BY <2>1, <2>2, <2>3 DEF RiskInv, TypeOK
  <2>5. QED
    BY <2>2, <2>4, RowsLemma DEF RiskInv, TypeOK
<1>6. ASSUME NEW u \in Users, NEW i \in Ids, DeleteRisk(u, i)
      PROVE  RiskInv'
  <2>1. /\ risks' = [risks EXCEPT ![i] = NoRisk] /\ UNCHANGED requests
        /\ status' = status /\ gone' = gone
    BY <1>6 DEF DeleteRisk, iteration
  <2>2. Locked \subseteq Ids
    BY DEF Locked, RiskInv, TypeOK
  <2>3. /\ risks' \in [Ids -> Risk \cup {NoRisk}]
        /\ \A j \in Locked : risks'[j] \in {NoRisk, risks[j]}
    BY <2>1, <2>2 DEF RiskInv, TypeOK
  <2>4. QED
    BY <2>1, <2>3, RowsLemma DEF RiskInv, TypeOK
<1>7. ASSUME NEW u \in Users, NEW target \in Targets,
             BeginWorkflow(u, target) \/ BeginAssessment(u, target)
      PROVE  RiskInv'
  <2>1. CASE BeginWorkflow(u, target)
    <3>1. begun' \in Runs /\ BeginUpsert(u, target, begun')
      BY <2>1 DEF BeginWorkflow, Runs, RiskInv, TypeOK
    <3>2. beside' \in [Runs -> SUBSET Runs]
      <4>1. InFlight(target) \ {NoRun} \subseteq Runs
        BY DEF InFlight, RiskInv, TypeOK
      <4>2. QED
        BY <2>1, <4>1 DEF BeginWorkflow, RiskInv, TypeOK
    <3>3. QED
      BY <3>1, <3>2, BeginUpsertLemma DEF Runs
  <2>2. CASE BeginAssessment(u, target)
    BY <2>2, BeginUpsertLemma DEF BeginAssessment, RiskInv, TypeOK
  <2>3. QED
    BY <1>7, <2>1, <2>2
<1>8. ASSUME NEW u \in Users, NEW new \in SUBSET Ids,
             NEW ratings \in [new -> Ratings], NEW flag \in BOOLEAN,
             CommitWorkflow(u, ratings, flag)
      PROVE  RiskInv'
  <2>1. Commit(u, Rated(ratings, flag)) /\ late' \in [Users -> BOOLEAN]
    BY <1>8 DEF CommitWorkflow, RiskInv, TypeOK
  <2>2. QED
    BY <2>1, RatedType, CommitLemma
<1>9. ASSUME NEW u \in Users, NEW new \in SUBSET Ids,
             NEW modes \in [new -> [high: BOOLEAN, flagged: BOOLEAN]],
             CommitAssessment(u, modes)
      PROVE  RiskInv'
  <2>1. Commit(u, modes) /\ late' \in [Users -> BOOLEAN]
    BY <1>9 DEF CommitAssessment, RiskInv, TypeOK
  <2>2. QED
    BY <2>1, CommitLemma
<1>10. CASE UNCHANGED vars
  <2>1. UNCHANGED requests /\ UNCHANGED risks /\ status' = status /\ gone' = gone
    BY <1>10 DEF vars, iteration
  <2>2. QED
    BY <2>1, RowsLemma DEF RiskInv, TypeOK
<1>11. QED
  BY <1>1, <1>2, <1>3, <1>4, <1>5, <1>6, <1>7, <1>8, <1>9, <1>10 DEF Next

\* Every row a transaction holds is its own to replace.
THEOREM RiskSafety == Spec => []RiskInv
BY InitInv, NextInv, PTL DEF Spec

\* Type correctness.
THEOREM TypeCorrect == Spec => []TypeOK
<1>1. RiskInv => TypeOK
  BY DEF RiskInv
<1>2. QED
  BY <1>1, RiskSafety, PTL

LEMMA NextOthers ==
  ASSUME RiskInv, [Next]_vars, NEW u \in Users, NEW i \in NotItsOwn(u),
         pc[u] = "deleted", pc'[u] = "idle"
  PROVE  risks'[i] = risks[i]
<1>1. ASSUME NEW new, DOMAIN new \in SUBSET Ids,
             \A j \in DOMAIN new :
               new[j].high \in BOOLEAN /\ new[j].flagged \in BOOLEAN,
             Commit(u, new), late' \in [Users -> BOOLEAN]
      PROVE  risks'[i] = risks[i]
  <2>1. i \in Rows /\ ~Own(risks[i], req[u]) /\ i \in Ids
    BY DEF NotItsOwn, Own, Rows, RiskInv, TypeOK, Risk
  <2>2. i \notin doomed[u]
    BY <2>1 DEF RiskInv, HoldsItsOwn
  <2>3. i \notin Fresh(u)
    BY <2>1, <2>2 DEF Fresh
  <2>4. QED
    BY <1>1, <2>1, <2>2, <2>3, CommitLemma
<1>2. ASSUME NEW v \in Users, NEW new, Commit(v, new)
      PROVE  v = u
  BY <1>2 DEF Commit, EndUpsert, RiskInv, TypeOK
<1>3. ASSUME NEW v \in Users, NEW new \in SUBSET Ids,
             NEW ratings \in [new -> Ratings], NEW flag \in BOOLEAN,
             CommitWorkflow(v, ratings, flag)
      PROVE  risks'[i] = risks[i]
  <2>1. Commit(v, Rated(ratings, flag)) /\ late' \in [Users -> BOOLEAN]
    BY <1>3 DEF CommitWorkflow, RiskInv, TypeOK
  <2>2. v = u
    BY <2>1, <1>2
  <2>3. QED
    BY <2>1, <2>2, <1>1, RatedType
<1>4. ASSUME NEW v \in Users, NEW new \in SUBSET Ids,
             NEW modes \in [new -> [high: BOOLEAN, flagged: BOOLEAN]],
             CommitAssessment(v, modes)
      PROVE  risks'[i] = risks[i]
  <2>1. Commit(v, modes) /\ late' \in [Users -> BOOLEAN]
    BY <1>4 DEF CommitAssessment, RiskInv, TypeOK
  <2>2. v = u
    BY <2>1, <1>2
  <2>3. QED
    BY <2>1, <2>2, <1>1
<1>5. ASSUME NEW v \in Users,
             \/ BeginActivate(v) \/ Activate(v) \/ Abandon(v)
             \/ \E target \in Targets :
                  BeginWorkflow(v, target) \/ BeginAssessment(v, target)
      PROVE  UNCHANGED risks
  BY <1>5 DEF BeginActivate, Activate, Abandon, BeginWorkflow, BeginAssessment,
     BeginUpsert
<1>6. ASSUME NEW v \in Users,
             \/ \E s \in Statuses \ {"absent"} :
                  CreateIteration(v, s) \/ SetStatus(v, s)
             \/ DeleteIteration(v)
             \/ \E j \in Ids, target \in Targets, high \in BOOLEAN :
                  CreateRisk(v, j, target, high)
             \/ \E j \in Ids, high, flagged, open \in BOOLEAN :
                  PatchRisk(v, j, high, flagged, open)
             \/ \E j \in Ids : DeleteRisk(v, j)
      PROVE  FALSE
  <2>1. UNCHANGED requests
    BY <1>6 DEF CreateIteration, SetStatus, DeleteIteration, CreateRisk,
       PatchRisk, DeleteRisk
  <2>2. QED
    BY <2>1 DEF requests
<1>7. CASE UNCHANGED vars
  BY <1>7 DEF vars
<1>8. QED
  BY <1>3, <1>4, <1>5, <1>6, <1>7 DEF Next

\* An upsert replaces rows of its own path and target only, whatever was
\* edited, inserted or deleted while it ran.
THEOREM OthersUntouchedHolds == Spec => OthersUntouched
<1>1. RiskInv /\ [Next]_vars =>
        [\A u \in Users : pc[u] = "deleted" /\ pc'[u] = "idle" =>
           \A i \in NotItsOwn(u) : risks'[i] = risks[i]]_vars
  BY NextOthers
<1>2. QED
  BY <1>1, RiskSafety, PTL DEF Spec, OthersUntouched

----------------------------------------------------------------------------
(***************************************************************************)
(* Workflow runs.  What a run's DELETE leaves behind, and what comes after *)
(* it, belongs to runs whose transactions were open at the same time; and  *)
(* what is high waits for the PI until a person has edited it.             *)
(***************************************************************************)
RunRow(i) == i \in Rows /\ risks[i].run # NoRun

\* The transactions of two runs of one target overlapped.
Met(r, s) == /\ r # s
             /\ r < s => r \in beside[s]
             /\ s < r => s \in beside[r]

NumbersBegun == /\ \A u \in Users : req[u].run <= begun
                /\ \A i \in Ids : RunRow(i) => risks[i].run <= begun

RunsAreAi == \A i \in Ids : RunRow(i) => risks[i].source = "ai"

\* The rule that flags.
HighRunsWait ==
  \A i \in Ids : RunRow(i) /\ risks[i].high /\ ~risks[i].edited =>
    risks[i].flagged /\ risks[i].open

\* What the gate let through, as long as no run has come in since.
GateKnew ==
  \A u \in Users : pc[u] = "checked" /\ ~late[u] =>
    \A i \in Ids : RunRow(i) /\ risks[i].target = "iteration" /\ risks[i].high
                     => risks[i].edited

OpenRun(u) == pc[u] = "deleted" /\ req[u].run # NoRun

FlightsMeet ==
  \A u, v \in Users :
    u # v /\ OpenRun(u) /\ OpenRun(v) /\ req[u].target = req[v].target
      => Met(req[u].run, req[v].run)

LeftRowsMeet ==
  \A u \in Users : OpenRun(u) =>
    \A i \in Ids : RunRow(i) /\ risks[i].target = req[u].target /\ i \notin doomed[u]
                     => Met(risks[i].run, req[u].run)

RowsMeet ==
  \A i, j \in Ids : RunRow(i) /\ RunRow(j) /\ risks[i].target = risks[j].target
    => risks[i].run = risks[j].run \/ Met(risks[i].run, risks[j].run)

RunFacts == /\ NumbersBegun /\ RunsAreAi /\ HighRunsWait /\ GateKnew
            /\ FlightsMeet /\ LeftRowsMeet /\ RowsMeet

RunInv == RiskInv /\ RunFacts

LEMMA RunInit == Init => RunInv
<1> SUFFICES ASSUME Init PROVE RunInv
  OBVIOUS
<1>1. Rows = {}
  BY DEF Init, Rows
<1>2. \A u \in Users : pc[u] = "idle" /\ req[u].run = 0
  BY DEF Init, NoRequest, NoRun
<1>3. begun = 0
  BY DEF Init
<1>4. NumbersBegun
  BY <1>1, <1>2, <1>3 DEF NumbersBegun, RunRow
<1>5. RunsAreAi /\ HighRunsWait /\ GateKnew /\ FlightsMeet /\ LeftRowsMeet /\ RowsMeet
  BY <1>1, <1>2 DEF RunsAreAi, HighRunsWait, GateKnew, FlightsMeet, LeftRowsMeet,
     RowsMeet, RunRow, OpenRun
<1>6. QED
  BY <1>4, <1>5, InitInv DEF RunInv, RunFacts

LEMMA RunTypes ==
  ASSUME RunInv
  PROVE  /\ begun \in Nat
         /\ \A u \in Users : req[u].run \in Nat
         /\ \A i \in Ids : RunRow(i) => risks[i].run \in Nat
BY DEF RunInv, RiskInv, TypeOK, RunRow, Rows, Risk, Runs, NoRun

\* A step that adds no row of a run.
LEMMA NoNewRunRow ==
  ASSUME RunInv, UNCHANGED requests,
         \A i \in Ids : RunRow(i)' =>
           /\ RunRow(i)
           /\ risks'[i].target = risks[i].target
           /\ risks'[i].run = risks[i].run
           /\ risks'[i].source = risks[i].source
           /\ risks'[i] = risks[i] \/ risks'[i].edited
  PROVE  RunFacts'
<1>1. \A r, t : Met(r, t)' = Met(r, t)
  BY DEF Met, requests
<1>2. \A u \in Users : OpenRun(u)' = OpenRun(u)
  BY DEF OpenRun, requests
<1>3. NumbersBegun' /\ RunsAreAi' /\ HighRunsWait'
  BY DEF RunInv, RunFacts, NumbersBegun, RunsAreAi, HighRunsWait, requests
<1>4. GateKnew'
  BY DEF RunInv, RunFacts, GateKnew, requests
<1>5. FlightsMeet' /\ LeftRowsMeet' /\ RowsMeet'
  BY <1>1, <1>2 DEF RunInv, RunFacts, FlightsMeet, LeftRowsMeet, RowsMeet, requests
<1>6. QED
  BY <1>3, <1>4, <1>5 DEF RunFacts

\* A request ends without a row, or passes the gate.
LEMMA NoUpsert ==
  ASSUME RunInv, NEW u \in Users, BeginActivate(u) \/ Activate(u) \/ Abandon(u)
  PROVE  RunFacts'
<1>1. /\ UNCHANGED <<risks, begun, beside>>
      /\ pc'[u] # "deleted" /\ req'[u].run \in {req[u].run, NoRun}
      /\ \A v \in Users \ {u} : /\ pc'[v] = pc[v] /\ req'[v] = req[v]
                                /\ doomed'[v] = doomed[v] /\ late'[v] = late[v]
  BY DEF BeginActivate, Activate, Abandon, EndUpsert, NoRequest, RunInv, RiskInv, TypeOK
<1>2. \A r, t : Met(r, t)' = Met(r, t)
  BY <1>1 DEF Met
<1>3. \A i \in Ids : RunRow(i)' = RunRow(i)
  BY <1>1 DEF RunRow, Rows
<1>4. NumbersBegun' /\ RunsAreAi' /\ HighRunsWait' /\ RowsMeet'
  <2>1. NumbersBegun'
    BY <1>1, <1>3, RunTypes DEF RunInv, RunFacts, NumbersBegun, NoRun
  <2>2. QED
    BY <1>1, <1>2, <1>3, <2>1 DEF RunInv, RunFacts, RunsAreAi, HighRunsWait, RowsMeet
<1>5. FlightsMeet' /\ LeftRowsMeet'
  BY <1>1, <1>2, <1>3 DEF RunInv, RunFacts, FlightsMeet, LeftRowsMeet, OpenRun
<1>6. GateKnew'
  <2>1. CASE BeginActivate(u)
    <3>1. ~HasBlockingHighRisk
      BY <2>1 DEF BeginActivate
    <3>2. \A i \in Ids : RunRow(i) /\ risks[i].target = "iteration" /\ risks[i].high
                           => risks[i].edited
      BY <3>1 DEF RunInv, RunFacts, HighRunsWait, HasBlockingHighRisk, RunRow
    <3>3. QED
      BY <1>1, <1>3, <3>2 DEF GateKnew
  <2>2. CASE Activate(u) \/ Abandon(u)
    <3>1. pc'[u] = "idle"
      BY <2>2 DEF Activate, Abandon, EndUpsert, RunInv, RiskInv, TypeOK
    <3>2. QED
      BY <1>1, <1>3, <3>1 DEF RunInv, RunFacts, GateKnew
  <2>3. QED
    BY <2>1, <2>2
<1>7. QED
  BY <1>4, <1>5, <1>6 DEF RunFacts

\* A run deletes: what it leaves of its target is not there.
LEMMA RunBegins ==
  ASSUME RunInv, NEW u \in Users, NEW target \in Targets, BeginWorkflow(u, target)
  PROVE  RunFacts'
<1> DEFINE run == begun + 1
           MetNow(r, t) == /\ r # t
                           /\ r < t => r \in beside'[t]
                           /\ t < r => t \in beside'[r]
<1>1. /\ begun' = run /\ run \in Runs /\ begun \in Nat
      /\ UNCHANGED <<risks, late>>
      /\ pc[u] = "idle" /\ pc'[u] = "deleted"
      /\ req'[u].target = target /\ req'[u].run = run
      /\ doomed'[u] = Replaced(target, run)
      /\ \A v \in Users \ {u} : /\ pc'[v] = pc[v] /\ req'[v] = req[v]
                                /\ doomed'[v] = doomed[v]
      /\ beside'[run] = InFlight(target) \ {NoRun}
      /\ \A r \in Runs \ {run} : beside'[r] = beside[r]
  BY RunTypes DEF BeginWorkflow, BeginUpsert, RunInv, RiskInv, TypeOK, Runs
<1>2. run # NoRun /\ run \in Nat
  BY <1>1 DEF NoRun
<1>3. \A i \in Ids : RunRow(i)' = RunRow(i)
  BY <1>1 DEF RunRow, Rows
<1>4. \A v \in Users : req[v].run \in 0..begun
  BY <1>1, RunTypes DEF RunInv, RunFacts, NumbersBegun
<1>5. \A i \in Ids : RunRow(i) => risks[i].run \in 0..begun
  BY <1>1, RunTypes DEF RunInv, RunFacts, NumbersBegun
<1>6. \A r, t \in 1..begun : Met(r, t) => MetNow(r, t)
  BY <1>1 DEF Met, Runs, RunInv, RiskInv, TypeOK
<1> HIDE DEF MetNow
<1>7. NumbersBegun' /\ RunsAreAi' /\ HighRunsWait'
  <2>1. \A v \in Users : req'[v].run <= begun'
    BY <1>1, <1>2, <1>4
  <2>2. \A i \in Ids : RunRow(i)' => risks'[i].run <= begun'
    BY <1>1, <1>3, <1>5
  <2>3. RunsAreAi' /\ HighRunsWait'
    BY <1>1, <1>3 DEF RunInv, RunFacts, RunsAreAi, HighRunsWait
  <2>4. QED
    BY <2>1, <2>2, <2>3 DEF NumbersBegun
<1>8. GateKnew'
  BY <1>1, <1>3 DEF RunInv, RunFacts, GateKnew
<1>9. FlightsMeet'
  <2>1. ASSUME NEW v \in Users \ {u}, OpenRun(v), req[v].target = target
        PROVE  MetNow(req[v].run, run) /\ MetNow(run, req[v].run)
    <3>1. req[v].run \in beside'[run]
      BY <1>1, <2>1 DEF OpenRun, InFlight
    <3>2. req[v].run < run /\ req[v].run \in Nat
      BY <1>1, <1>4
    <3>3. QED
      BY <1>1, <1>2, <3>1, <3>2 DEF MetNow
  <2>2. ASSUME NEW v \in Users \ {u}, NEW w \in Users \ {u}, v # w,
               OpenRun(v), OpenRun(w), req[v].target = req[w].target
        PROVE  MetNow(req[v].run, req[w].run)
    <3>1. Met(req[v].run, req[w].run)
      BY <2>2 DEF RunInv, RunFacts, FlightsMeet
    <3>2. req[v].run \in 1..begun /\ req[w].run \in 1..begun
      BY <1>1, <1>4, <2>2 DEF OpenRun, NoRun
    <3>3. QED
      BY <1>6, <3>1, <3>2
  <2>3. ASSUME NEW v \in Users, NEW w \in Users, v # w, OpenRun(v)', OpenRun(w)',
               req'[v].target = req'[w].target
        PROVE  MetNow(req'[v].run, req'[w].run)
    <3>1. CASE v = u
      BY <1>1, <2>1, <2>3, <3>1 DEF OpenRun
    <3>2. CASE w = u
      BY <1>1, <2>1, <2>3, <3>2 DEF OpenRun
    <3>3. CASE v # u /\ w # u
      BY <1>1, <2>2, <2>3, <3>3 DEF OpenRun
    <3>4. QED
      BY <3>1, <3>2, <3>3
  <2>4. QED
    BY <2>3 DEF FlightsMeet, Met, MetNow
<1>10. LeftRowsMeet'
  <2>1. ASSUME NEW i \in Ids, RunRow(i), risks[i].target = target
        PROVE  i \in doomed'[u]
    BY <1>1, <1>2, <2>1 DEF Replaced, RunRow, RunInv, RunFacts, RunsAreAi
  <2>2. ASSUME NEW v \in Users \ {u}, OpenRun(v), NEW i \in Ids, RunRow(i),
               risks[i].target = req[v].target, i \notin doomed[v]
        PROVE  MetNow(risks[i].run, req[v].run)
    <3>1. Met(risks[i].run, req[v].run)
      BY <2>2 DEF RunInv, RunFacts, LeftRowsMeet
    <3>2. risks[i].run \in 1..begun /\ req[v].run \in 1..begun
      BY <1>1, <1>4, <1>5, <2>2 DEF OpenRun, RunRow, NoRun
    <3>3. QED
      BY <1>6, <3>1, <3>2
  <2>3. QED
    BY <1>1, <1>3, <2>1, <2>2 DEF LeftRowsMeet, OpenRun, Met, MetNow
<1>11. RowsMeet'
  <2>1. ASSUME NEW i \in Ids, NEW j \in Ids, RunRow(i), RunRow(j),
               risks[i].target = risks[j].target
        PROVE  risks[i].run = risks[j].run \/ MetNow(risks[i].run, risks[j].run)
    <3>1. risks[i].run \in 1..begun /\ risks[j].run \in 1..begun
      BY <1>1, <1>5, <2>1 DEF RunRow, NoRun
    <3>2. QED
      BY <1>6, <2>1, <3>1 DEF RunInv, RunFacts, RowsMeet
  <2>2. QED
    BY <1>1, <1>3, <2>1 DEF RowsMeet, Met, MetNow
<1>12. QED
  BY <1>7, <1>8, <1>9, <1>10, <1>11 DEF RunFacts

LEMMA AssessmentBegins ==
  ASSUME RunInv, NEW u \in Users, NEW target \in Targets, BeginAssessment(u, target)
  PROVE  RunFacts'
<1>1. /\ UNCHANGED <<risks, late, begun, beside>>
      /\ pc[u] = "idle" /\ pc'[u] = "deleted" /\ req'[u].run = NoRun
      /\ \A v \in Users \ {u} : /\ pc'[v] = pc[v] /\ req'[v] = req[v]
                                /\ doomed'[v] = doomed[v]
  BY DEF BeginAssessment, BeginUpsert, RunInv, RiskInv, TypeOK
<1>2. \A r, t : Met(r, t)' = Met(r, t)
  BY <1>1 DEF Met
<1>3. \A i \in Ids : RunRow(i)' = RunRow(i)
  BY <1>1 DEF RunRow, Rows
<1>4. NumbersBegun'
  BY <1>1, <1>3, RunTypes DEF RunInv, RunFacts, NumbersBegun, NoRun
<1>5. RunsAreAi' /\ HighRunsWait' /\ RowsMeet' /\ GateKnew'
  BY <1>1, <1>2, <1>3 DEF RunInv, RunFacts, RunsAreAi, HighRunsWait, RowsMeet, GateKnew
<1>6. FlightsMeet' /\ LeftRowsMeet'
  BY <1>1, <1>2, <1>3 DEF RunInv, RunFacts, FlightsMeet, LeftRowsMeet, OpenRun
<1>7. QED
  BY <1>4, <1>5, <1>6 DEF RunFacts

\* An upsert commits: its rows are of its own run and target, and what stays of
\* a run's target is what its DELETE left.
LEMMA UpsertCommits ==
  ASSUME RunInv, NEW u \in Users, NEW new, DOMAIN new \in SUBSET Ids,
         \A i \in DOMAIN new :
           /\ new[i].high \in BOOLEAN /\ new[i].flagged \in BOOLEAN
           /\ req[u].run # NoRun /\ new[i].high => new[i].flagged,
         Commit(u, new), late' \in [Users -> BOOLEAN],
         \A v \in Users : late[v] => late'[v],
         req[u].run # NoRun /\ req[u].target = "iteration" =>
           \A v \in Users : pc[v] = "checked" => late'[v]
  PROVE  RunFacts'
<1> DEFINE run == req[u].run
           MetNow(r, t) == /\ r # t
                           /\ r < t => r \in beside'[t]
                           /\ t < r => t \in beside'[r]
           Added(i) == /\ i \in DOMAIN new /\ run # NoRun
                       /\ risks'[i] = AiRow(req[u], new[i])
           Kept(i)  == /\ RunRow(i) /\ risks'[i] = risks[i] /\ i \notin doomed[u]
<1>1. /\ UNCHANGED <<begun, beside>> /\ pc[u] = "deleted" /\ pc'[u] = "idle"
      /\ req'[u].run = NoRun
      /\ \A v \in Users \ {u} : /\ pc'[v] = pc[v] /\ req'[v] = req[v]
                                /\ doomed'[v] = doomed[v]
      /\ DOMAIN new \subseteq Fresh(u)
      /\ \A i \in Ids :
           risks'[i] = IF i \in DOMAIN new THEN AiRow(req[u], new[i])
                       ELSE IF i \in doomed[u] THEN NoRisk ELSE risks[i]
  BY CommitLemma DEF RunInv, RiskInv, TypeOK, Commit, EndUpsert, NoRequest
<1>2. \A r, t : Met(r, t) => MetNow(r, t)
  BY <1>1 DEF Met
<1>3. ASSUME NEW i \in Ids, RunRow(i)'
      PROVE  Added(i) \/ Kept(i)
  <2>1. CASE i \in DOMAIN new
    BY <1>1, <1>3, <2>1 DEF RunRow, AiRow
  <2>2. CASE i \notin DOMAIN new
    BY <1>1, <1>3, <2>2 DEF RunRow, Rows
  <2>3. QED
    BY <2>1, <2>2
<1>4. ASSUME NEW i \in Ids, Added(i)
      PROVE  /\ risks'[i].source = "ai" /\ risks'[i].run = run
             /\ risks'[i].target = req[u].target
             /\ risks'[i].high => risks'[i].flagged /\ risks'[i].open
             /\ \A v \in Users \ {u} : i \notin doomed[v]
             /\ OpenRun(u)
  BY <1>1, <1>4 DEF AiRow, Fresh, OpenRun
<1>5. ASSUME NEW i \in Ids, Kept(i)
      PROVE  /\ risks'[i].source = "ai"
             /\ risks'[i].high /\ ~risks'[i].edited => risks'[i].flagged /\ risks'[i].open
             /\ risks'[i].run <= begun
             /\ run # NoRun /\ risks'[i].target = req[u].target => MetNow(risks'[i].run, run)
  BY <1>1, <1>2, <1>5 DEF RunInv, RunFacts, RunsAreAi, HighRunsWait, NumbersBegun,
     LeftRowsMeet, OpenRun
<1>6. ASSUME NEW v \in Users \ {u}, OpenRun(v), run # NoRun, req[v].target = req[u].target
      PROVE  MetNow(run, req[v].run)
  BY <1>1, <1>2, <1>6 DEF RunInv, RunFacts, FlightsMeet, OpenRun
<1>7. ASSUME NEW i \in Ids, NEW j \in Ids, Kept(i), Kept(j),
             risks'[i].target = risks'[j].target
      PROVE  risks'[i].run = risks'[j].run \/ MetNow(risks'[i].run, risks'[j].run)
  BY <1>2, <1>7 DEF RunInv, RunFacts, RowsMeet
<1>8. ASSUME NEW v \in Users \ {u}, OpenRun(v), NEW i \in Ids, Kept(i),
             risks'[i].target = req[v].target, i \notin doomed[v]
      PROVE  MetNow(risks'[i].run, req[v].run)
  BY <1>2, <1>8 DEF RunInv, RunFacts, LeftRowsMeet
<1>9. run <= begun
  BY DEF RunInv, RunFacts, NumbersBegun
<1>10. GateKnew'
  <2>1. ASSUME NEW v \in Users, pc'[v] = "checked", ~late'[v], NEW i \in Ids, RunRow(i)',
               risks'[i].target = "iteration", risks'[i].high
        PROVE  risks'[i].edited
    <3>1. v # u /\ pc[v] = "checked" /\ ~late[v]
      BY <1>1, <2>1
    <3>2. ~Added(i)
      BY <1>4, <2>1, <3>1
    <3>3. RunRow(i) /\ risks'[i] = risks[i]
      BY <1>3, <2>1, <3>2
    <3>4. QED
      BY <2>1, <3>1, <3>3 DEF RunInv, RunFacts, GateKnew
  <2>2. QED
    BY <2>1 DEF GateKnew
<1>11. \A r, t : MetNow(r, t) => MetNow(t, r)
  OBVIOUS
<1> HIDE DEF MetNow, Added, Kept
<1>12. NumbersBegun'
  <2>1. \A v \in Users : req'[v].run <= begun'
    BY <1>1, RunTypes DEF RunInv, RunFacts, NumbersBegun, NoRun
  <2>2. \A i \in Ids : RunRow(i)' => risks'[i].run <= begun'
    BY <1>1, <1>3, <1>4, <1>5, <1>9
  <2>3. QED
    BY <2>1, <2>2 DEF NumbersBegun
<1>13. RunsAreAi' /\ HighRunsWait'
  BY <1>3, <1>4, <1>5 DEF RunsAreAi, HighRunsWait
<1>14. FlightsMeet'
  <2>1. ASSUME NEW v \in Users, NEW w \in Users, v # w, OpenRun(v)', OpenRun(w)',
               req'[v].target = req'[w].target
        PROVE  MetNow(req'[v].run, req'[w].run)
    <3>1. v # u /\ w # u /\ OpenRun(v) /\ OpenRun(w) /\ req'[v] = req[v] /\ req'[w] = req[w]
      BY <1>1, <2>1 DEF OpenRun
    <3>2. Met(req[v].run, req[w].run)
      BY <2>1, <3>1 DEF RunInv, RunFacts, FlightsMeet
    <3>3. QED
      BY <1>2, <3>1, <3>2
  <2>2. QED
    BY <2>1 DEF FlightsMeet, Met, MetNow
<1>15. LeftRowsMeet'
  <2>1. ASSUME NEW v \in Users, OpenRun(v)', NEW i \in Ids, RunRow(i)',
               risks'[i].target = req'[v].target, i \notin doomed'[v]
        PROVE  MetNow(risks'[i].run, req'[v].run)
    <3>1. v # u /\ OpenRun(v) /\ req'[v] = req[v] /\ doomed'[v] = doomed[v]
      BY <1>1, <2>1 DEF OpenRun
    <3>2. CASE Added(i)
      <4>1. run # NoRun /\ risks'[i].run = run /\ req[v].target = req[u].target
        BY <1>4, <2>1, <3>1, <3>2 DEF OpenRun
      <4>2. QED
        BY <1>6, <3>1, <4>1
    <3>3. CASE Kept(i)
      BY <1>8, <2>1, <3>1, <3>3
    <3>4. QED
      BY <1>3, <2>1, <3>2, <3>3
  <2>2. QED
    BY <2>1 DEF LeftRowsMeet, Met, MetNow
<1>16. RowsMeet'
  <2>1. ASSUME NEW i \in Ids, NEW j \in Ids, Added(i), Kept(j),
               risks'[i].target = risks'[j].target
        PROVE  MetNow(risks'[j].run, risks'[i].run)
    <3>1. run # NoRun /\ risks'[i].run = run /\ risks'[j].target = req[u].target
      BY <1>4, <2>1 DEF OpenRun
    <3>2. QED
      BY <1>5, <2>1, <3>1
  <2>2. ASSUME NEW i \in Ids, NEW j \in Ids, RunRow(i)', RunRow(j)',
               risks'[i].target = risks'[j].target
        PROVE  risks'[i].run = risks'[j].run \/ MetNow(risks'[i].run, risks'[j].run)
    <3>1. CASE Added(i) /\ Added(j)
      BY <1>4, <3>1
    <3>2. CASE Kept(i) /\ Kept(j)
      BY <1>7, <2>2, <3>2
    <3>3. CASE Added(i) /\ Kept(j)
      BY <1>11, <2>1, <2>2, <3>3
    <3>4. CASE Kept(i) /\ Added(j)
      BY <2>1, <2>2, <3>4
    <3>5. QED
      BY <1>3, <2>2, <3>1, <3>2, <3>3, <3>4
  <2>3. QED
    BY <2>2 DEF RowsMeet, Met, MetNow
<1>17. QED
  BY <1>10, <1>12, <1>13, <1>14, <1>15, <1>16 DEF RunFacts

LEMMA NextRun == RunInv /\ [Next]_vars => RunInv'
<1> SUFFICES ASSUME RunInv, [Next]_vars PROVE RunInv'
  OBVIOUS
<1>1. RiskInv'
  BY NextInv DEF RunInv
<1>2. risks \in [Ids -> Risk \cup {NoRisk}] /\ risks' \in [Ids -> Risk \cup {NoRisk}]
  BY <1>1 DEF RunInv, RiskInv, TypeOK
<1>3. ASSUME NEW u \in Users, NEW s \in Statuses \ {"absent"},
             CreateIteration(u, s) \/ SetStatus(u, s)
      PROVE  RunFacts'
  <2>1. UNCHANGED requests /\ UNCHANGED risks
    BY <1>3 DEF CreateIteration, SetStatus
  <2>2. QED
    BY <2>1, NoNewRunRow DEF RunRow, Rows
<1>4. ASSUME NEW u \in Users, DeleteIteration(u)
      PROVE  RunFacts'
  <2>1. UNCHANGED requests /\ \A i \in Ids : risks'[i] \in {NoRisk, risks[i]}
    BY <1>4 DEF DeleteIteration
  <2>2. QED
    BY <2>1, NoNewRunRow DEF RunRow, Rows
<1>5. ASSUME NEW u \in Users, NEW i \in Ids, NEW target \in Targets,
             NEW high \in BOOLEAN, CreateRisk(u, i, target, high)
      PROVE  RunFacts'
  <2>1. /\ UNCHANGED requests /\ risks'[i].run = NoRun
        /\ \A j \in Ids \ {i} : risks'[j] = risks[j]
    BY <1>5, <1>2 DEF CreateRisk
  <2>2. QED
    BY <2>1, NoNewRunRow DEF RunRow, Rows
<1>6. ASSUME NEW u \in Users, NEW i \in Ids, NEW high \in BOOLEAN,
             NEW flagged \in BOOLEAN, NEW open \in BOOLEAN,
             PatchRisk(u, i, high, flagged, open)
      PROVE  RunFacts'
  <2>1. /\ UNCHANGED requests /\ i \in Rows
        /\ risks'[i].target = risks[i].target
        /\ risks'[i].run = risks[i].run
        /\ risks'[i].source = risks[i].source
        /\ risks'[i].edited
        /\ \A j \in Ids \ {i} : risks'[j] = risks[j]
    BY <1>6, <1>2 DEF PatchRisk
  <2>2. QED
    BY <2>1, NoNewRunRow DEF RunRow, Rows
<1>7. ASSUME NEW u \in Users, NEW i \in Ids, DeleteRisk(u, i)
      PROVE  RunFacts'
  <2>1. UNCHANGED requests /\ \A j \in Ids : risks'[j] \in {NoRisk, risks[j]}
    BY <1>7, <1>2 DEF DeleteRisk
  <2>2. QED
    BY <2>1, NoNewRunRow DEF RunRow, Rows
<1>8. ASSUME NEW u \in Users, NEW new \in SUBSET Ids,
             NEW ratings \in [new -> Ratings], NEW flag \in BOOLEAN,
             CommitWorkflow(u, ratings, flag)
      PROVE  RunFacts'
  <2>1. Commit(u, Rated(ratings, flag)) /\ late' \in [Users -> BOOLEAN]
    BY <1>8 DEF CommitWorkflow, RunInv, RiskInv, TypeOK
  <2>2. /\ \A v \in Users : late[v] => late'[v]
        /\ req[u].run # NoRun /\ req[u].target = "iteration" =>
             \A v \in Users : pc[v] = "checked" => late'[v]
    BY <1>8 DEF CommitWorkflow
  <2>3. /\ DOMAIN Rated(ratings, flag) \in SUBSET Ids
        /\ \A i \in DOMAIN Rated(ratings, flag) :
             /\ Rated(ratings, flag)[i].high \in BOOLEAN
             /\ Rated(ratings, flag)[i].flagged \in BOOLEAN
             /\ req[u].run # NoRun /\ Rated(ratings, flag)[i].high =>
                  Rated(ratings, flag)[i].flagged
    BY RatedType, RatedFlags
  <2>4. QED
    BY <2>1, <2>2, <2>3, UpsertCommits
<1>9. ASSUME NEW u \in Users, NEW new \in SUBSET Ids,
             NEW modes \in [new -> [high: BOOLEAN, flagged: BOOLEAN]],
             CommitAssessment(u, modes)
      PROVE  RunFacts'
  <2>1. /\ Commit(u, modes) /\ req[u].run = NoRun
        /\ late' \in [Users -> BOOLEAN] /\ late' = late
    BY <1>9 DEF CommitAssessment, RunInv, RiskInv, TypeOK
  <2>2. QED
    BY <2>1, UpsertCommits
<1>10. ASSUME UNCHANGED vars
       PROVE  RunFacts'
  <2>1. UNCHANGED requests /\ UNCHANGED risks
    BY <1>10 DEF vars
  <2>2. \A i \in Ids : RunRow(i)' => RunRow(i)
    BY <2>1 DEF RunRow, Rows
  <2>3. QED
    BY <2>1, <2>2, NoNewRunRow
<1>11. ASSUME NEW u \in Users, NEW target \in Targets,
              BeginWorkflow(u, target) \/ BeginAssessment(u, target)
       PROVE  RunFacts'
  BY <1>11, RunBegins, AssessmentBegins
<1>12. ASSUME NEW u \in Users, BeginActivate(u) \/ Activate(u) \/ Abandon(u)
       PROVE  RunFacts'
  BY <1>12, NoUpsert
<1>13. RunFacts'
  BY <1>3, <1>4, <1>5, <1>6, <1>7, <1>8, <1>9, <1>10, <1>11, <1>12 DEF Next
<1>14. QED
  BY <1>1, <1>13 DEF RunInv

THEOREM RunSafety == Spec => []RunInv
BY RunInit, NextRun, PTL DEF Spec

\* However many runs overlap, only those whose transactions were open together
\* leave their rows side by side.
THEOREM OneRunPerTargetHolds == Spec => []OneRunPerTarget
<1>1. RunInv => OneRunPerTarget
  <2> SUFFICES ASSUME RunInv, NEW i \in Rows, NEW j \in Rows,
                      risks[i].target = risks[j].target, risks[i].run # NoRun,
                      risks[i].run < risks[j].run
               PROVE  risks[i].run \in beside[risks[j].run]
    BY DEF OneRunPerTarget
  <2>1. i \in Ids /\ j \in Ids /\ risks[i].run \in Nat /\ risks[j].run \in Nat
    BY DEF RunInv, RiskInv, TypeOK, Rows, Risk, Runs, NoRun
  <2>2. risks[j].run # NoRun /\ risks[i].run # risks[j].run
    BY <2>1 DEF NoRun
  <2>3. QED
    BY <2>1, <2>2 DEF RunInv, RunFacts, RowsMeet, RunRow, Met
<1>2. QED
  BY <1>1, RunSafety, PTL

\* The foreign key: no iteration, no risk of it.
NoOrphans == status = "absent" => \A i \in Rows : risks[i].target # "iteration"

LEMMA NextOrphans == RunInv /\ NoOrphans /\ [Next]_vars => NoOrphans'
<1> SUFFICES ASSUME RunInv, NoOrphans, [Next]_vars, status' = "absent",
                    NEW i \in Ids, risks'[i] # NoRisk
             PROVE  risks'[i].target # "iteration"
  BY DEF NoOrphans, Rows
<1>1. risks \in [Ids -> Risk \cup {NoRisk}]
  BY DEF RunInv, RiskInv, TypeOK
<1>2. i \in Rows /\ status = "absent" => risks[i].target # "iteration"
  BY DEF NoOrphans
<1>3. ASSUME NEW u \in Users, DeleteIteration(u)
      PROVE  risks'[i].target # "iteration"
  BY <1>1, <1>3 DEF DeleteIteration, NoRisk
<1>4. ASSUME NEW u \in Users, NEW j \in Ids, NEW target \in Targets,
             NEW high \in BOOLEAN, CreateRisk(u, j, target, high)
      PROVE  risks'[i].target # "iteration"
  <2>1. status = "absent" /\ target = "project"
    BY <1>4 DEF CreateRisk, Exists, iteration
  <2>2. CASE i = j
    BY <1>1, <1>4, <2>1, <2>2 DEF CreateRisk
  <2>3. CASE i # j
    BY <1>1, <1>2, <1>4, <2>1, <2>3 DEF CreateRisk, Rows
  <2>4. QED
    BY <2>2, <2>3
<1>5. ASSUME NEW u \in Users, NEW j \in Ids, NEW high \in BOOLEAN,
             NEW flagged \in BOOLEAN, NEW open \in BOOLEAN,
             PatchRisk(u, j, high, flagged, open)
      PROVE  risks'[i].target # "iteration"
  <2>1. status = "absent" /\ j \in Rows /\ risks'[i].target = risks[i].target
    BY <1>1, <1>5 DEF PatchRisk, iteration
  <2>2. i \in Rows
    BY <1>1, <1>5, <2>1 DEF PatchRisk, Rows
  <2>3. QED
    BY <1>2, <2>1, <2>2
<1>6. ASSUME NEW u \in Users, NEW j \in Ids, DeleteRisk(u, j)
      PROVE  risks'[i].target # "iteration"
  <2>1. status = "absent" /\ risks'[i] = risks[i]
    BY <1>1, <1>6 DEF DeleteRisk, iteration
  <2>2. QED
    BY <1>2, <2>1 DEF Rows
<1>7. ASSUME NEW u \in Users, NEW new, DOMAIN new \in SUBSET Ids,
             \A j \in DOMAIN new :
               new[j].high \in BOOLEAN /\ new[j].flagged \in BOOLEAN,
             Commit(u, new), late' \in [Users -> BOOLEAN]
      PROVE  risks'[i].target # "iteration"
  <2>1. /\ status = "absent"
        /\ risks'[i] = IF i \in DOMAIN new THEN AiRow(req[u], new[i])
                       ELSE IF i \in doomed[u] THEN NoRisk ELSE risks[i]
    BY <1>7, CommitLemma DEF RunInv
  <2>2. req[u].target = "project"
    BY <1>7, <2>1 DEF Commit, Exists
  <2>3. QED
    BY <1>2, <2>1, <2>2 DEF AiRow, Rows
<1>8. ASSUME NEW u \in Users, NEW new \in SUBSET Ids,
             NEW ratings \in [new -> Ratings], NEW flag \in BOOLEAN,
             CommitWorkflow(u, ratings, flag)
      PROVE  risks'[i].target # "iteration"
  <2>1. Commit(u, Rated(ratings, flag)) /\ late' \in [Users -> BOOLEAN]
    BY <1>8 DEF CommitWorkflow, RunInv, RiskInv, TypeOK
  <2>2. QED
    BY <2>1, <1>7, RatedType
<1>9. ASSUME NEW u \in Users, NEW new \in SUBSET Ids,
             NEW modes \in [new -> [high: BOOLEAN, flagged: BOOLEAN]],
             CommitAssessment(u, modes)
      PROVE  risks'[i].target # "iteration"
  <2>1. Commit(u, modes) /\ late' \in [Users -> BOOLEAN]
    BY <1>9 DEF CommitAssessment, RunInv, RiskInv, TypeOK
  <2>2. QED
    BY <2>1, <1>7
<1>10. ASSUME NEW u \in Users,
              \/ \E s \in Statuses \ {"absent"} :
                   CreateIteration(u, s) \/ SetStatus(u, s)
              \/ BeginActivate(u) \/ Activate(u) \/ Abandon(u)
              \/ \E target \in Targets :
                   BeginWorkflow(u, target) \/ BeginAssessment(u, target)
       PROVE  risks'[i].target # "iteration"
  <2>1. status = "absent" /\ UNCHANGED risks
    BY <1>10 DEF CreateIteration, SetStatus, BeginActivate, Activate, Abandon,
       EndUpsert, BeginWorkflow, BeginAssessment, BeginUpsert, iteration
  <2>2. QED
    BY <1>2, <2>1 DEF Rows
<1>11. ASSUME UNCHANGED vars
       PROVE  risks'[i].target # "iteration"
  BY <1>2, <1>11 DEF vars, iteration, Rows
<1>12. QED
  BY <1>3, <1>4, <1>5, <1>6, <1>8, <1>9, <1>10, <1>11 DEF Next

\* The step that activates is CreateIteration, of an iteration no row refers
\* to yet, or Activate, with the gate's answer in hand.
LEMMA ActivateOnly ==
  ASSUME RunInv, [Next]_vars, status # "active", status' = "active"
  PROVE  \E u \in Users : CreateIteration(u, "active") \/ Activate(u)
<1>1. ASSUME NEW u \in Users, NEW s \in Statuses \ {"absent"},
             CreateIteration(u, s) \/ SetStatus(u, s)
      PROVE  CreateIteration(u, "active")
  BY <1>1 DEF CreateIteration, SetStatus
<1>2. ASSUME NEW u \in Users, DeleteIteration(u)
      PROVE  FALSE
  BY <1>2 DEF DeleteIteration
<1>3. ASSUME NEW u \in Users,
             \/ BeginActivate(u) \/ Abandon(u)
             \/ \E i \in Ids, target \in Targets, high \in BOOLEAN :
                  CreateRisk(u, i, target, high)
             \/ \E i \in Ids, high, flagged, open \in BOOLEAN :
                  PatchRisk(u, i, high, flagged, open)
             \/ \E i \in Ids : DeleteRisk(u, i)
      PROVE  UNCHANGED iteration
  BY <1>3 DEF BeginActivate, Abandon, EndUpsert, CreateRisk, PatchRisk, DeleteRisk
<1>4. ASSUME NEW u \in Users,
             \/ \E target \in Targets :
                  BeginWorkflow(u, target) \/ BeginAssessment(u, target)
             \/ \E new \in SUBSET Ids :
                  \/ \E ratings \in [new -> Ratings], flag \in BOOLEAN :
                       CommitWorkflow(u, ratings, flag)
                  \/ \E modes \in [new -> [high: BOOLEAN, flagged: BOOLEAN]] :
                       CommitAssessment(u, modes)
      PROVE  UNCHANGED iteration
  BY <1>4 DEF BeginWorkflow, BeginAssessment, BeginUpsert, CommitWorkflow,
     CommitAssessment, Commit, EndUpsert
<1>5. CASE UNCHANGED vars
  BY <1>5 DEF vars, iteration
<1>6. QED
  BY <1>1, <1>2, <1>3, <1>4, <1>5 DEF Next, iteration

LEMMA NextReviewed ==
  ASSUME RunInv, NoOrphans, [Next]_vars, status # "active", status' = "active"
  PROVE  \/ \A i \in Rows :
              risks[i].target = "iteration" /\ risks[i].run # NoRun /\ risks[i].high
                => risks[i].edited
         \/ \E u \in Users : pc[u] = "checked" /\ pc'[u] = "idle" /\ late[u]
<1>1. PICK u \in Users : CreateIteration(u, "active") \/ Activate(u)
  BY ActivateOnly
<1>2. CASE CreateIteration(u, "active")
  BY <1>2 DEF CreateIteration, NoOrphans
<1>3. CASE Activate(u)
  <2>1. pc[u] = "checked" /\ pc'[u] = "idle"
    BY <1>3 DEF Activate, RunInv, RiskInv, TypeOK
  <2>2. QED
    BY <2>1 DEF RunInv, RunFacts, GateKnew, RunRow, Rows
<1>4. QED
  BY <1>1, <1>2, <1>3

LEMMA GateSafety == Spec => [](RunInv /\ NoOrphans)
<1>1. Init => NoOrphans
  BY DEF Init, NoOrphans, Rows
<1>2. (RunInv /\ NoOrphans) /\ [Next]_vars => (RunInv /\ NoOrphans)'
  BY NextRun, NextOrphans
<1>3. QED
  BY <1>1, <1>2, RunInit, PTL DEF Spec

\* However many requests overlap, no iteration becomes active over a high risk of
\* a workflow run that no person has edited, but one of a run that committed
\* after the gate was asked.
THEOREM HighRunWasReviewedHolds == Spec => HighRunWasReviewed
<1>1. (RunInv /\ NoOrphans) /\ [Next]_vars =>
        [status # "active" /\ status' = "active" =>
           \/ \A i \in Rows :
                risks[i].target = "iteration" /\ risks[i].run # NoRun /\ risks[i].high
                  => risks[i].edited
           \/ \E u \in Users : pc[u] = "checked" /\ pc'[u] = "idle" /\ late[u]]_vars
  BY NextReviewed
<1>2. QED
  BY <1>1, GateSafety, PTL DEF Spec, HighRunWasReviewed
=============================================================================
