---------------------------- MODULE QueryTables ----------------------------
(***************************************************************************)
(* The query keys and mutation hooks of web/src/hooks: for a query, the    *)
(* server tables its endpoint lists; for a mutation, the tables its        *)
(* endpoint changes and the key prefixes (or last elements) its onSuccess  *)
(* invalidates.  One object of each kind stands for all: w a workspace, p  *)
(* its project, i, s, e, t, g an iteration, sample, experiment, task and   *)
(* page of it.  Names joined from other tables for display, and the audit, *)
(* activity and usage feeds, which no hook invalidates, are left out, and  *)
(* so are revision bodies, which never change, and who is present, which   *)
(* is polled.  A creation adds to a table ("new samples") what lists read  *)
(* and the pages of existing rows do not.                                  *)
(*                                                                         *)
(* The hooks that are not listed change nothing an entry here answers      *)
(* from: mentions (the server ignores a mention of oneself), broadcasts,   *)
(* risk reviews (text only), heartbeats, uploads of the wiki (no list      *)
(* shows them) and the appearance the client itself dictates.              *)
(***************************************************************************)
EXTENDS Sequences, SequencesExt, TLC

Mutation(writes, under) == [writes |-> writes, under |-> under, ending |-> {}]

----------------------------------------------------------------------------
\* useQueries.ts
WorkspaceQueries ==
    (<<"workspaces">> :> {"workspaces"})
    @@ (<<"workspaces", "w", "members">> :> {"members"})

WorkspaceMutations ==
    ("AddWorkspaceMember" :> Mutation({"members"}, {<<"workspaces", "w", "members">>}))
    @@ ("RemoveWorkspaceMember" :> Mutation({"members"}, {<<"workspaces", "w", "members">>}))
    @@ ("CreateWorkspace" :> Mutation({"workspaces"}, {<<"workspaces">>}))

ProjectQueries ==
    (<<"workspaces", "w", "projects">> :> {"projects", "new projects"})
    @@ (<<"projects", "p">> :> {"projects"})

\* Deleting a tag also strips its label from the experiments and samples.
TagQueries ==
    (<<"projects", "p", "experiment-tags">> :> {"etags"})
    @@ (<<"projects", "p", "sample-tags">> :> {"stags"})

ExperimentTagMutations ==
    LET under == {<<"projects", "p", "experiment-tags">>} IN
    ("CreateExperimentTag" :> Mutation({"etags"}, under))
    @@ ("UpdateExperimentTag" :> Mutation({"etags"}, under))
    @@ ("DeleteExperimentTag" :> Mutation({"etags", "experiments"}, under))

SampleTagMutations ==
    LET under == {<<"projects", "p", "sample-tags">>} IN
    ("CreateSampleTag" :> Mutation({"stags"}, under))
    @@ ("UpdateSampleTag" :> Mutation({"stags"}, under))
    @@ ("DeleteSampleTag" :> Mutation({"stags", "samples"}, under))

ProjectMutations ==
    LET under == {<<"projects", "p">>, <<"workspaces", "w", "projects">>} IN
    ("CreateProject" :> Mutation({"new projects"}, {<<"workspaces", "w", "projects">>}))
    @@ ("UpdateProject" :> Mutation({"projects"}, under))
    @@ ("ArchiveProject" :> Mutation({"projects"}, under))

CollaboratorHooks ==
    LET under == {<<"projects", "p", "collaborators">>, <<"projects", "p">>} IN
    [ queries |-> (<<"projects", "p", "collaborators">> :> {"collaborators"}),
      mutations |->
        ("AddCollaborator" :> Mutation({"collaborators"}, under))
        @@ ("RemoveCollaborator" :> Mutation({"collaborators"}, under))
        @@ ("TransferOwnership" :> Mutation({"collaborators", "projects"}, under)) ]

SubResourceQueries ==
    (<<"projects", "p", "samples">> :> {"samples", "new samples"})
    @@ (<<"projects", "p", "experiments">> :> {"experiments", "new experiments"})
    @@ (<<"projects", "p", "iterations">> :> {"iterations", "new iterations"})
    @@ (<<"projects", "p", "artifacts">> :> {"artifacts", "new artifacts"})

\* Deleting an iteration cascades to its risks and takes its tasks out of it.
IterationHooks ==
    LET list == <<"projects", "p", "iterations">>
        links == {<<"iterations", "i", "samples">>} IN
    [ queries |-> (<<"iterations", "i">> :> {"iterations"})
                  @@ (<<"iterations", "i", "samples">> :> {"itersamples"}),
      mutations |->
        ("CreateIteration" :> Mutation({"new iterations"}, {list}))
        @@ ("UpdateIteration" :> Mutation({"iterations"}, {<<"iterations", "i">>, list}))
        @@ ("DeleteIteration" :> Mutation({"iterations", "itersamples", "risks", "tasks"}, {list}))
        @@ ("LinkIterationSample" :> Mutation({"itersamples"}, links))
        @@ ("UnlinkIterationSample" :> Mutation({"itersamples"}, links)) ]

SampleHooks ==
    LET list == <<"projects", "p", "samples">> IN
    [ queries |-> (<<"samples", "s">> :> {"samples"})
                  @@ (<<"samples", "s", "lineage">> :> {"relations", "samples"}),
      mutations |->
        ("CreateSample" :> Mutation({"new samples"}, {list}))
        @@ ("UpdateSample" :> Mutation({"samples"}, {<<"samples", "s">>, list}))
        @@ ("AddSampleRelation" :> Mutation({"relations"}, {<<"samples", "s", "lineage">>})) ]

ExperimentHooks ==
    LET list == <<"projects", "p", "experiments">>
        links == {<<"experiments", "e", "samples">>} IN
    [ queries |-> (<<"experiments", "e">> :> {"experiments"})
                  @@ (<<"experiments", "e", "samples">> :> {"expsamples"}),
      mutations |->
        ("CreateExperiment" :> Mutation({"new experiments"}, {list}))
        @@ ("UpdateExperiment" :> Mutation({"experiments"}, {<<"experiments", "e">>, list}))
        @@ ("LinkExperimentSample" :> Mutation({"expsamples"}, links))
        @@ ("UnlinkExperimentSample" :> Mutation({"expsamples"}, links)) ]

----------------------------------------------------------------------------
\* useTaskQueries.ts; "{}" is the filters object a project's list key ends in.
TaskQueries ==
    (<<"projects", "p", "tasks", "{}">> :> {"tasks", "new tasks"})
    @@ (<<"iterations", "i", "tasks">> :> {"tasks", "new tasks"})
    @@ (<<"tasks", "t">> :> {"tasks"})
    @@ (<<"tasks", "t", "references">> :> {"references"})
    @@ (<<"tasks", "t", "progress">> :> {"progress"})
    @@ (<<"me", "tasks">> :> {"tasks", "new tasks"})

\* Mutant: without the predicate on the last element.
InvalidateTasksExact(writes, task) ==
    [ writes |-> writes,
      under |-> {<<"projects", "p", "tasks">>, <<"iterations", "i", "tasks">>}
                \cup (IF task THEN {<<"tasks", "t">>} ELSE {}),
      ending |-> {} ]

\* invalidateTasks: every list whose key ends in 'tasks', the project's and the
\* iteration's lists, and with a task id everything under that task.
InvalidateTasks(writes, task) ==
    [ writes |-> writes,
      under |-> {<<"projects", "p", "tasks">>, <<"iterations", "i", "tasks">>}
                \cup (IF task THEN {<<"tasks", "t">>} ELSE {}),
      ending |-> {"tasks"} ]

TaskEditMutations ==
    ("CreateTask" :> InvalidateTasks({"new tasks", "events"}, FALSE))
    @@ ("UpdateTask" :> InvalidateTasks({"tasks", "events"}, TRUE))
    @@ ("DeleteTask" :> InvalidateTasks({"tasks", "references", "progress", "events"}, FALSE))

TaskMoveMutations ==
    LET writes == {"tasks", "progress", "events"} IN
    ("TakeTask" :> InvalidateTasks(writes, TRUE))
    @@ ("ReassignTask" :> InvalidateTasks({"tasks", "progress"}, TRUE))
    @@ ("CancelTask" :> InvalidateTasks(writes, TRUE))
    @@ ("ReopenTask" :> InvalidateTasks(writes, TRUE))
    @@ ("DelayTask" :> InvalidateTasks(writes, TRUE))
    @@ ("MarkDone" :> InvalidateTasks(writes, TRUE))

\* The server notes a reference in the task's trail; the hook does not know.
TaskNoteMutations ==
    LET writes == {"references", "progress"}
        under == {<<"tasks", "t", "references">>} IN
    ("AddReference" :> Mutation(writes, under))
    @@ ("RemoveReference" :> Mutation(writes, under))
    @@ ("AddTaskComment" :> Mutation({"progress"}, {<<"tasks", "t", "progress">>}))

----------------------------------------------------------------------------
\* usePageQueries.ts
PageQueries ==
    (<<"projects", "p", "pages">> :> {"pages", "new pages"})
    @@ (<<"pages", "g">> :> {"pages", "revisions"})
    @@ (<<"pages", "g", "revisions">> :> {"revisions"})
    @@ (<<"wiki", "pages">> :> {"wikipages"})

PageMutations ==
    ("RestorePage" :> Mutation({"pages", "revisions"},
                               {<<"pages", "g">>, <<"pages", "g", "revisions">>}))
    @@ ("CreateWikiPage" :> Mutation({"wikipages"}, {<<"wiki", "pages">>}))

\* The panel invalidates the project's list itself: useCreatePage names
\* ['pages', 'parent', ...], which no query has.
PanelCreatePage ==
    "CreatePage" :> Mutation({"new pages"}, {<<"pages", "parent", "project", "p">>,
                                         <<"projects", "p", "pages">>})

----------------------------------------------------------------------------
\* useAIQueries.ts
ConversationQueries ==
    (<<"projects", "p", "ai", "conversations">> :> {"conversations"})
    @@ (<<"ai", "conversations", "c", "messages">> :> {"messages", "toolcalls"})

ConversationMutations ==
    "CreateConversation" :> Mutation({"conversations"}, {<<"projects", "p", "ai", "conversations">>})

\* What the assistant's write tools change through the REST API (tools.go).
ToolWrites ==
    {"pages", "new pages", "revisions", "wikipages", "risks", "approvals", "events",
     "iterations", "new iterations", "itersamples", "experiments", "new experiments",
     "expsamples", "samples", "new samples", "relations", "tasks", "new tasks",
     "references", "progress"}

\* A tool runs on the server, approved or within an answer: the hook and the panel
\* refresh the conversation, and the risks and the page lists by last element.
ToolCallMutations ==
    LET messages == {<<"ai", "conversations", "c", "messages">>}
        toolRun == [ writes |-> {"toolcalls", "messages"} \cup ToolWrites,
                     under |-> messages,
                     ending |-> {"risks", "pages"} ] IN
    ("ApproveToolCall" :> toolRun)
    @@ ("SendMessage" :> toolRun)
    @@ ("RejectToolCall" :> Mutation({"toolcalls", "messages"}, messages))

AutonomyHooks ==
    [ queries |-> (<<"workspaces", "w", "autonomy">> :> {"autonomy"})
                  @@ (<<"projects", "p", "autonomy">> :> {"project autonomy"}),
      mutations |->
        ("UpdateWorkspaceAutonomy" :> Mutation({"autonomy"}, {<<"workspaces", "w", "autonomy">>}))
        @@ ("UpdateProjectAutonomy" :> Mutation({"project autonomy"}, {<<"projects", "p", "autonomy">>})) ]

\* useRunWorkflow has no onSuccess: neither the risks nor the page a run leaves
\* with its target are announced.
WorkflowHooks ==
    [ queries |-> (<<"ai", "runs", "run">> :> {"runs"}),
      mutations |-> ("RunWorkflow" :> Mutation({"new runs", "risks", "new pages"}, {})) ]

----------------------------------------------------------------------------
\* useArtifactQueries.ts
ArtifactQueries ==
    (<<"samples", "s", "artifacts">> :> {"sampleartifacts"})
    @@ (<<"experiments", "e", "artifacts">> :> {"expartifacts"})
    @@ (<<"artifacts", "a">> :> {"artifacts"})

\* The upload's row is in the project's list from the start; the list is
\* refreshed when the upload is complete, and only then is it attached.
ArtifactMutations ==
    ("CreateArtifact" :> Mutation({"new artifacts"}, {}))
    @@ ("CompleteArtifact" :> Mutation({"artifacts"}, {<<"projects", "p", "artifacts">>, <<"artifacts", "a">>}))
    @@ ("DeleteArtifact" :> Mutation({"artifacts", "sampleartifacts", "expartifacts"},
                                     {<<"projects", "p", "artifacts">>}))
    @@ ("AttachToSample" :> Mutation({"sampleartifacts"}, {<<"samples", "s", "artifacts">>}))
    @@ ("AttachToExperiment" :> Mutation({"expartifacts"}, {<<"experiments", "e", "artifacts">>}))

TokenHooks ==
    LET tokens == {<<"tokens">>}
        feed == {<<"cal", "me", "subscription">>} IN
    [ queries |-> (<<"tokens">> :> {"tokens"})
                  @@ (<<"cal", "me", "subscription">> :> {"subscriptions"}),
      mutations |->
        ("CreateToken" :> Mutation({"tokens"}, tokens))
        @@ ("RevokeToken" :> Mutation({"tokens"}, tokens))
        @@ ("RotateSubscription" :> Mutation({"subscriptions"}, feed))
        @@ ("PatchSubscription" :> Mutation({"subscriptions"}, feed)) ]

----------------------------------------------------------------------------
\* useRiskQueries.ts: both registers read the same rows, the hooks name one.
RiskHooks ==
    LET under == {<<"projects", "p", "risks">>} IN
    [ queries |-> (<<"projects", "p", "risks">> :> {"risks"})
                  @@ (<<"iterations", "i", "risks">> :> {"risks"}),
      mutations |->
        ("CreateRisk" :> Mutation({"risks"}, under))
        @@ ("UpdateRisk" :> Mutation({"risks"}, under))
        @@ ("DeleteRisk" :> Mutation({"risks"}, under))
        @@ ("SetRiskPIReview" :> Mutation({"risks"}, under)) ]

\* useWorkspaceQueries.ts: the inbox collects what waits for the user.
MeetingHooks ==
    LET list == <<"workspaces", "w", "meetings">> IN
    [ queries |-> (list :> {"meetings", "new meetings"})
                  @@ (<<"meetings", "m">> :> {"meetings"})
                  @@ (<<"workspaces", "w", "inbox">> :> {"risks", "toolcalls", "approvals"}),
      mutations |->
        ("CreateMeeting" :> Mutation({"new meetings"}, {list}))
        @@ ("UpdateMeeting" :> Mutation({"meetings"}, {<<"meetings", "m">>, list})) ]

\* useEventQueries.ts: the calendar reads months of a project's events.
EventHooks ==
    LET list == <<"projects", "p", "events">> IN
    [ queries |-> (<<"projects", "p", "events", "from", "to">> :> {"events"}),
      mutations |->
        ("CreateEvent" :> Mutation({"events"}, {list}))
        @@ ("UpdateEvent" :> Mutation({"events"}, {<<"events", "v">>, list}))
        @@ ("DeleteEvent" :> Mutation({"events"}, {list})) ]

\* useApprovalQueries.ts: a request or a decision refreshes every inbox.
ApprovalHooks ==
    LET list == <<"projects", "p", "approval-requests">>
        comments == <<"approval-requests", "q", "comments">> IN
    [ queries |-> (list :> {"approvals"}) @@ (comments :> {"comments"}),
      mutations |->
        ("CreateApprovalRequest" :> Mutation({"approvals"}, {list, <<"workspaces">>}))
        @@ ("DecideApprovalRequest" :> Mutation({"approvals"}, {<<"projects">>, <<"workspaces">>}))
        @@ ("CreateApprovalComment" :> Mutation({"comments"}, {comments})) ]

AdminHooks ==
    [ queries |-> (<<"admin", "users">> :> {"users"}),
      mutations |->
        ("UpdateAdminUser" :> Mutation({"users"}, {<<"admin", "users">>}))
        @@ ("DeleteAdminUser" :> Mutation({"users"}, {<<"admin", "users">>})) ]

FeedbackHooks ==
    [ queries |-> (<<"admin", "feedback", "pending">> :> {"feedback"})
                  @@ (<<"admin", "feedback", "all">> :> {"feedback"}),
      mutations |->
        ("SubmitFeedback" :> Mutation({"feedback"}, {}))
        @@ ("AcknowledgeFeedback" :> Mutation({"feedback"}, {<<"admin", "feedback">>})) ]

PreferenceHooks ==
    [ queries |-> (<<"notification-preferences">> :> {"prefs"}),
      mutations |->
        ("UpdateNotificationPreferences" :> Mutation({"prefs"}, {<<"notification-preferences">>})) ]

----------------------------------------------------------------------------
HookFiles ==
    << CollaboratorHooks, IterationHooks, SampleHooks, ExperimentHooks, AutonomyHooks,
       WorkflowHooks, TokenHooks, RiskHooks, MeetingHooks, EventHooks, ApprovalHooks,
       AdminHooks, FeedbackHooks, PreferenceHooks >>

AllQueries ==
    FoldLeft(LAMBDA all, file : all @@ file.queries,
             WorkspaceQueries @@ ProjectQueries @@ TagQueries @@ SubResourceQueries @@ TaskQueries
             @@ PageQueries @@ ConversationQueries @@ ArtifactQueries,
             HookFiles)

AllMutations ==
    FoldLeft(LAMBDA all, file : all @@ file.mutations,
             WorkspaceMutations @@ ExperimentTagMutations @@ SampleTagMutations @@ ProjectMutations
             @@ TaskEditMutations @@ TaskMoveMutations @@ TaskNoteMutations @@ PageMutations
             @@ PanelCreatePage @@ ConversationMutations @@ ToolCallMutations @@ ArtifactMutations,
             HookFiles)

\* partialMatchKey: a key is invalidated when it extends a named one, or when the
\* hook's predicate accepts its last element.
Invalidated(m) ==
    {k \in DOMAIN AllQueries :
        \/ \E prefix \in AllMutations[m].under : IsPrefix(prefix, k)
        \/ Last(k) \in AllMutations[m].ending}

\* What the endpoints change and the hooks do not announce, so that the entry
\* stays as it was until it is older than staleTime.
CalendarGaps ==
    {"CreateTask", "UpdateTask", "DeleteTask", "TakeTask", "CancelTask", "ReopenTask",
     "DelayTask", "MarkDone"} \X {<<"projects", "p", "events", "from", "to">>}

RiskGaps ==
    {"CreateRisk", "UpdateRisk", "DeleteRisk", "SetRiskPIReview", "RunWorkflow"}
        \X {<<"iterations", "i", "risks">>, <<"workspaces", "w", "inbox">>}

CascadeGaps ==
    ({"DeleteIteration"} \X
        {<<"iterations", "i">>, <<"iterations", "i", "samples">>, <<"iterations", "i", "risks">>,
         <<"iterations", "i", "tasks">>, <<"projects", "p", "risks">>,
         <<"projects", "p", "tasks", "{}">>, <<"tasks", "t">>, <<"me", "tasks">>,
         <<"workspaces", "w", "inbox">>})
    \cup ({"DeleteTask"} \X
        {<<"tasks", "t">>, <<"tasks", "t", "references">>, <<"tasks", "t", "progress">>})
    \cup ({"DeleteArtifact"} \X
        {<<"artifacts", "a">>, <<"experiments", "e", "artifacts">>, <<"samples", "s", "artifacts">>})

TagGaps ==
    ({"DeleteExperimentTag"} \X {<<"experiments", "e">>, <<"projects", "p", "experiments">>})
    \cup ({"DeleteSampleTag"} \X
        {<<"samples", "s">>, <<"samples", "s", "lineage">>, <<"projects", "p", "samples">>})

\* Tools change more than the risks and the page lists.
ToolGaps ==
    {"ApproveToolCall", "SendMessage"} \X
        {<<"pages", "g">>, <<"pages", "g", "revisions">>,
         <<"projects", "p", "iterations">>, <<"iterations", "i">>, <<"iterations", "i", "samples">>,
         <<"projects", "p", "experiments">>, <<"experiments", "e">>, <<"experiments", "e", "samples">>,
         <<"projects", "p", "samples">>, <<"samples", "s">>, <<"samples", "s", "lineage">>,
         <<"projects", "p", "tasks", "{}">>, <<"iterations", "i", "tasks">>, <<"me", "tasks">>,
         <<"tasks", "t">>, <<"tasks", "t", "references">>, <<"tasks", "t", "progress">>,
         <<"projects", "p", "events", "from", "to">>,
         <<"projects", "p", "approval-requests">>, <<"workspaces", "w", "inbox">>}

\* Hooks with no onSuccess at all.
SilentGaps ==
    ({"RunWorkflow"} \X {<<"projects", "p", "risks">>, <<"projects", "p", "pages">>})
    \cup ({"SubmitFeedback"} \X {<<"admin", "feedback", "pending">>, <<"admin", "feedback", "all">>})
    \cup {<<"CreateArtifact", <<"projects", "p", "artifacts">>>>}

OtherGaps ==
    ({"AddReference", "RemoveReference"} \X {<<"tasks", "t", "progress">>})
    \cup ({"RejectToolCall"} \X {<<"workspaces", "w", "inbox">>})
    \cup {<<"TransferOwnership", <<"workspaces", "w", "projects">>>>,
          <<"RestorePage", <<"projects", "p", "pages">>>>}

HookGaps ==
    UNION {CalendarGaps, RiskGaps, CascadeGaps, TagGaps, ToolGaps, SilentGaps, OtherGaps}
=============================================================================
