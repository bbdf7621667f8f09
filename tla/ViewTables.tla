----------------------------- MODULE ViewTables -----------------------------
(***************************************************************************)
(* The pages and panels of web/src/pages and web/src/components, each as   *)
(* the queries it reads and what it makes of them:                         *)
(*   wait    it shows a loader while one of them is loading                *)
(*   fail    then an error if one of them is in error                      *)
(*   need    then, while one of them has no data, what lacking says        *)
(*   none    sets of lists it calls empty ("No samples.") when it holds    *)
(*           none of them: a query without data is read as the empty list  *)
(*   after   <<q, p>>: q is not asked before p is known                    *)
(* "workspace" is the selected workspace's id, which localStorage may give *)
(* before the list of workspaces is read.                                  *)
(***************************************************************************)

View ==
    [ name |-> "View", wait |-> {}, fail |-> {}, need |-> {}, lacking |-> "error",
      none |-> {}, after |-> {} ]

List(name, q) == [View EXCEPT !.name = name, !.wait = {q}, !.fail = {q}, !.none = {{q}}]
Detail(name, q) == [View EXCEPT !.name = name, !.wait = {q}, !.fail = {q}, !.need = {q}]

\* A list that asks for nothing, and is not loading, until there is a workspace.
WorkspaceList(name, q) == [List(name, q) EXCEPT !.after = {<<q, "workspace">>}]

\* A list whose failure nobody looks at.
BlindList(name, q) == [List(name, q) EXCEPT !.fail = {}]

\* A list shown beside other content, neither waited for nor looked at.
Aside(name, q) == [View EXCEPT !.name = name, !.none = {{q}}]

----------------------------------------------------------------------------
\* Home, workspaces and the shell

HomePage == [View EXCEPT !.name = "HomePage", !.need = {"workspace"}, !.lacking = "loading"]
ProjectGrid == BlindList("ProjectGrid", "projects")
RiskApprovalPanel == List("RiskApprovalPanel", "inbox")
WorkspaceRow == Aside("WorkspaceRow", "workspaces")
WorkspacesPage == List("WorkspacesPage", "workspaces")
WorkspaceSection == BlindList("WorkspaceSection", "projects")
ProjectNotesTree == BlindList("ProjectNotesTree", "pages")
CommandPalette == Aside("CommandPalette", "search")
ActivityDashboard == BlindList("ActivityDashboard", "workspaces")
WorkspaceActivityBlock == BlindList("WorkspaceActivityBlock", "activity")

----------------------------------------------------------------------------
\* Pages of a workspace

InboxPage == WorkspaceList("InboxPage", "inbox")
MeetingsPage == WorkspaceList("MeetingsPage", "meetings")
PeoplePage == WorkspaceList("PeoplePage", "members")
MeetingDetailPage == Detail("MeetingDetailPage", "meeting")
MyTasksPage == List("MyTasksPage", "my tasks")
WikiSidebar == List("WikiSidebar", "wiki pages")

----------------------------------------------------------------------------
\* Administration and settings

WorkspaceInfoSection == List("WorkspaceInfoSection", "workspaces")
AIOverviewSection == Detail("AIOverviewSection", "usage")
AddMemberForm == Aside("AddMemberForm", "users")
MembersSection == List("MembersSection", "members")
WorkflowsSection == List("WorkflowsSection", "workflows")
AuditSection == List("AuditSection", "audit entries")
UsersSection == List("UsersSection", "users")
FeedbackSection == List("FeedbackSection", "feedback")
ApiTokensSection == List("ApiTokensSection", "tokens")
NotificationsSection == Detail("NotificationsSection", "preferences")
CalendarSubscriptionPanel == List("CalendarSubscriptionPanel", "subscription")
WorkspaceAutonomySection == Detail("WorkspaceAutonomySection", "autonomy")
WorkspaceAutonomyWrapper ==
    [View EXCEPT !.name = "WorkspaceAutonomyWrapper", !.need = {"workspaces"}, !.lacking = "loading"]
ProjectAutonomySection == Detail("ProjectAutonomySection", "autonomy")

----------------------------------------------------------------------------
\* A project, its tabs and dialogs

ProjectDetailPage == Detail("ProjectDetailPage", "project")
OverviewTabUnguarded ==
    [View EXCEPT !.name = "OverviewTab", !.need = {"project"}, !.lacking = "loading"]

OverviewTab == [Detail("OverviewTab", "project") EXCEPT !.lacking = "loading"]
SamplesTab == List("SamplesTab", "samples")
ExperimentsTab == List("ExperimentsTab", "experiments")
IterationsTab == List("IterationsTab", "iterations")
ArtifactsTab == List("ArtifactsTab", "artifacts")
TasksTab == List("TasksTab", "tasks")
ProjectDashboard ==
    [View EXCEPT !.name = "ProjectDashboard", !.wait = {"samples", "experiments"},
                 !.need = {"project"}, !.lacking = "loading"]
ProjectTimeline ==
    [View EXCEPT !.name = "ProjectTimeline", !.wait = {"iterations", "events"}, !.fail = {"iterations"},
                 !.none = {{"iterations", "events"}}]
ShareDialog == List("ShareDialog", "collaborators")
TransferOwnership == Aside("TransferOwnership", "collaborators")
SendForApprovalDialog ==
    [View EXCEPT !.name = "SendForApprovalDialog", !.none = {{"members", "collaborators"}}]
TeamStep == [View EXCEPT !.name = "TeamStep", !.wait = {"members"}]
SamplesPickerStep == [View EXCEPT !.name = "SamplesPickerStep", !.wait = {"samples"}]
SampleSelectList == BlindList("SampleSelectList", "samples")
ExperimentTagsManager == List("ExperimentTagsManager", "experiment tags")
SampleTagsManager == List("SampleTagsManager", "sample tags")
WorkflowRunner == [List("WorkflowRunner", "workflows") EXCEPT !.none = {}]
PagesPanel == List("PagesPanel", "pages")
RiskRegister == List("RiskRegister", "risks")

----------------------------------------------------------------------------
\* One sample, experiment, iteration, artifact, task or page

SampleDetailPage == Detail("SampleDetailPage", "sample")
SampleDashboard ==
    [Detail("SampleDashboard", "sample") EXCEPT !.none = {{"sample tags"}},
        !.after = {<<"sample tags", "sample">>}]
LineageFlow == List("LineageFlow", "lineage")
ExperimentDetailPage == Detail("ExperimentDetailPage", "experiment")
ExperimentDashboard ==
    [Detail("ExperimentDashboard", "experiment") EXCEPT !.none = {{"experiment tags"}, {"samples"}},
        !.after = {<<"experiment tags", "experiment">>}]
IterationDetailPage == Detail("IterationDetailPage", "iteration")
IterationDashboard == [Detail("IterationDashboard", "iteration") EXCEPT !.none = {{"samples"}}]
ArtifactDetailPage == Detail("ArtifactDetailPage", "artifact")
TaskDetailDrawer == Detail("TaskDetailDrawer", "task")
TaskProgressTimeline == BlindList("TaskProgressTimeline", "progress")
ApprovalCommentThread == BlindList("ApprovalCommentThread", "comments")
PageEditorPage == [Detail("PageEditorPage", "page") EXCEPT !.need = {}]
HistoryPanel == BlindList("HistoryPanel", "revisions")
RefPickers ==
    [View EXCEPT !.name = "RefPickers", !.none = {{"samples"}, {"experiments"}, {"artifacts"}}]

\* It takes a list without its slot's page for leave to create that page.
EntityPageEditor == BlindList("EntityPageEditor", "pages")

\* Without its artifact the image is said to be processing.
ImageEmbed == [Detail("ImageEmbed", "artifact") EXCEPT !.fail = {}, !.lacking = "loading"]

\* The others use it as if it were there.
PdfEmbed == [ImageEmbed EXCEPT !.name = "PdfEmbed", !.lacking = "crash"]
HtmlEmbed == [ImageEmbed EXCEPT !.name = "HtmlEmbed", !.lacking = "crash"]

----------------------------------------------------------------------------
AllViews ==
    { HomePage, ProjectGrid, RiskApprovalPanel, WorkspaceRow, WorkspacesPage, WorkspaceSection,
      ProjectNotesTree, CommandPalette, ActivityDashboard, WorkspaceActivityBlock, InboxPage,
      MeetingsPage, PeoplePage, MeetingDetailPage, MyTasksPage, WikiSidebar,
      WorkspaceInfoSection, AIOverviewSection, AddMemberForm, MembersSection, WorkflowsSection,
      AuditSection, UsersSection, FeedbackSection, ApiTokensSection, NotificationsSection,
      CalendarSubscriptionPanel, WorkspaceAutonomySection, WorkspaceAutonomyWrapper,
      ProjectAutonomySection, ProjectDetailPage, OverviewTab, SamplesTab, ExperimentsTab,
      IterationsTab, ArtifactsTab, TasksTab, ProjectDashboard, ProjectTimeline, ShareDialog,
      TransferOwnership, SendForApprovalDialog, TeamStep, SamplesPickerStep, SampleSelectList,
      ExperimentTagsManager, SampleTagsManager, WorkflowRunner, PagesPanel, RiskRegister,
      SampleDetailPage, SampleDashboard, LineageFlow, ExperimentDetailPage,
      ExperimentDashboard, IterationDetailPage, IterationDashboard, ArtifactDetailPage,
      TaskDetailDrawer, TaskProgressTimeline, ApprovalCommentThread, PageEditorPage,
      HistoryPanel, RefPickers, EntityPageEditor, ImageEmbed, PdfEmbed, HtmlEmbed }

\* Views that call a list empty though its read failed, is under way, or was
\* never asked for.  EntityPageEditor even creates the page it does not find.
FalseEmpties ==
    {"ProjectGrid", "WorkspaceSection", "ProjectNotesTree", "ActivityDashboard",
     "WorkspaceActivityBlock", "SampleSelectList", "TaskProgressTimeline",
     "ApprovalCommentThread", "EntityPageEditor", "HistoryPanel"}
    \cup {"WorkspaceRow", "CommandPalette", "AddMemberForm", "TransferOwnership", "RefPickers",
          "SendForApprovalDialog", "ProjectTimeline", "SampleDashboard", "ExperimentDashboard",
          "IterationDashboard"}
    \cup {"InboxPage", "MeetingsPage", "PeoplePage"}

\* Views that keep their loader, or its likeness, after a read has failed.
EndlessLoaders == {"HomePage", "WorkspaceAutonomyWrapper", "ProjectDashboard", "ImageEmbed"}

\* Views that throw after a failed read.
Crashing == {"PdfEmbed", "HtmlEmbed"}
=============================================================================
