----------------------------- MODULE FormTables -----------------------------
(***************************************************************************)
(* The dialogs and forms of web/src/components and web/src/pages that take *)
(* typed input, each as the choices its code makes:                        *)
(*   fill   "blank"; "once": from the object when it opens; "mount": when  *)
(*          its row appears or an edit is cancelled; "follows": again      *)
(*          whenever that object, or an AI proposal, comes anew            *)
(*   sends  the fields "typed", all fields of the "form", or its one field *)
(*          merged into the "cache"d object                                *)
(*   dirty  only typed input can be submitted                              *)
(*   makes  the submission creates an object (else it changes one)         *)
(*   locks  no second submission while one of this instance is pending     *)
(*   then   on success the form "closes" (or gives way to a thank-you),    *)
(*          "clears" or "stays"; "settles": it counts as saved, "drops":   *)
(*          it is emptied, on submission                                   *)
(*   late   an await: the close runs even if the form is another by then   *)
(*   row    it belongs to a card or row that may move and unmount it       *)
(*   back   a wizard step: "pending": left and entered anew while saving;  *)
(*          "after": entered again, as it was, once its object exists      *)
(*   steps  further calls follow the creation in the same submission       *)
(***************************************************************************)
\* tasks/TaskActionDialogs.tsx: the frame all task dialogs share.
Dialog ==
    [ name |-> "Dialog", fill |-> "blank", sends |-> "typed", dirty |-> TRUE, makes |-> FALSE,
      locks |-> TRUE, then |-> "closes", late |-> FALSE, row |-> FALSE, back |-> "no",
      steps |-> FALSE ]

TaskDialog == [Dialog EXCEPT !.row = TRUE]
Creation == [Dialog EXCEPT !.makes = TRUE]
WholeForm == [Dialog EXCEPT !.fill = "once", !.sends = "form", !.dirty = FALSE]
Following == [WholeForm EXCEPT !.fill = "follows"]

----------------------------------------------------------------------------
\* Tasks

TakeTaskDialog == [TaskDialog EXCEPT !.name = "TakeTaskDialog"]

\* The assignee is filled in when the dialog opens and always sent, with the comment
\* that must be typed.
ReassignDialog == [TaskDialog EXCEPT !.name = "ReassignDialog", !.fill = "once", !.sends = "form"]

CancelDialog == [TaskDialog EXCEPT !.name = "CancelDialog"]
ReopenDialog == [TaskDialog EXCEPT !.name = "ReopenDialog"]
DelayDialog == [TaskDialog EXCEPT !.name = "DelayDialog"]
NewTaskDialog == [Creation EXCEPT !.name = "NewTaskDialog"]
TaskComment == [Creation EXCEPT !.name = "TaskComment", !.then = "clears"]

\* The dialogs opened from a row of the list, which a status filter takes away,
\* and from the drawer, which stays.
TaskRowDialog == [TaskDialog EXCEPT !.name = "TaskRowDialog"]
TaskDrawerDialog == [Dialog EXCEPT !.name = "TaskDrawerDialog"]
ReassignFromRow == [ReassignDialog EXCEPT !.name = "ReassignFromRow"]
ReassignFromDrawer == [ReassignDialog EXCEPT !.name = "ReassignFromDrawer", !.row = FALSE]

TaskReferencePicker == [Creation EXCEPT !.name = "TaskReferencePicker", !.then = "drops"]

----------------------------------------------------------------------------
\* Risks and approvals

RiskCreateDialog == [Creation EXCEPT !.name = "RiskCreateDialog"]
RiskEditDialog == [Following EXCEPT !.name = "RiskEditDialog"]
SendForApprovalDialog ==
    [Creation EXCEPT !.name = "SendForApprovalDialog", !.fill = "follows", !.sends = "form"]
ApprovalComment == [Creation EXCEPT !.name = "ApprovalComment", !.then = "clears"]

----------------------------------------------------------------------------
\* Projects and iterations

ProjectStep == [Creation EXCEPT !.name = "ProjectStep"]
FirstIterationStep ==
    [Creation EXCEPT !.name = "FirstIterationStep", !.late = TRUE, !.back = "pending"]
NewIterationWizard == [Creation EXCEPT !.name = "NewIterationWizard", !.locks = FALSE, !.back = "after"]
EditProjectDialog == [Following EXCEPT !.name = "EditProjectDialog", !.late = TRUE]
IterationEditDialog == [WholeForm EXCEPT !.name = "IterationEditDialog", !.late = TRUE]
AddCollaborator == [Creation EXCEPT !.name = "AddCollaborator", !.then = "clears"]
TransferOwnership == [Dialog EXCEPT !.name = "TransferOwnership", !.then = "clears"]
AutonomyForm == [Following EXCEPT !.name = "AutonomyForm", !.dirty = TRUE, !.then = "stays"]

----------------------------------------------------------------------------
\* Samples, experiments and artifacts

CreateSampleDialog == [Creation EXCEPT !.name = "CreateSampleDialog", !.late = TRUE]
CreateExperimentDialog ==
    [Creation EXCEPT !.name = "CreateExperimentDialog", !.late = TRUE, !.steps = TRUE]
ArtifactUpload == [Creation EXCEPT !.name = "ArtifactUpload", !.then = "clears", !.steps = TRUE]
SampleEditPanel == [WholeForm EXCEPT !.name = "SampleEditPanel", !.dirty = TRUE, !.then = "settles"]
ExperimentTitle ==
    [Dialog EXCEPT !.name = "ExperimentTitle", !.fill = "once", !.then = "drops", !.locks = FALSE]
PropertyEditor ==
    [WholeForm EXCEPT !.name = "PropertyEditor", !.sends = "cache", !.then = "drops", !.locks = FALSE]
NewExperimentTag ==
    [Creation EXCEPT !.name = "NewExperimentTag", !.then = "clears", !.locks = FALSE]
NewSampleTag == [NewExperimentTag EXCEPT !.name = "NewSampleTag"]
TagRow == [WholeForm EXCEPT !.name = "TagRow", !.fill = "mount", !.late = TRUE]

----------------------------------------------------------------------------
\* Pages, calendar and meetings

PagesPanel == [Creation EXCEPT !.name = "PagesPanel", !.late = TRUE]
WikiNewPage == [Creation EXCEPT !.name = "WikiNewPage", !.locks = FALSE]
NewEventDialog == [Creation EXCEPT !.name = "NewEventDialog", !.late = TRUE]
EditEventDialog == [WholeForm EXCEPT !.name = "EditEventDialog", !.late = TRUE]
QuickCreateDialog == [Creation EXCEPT !.name = "QuickCreateDialog", !.late = TRUE]
NewMeetingModal == [Creation EXCEPT !.name = "NewMeetingModal", !.late = TRUE]
EditableText == [WholeForm EXCEPT !.name = "EditableText", !.late = TRUE]
EmbedUpload ==
    [Creation EXCEPT !.name = "EmbedUpload", !.locks = FALSE, !.then = "drops", !.steps = TRUE]

----------------------------------------------------------------------------
\* Accounts, workspaces and administration

RegisterPage == [Creation EXCEPT !.name = "RegisterPage"]
ProfileSetupPage == [WholeForm EXCEPT !.name = "ProfileSetupPage", !.late = TRUE]
ProfileSection == [WholeForm EXCEPT !.name = "ProfileSection", !.then = "stays"]
CreateTokenDialog == [Creation EXCEPT !.name = "CreateTokenDialog", !.late = TRUE]
NewWorkspaceDialog == [Creation EXCEPT !.name = "NewWorkspaceDialog", !.late = TRUE]
AddMemberForm == [Creation EXCEPT !.name = "AddMemberForm", !.then = "clears"]
BroadcastSection == [Creation EXCEPT !.name = "BroadcastSection", !.then = "clears"]
FeedbackDialog == [Creation EXCEPT !.name = "FeedbackDialog"]

----------------------------------------------------------------------------
AllForms ==
    { TakeTaskDialog, ReassignDialog, CancelDialog, ReopenDialog, DelayDialog, NewTaskDialog,
      TaskComment, TaskRowDialog, TaskDrawerDialog, ReassignFromRow, ReassignFromDrawer,
      TaskReferencePicker, RiskCreateDialog, RiskEditDialog, SendForApprovalDialog, ApprovalComment,
      ProjectStep, FirstIterationStep, NewIterationWizard, EditProjectDialog,
      IterationEditDialog, AddCollaborator, TransferOwnership, AutonomyForm,
      CreateSampleDialog, CreateExperimentDialog, ArtifactUpload, SampleEditPanel,
      ExperimentTitle, PropertyEditor, NewExperimentTag, NewSampleTag, TagRow, PagesPanel,
      WikiNewPage, NewEventDialog, EditEventDialog, QuickCreateDialog, NewMeetingModal,
      EditableText, EmbedUpload, RegisterPage, ProfileSetupPage, ProfileSection, CreateTokenDialog,
      NewWorkspaceDialog, AddMemberForm, BroadcastSection, FeedbackDialog }

\* Forms in which one draft may create two objects: Enter is not locked (tags,
\* wiki), the first iteration is left while saving, the iteration wizard is
\* walked back past its creation (and its Skip never locked), or a later call fails and all are repeated.
Doubles ==
    {"NewExperimentTag", "NewSampleTag", "WikiNewPage", "FirstIterationStep",
     "NewIterationWizard", "CreateExperimentDialog", "ArtifactUpload"}

\* Forms whose typed input is refilled while the user types.
Refilled == {"RiskEditDialog", "EditProjectDialog", "AutonomyForm", "SendForApprovalDialog"}

\* Forms that an earlier submission's answer closes after they were opened anew.
LateClosed ==
    {"FirstIterationStep", "EditProjectDialog", "IterationEditDialog",
     "CreateSampleDialog", "CreateExperimentDialog", "TagRow", "PagesPanel",
     "NewEventDialog", "EditEventDialog", "QuickCreateDialog", "NewMeetingModal",
     "EditableText", "ProfileSetupPage", "CreateTokenDialog", "NewWorkspaceDialog"}

\* Forms of a task's card or row: its move to another column takes them away.
Moved ==
    {"TakeTaskDialog", "ReassignDialog", "CancelDialog", "ReopenDialog", "DelayDialog", "TaskRowDialog",
     "ReassignFromRow"}

\* Forms emptied before the answer: a refused save loses the input.
Dropped == {"ExperimentTitle", "PropertyEditor", "TaskReferencePicker", "EmbedUpload"}

\* Forms whose text a second answer to an earlier, doubled submission empties.
Emptied == {"NewExperimentTag", "NewSampleTag"}

\* Forms that send untouched fields as they were when the form opened.
StaleDrafts ==
    {"IterationEditDialog", "SampleEditPanel", "TagRow", "EditEventDialog", "EditableText",
     "ProfileSetupPage", "ProfileSection", "PropertyEditor", "ReassignDialog", "ReassignFromRow",
     "ReassignFromDrawer"}
=============================================================================
