--------------------------- MODULE PageRevisions ---------------------------
(***************************************************************************)
(* The page module (internal/page): pages, their immutable revisions, the  *)
(* If-Match guarded save, restore, candidate approval and rejection, and   *)
(* the collection of old auto-saves.                                       *)
(*                                                                         *)
(* Every HTTP handler reads the page row (and the revision it names) with  *)
(* its own statement and only then opens the transaction that writes, so a *)
(* request is two steps, Begin... and ...Commit, and other requests run in *)
(* between.  The transaction itself is one step: each of them updates the  *)
(* row of the page or of the candidate, holds its row locks to the end and *)
(* takes no decision from an unlocked read.  A response is a third step,   *)
(* because the save handler reads the page again to fill the ETag.         *)
(***************************************************************************)
EXTENDS Naturals, FiniteSets

CONSTANTS
  Pages,        \* page ids
  Clients,      \* API clients; each has at most one request in flight
  MaxRevisions, \* bound: how many revisions may ever be inserted
  KeepNewest,   \* auto-saves of a page the collector keeps (20 in the code)
  Handlers      \* the handlers in use, a subset of AllHandlers

AllHandlers == {"update", "candidate", "restore", "approve", "reject", "gc"}

ASSUME PagesAssumption     == Pages # {}
ASSUME RevisionsAssumption == MaxRevisions \in Nat
ASSUME KeepAssumption      == KeepNewest \in Nat
ASSUME HandlersAssumption  == Handlers \subseteq AllHandlers

RevisionId == 1..MaxRevisions
None       == 0                \* SQL NULL, and the empty ETag of a client
OptRevision == {None} \cup RevisionId

Sources  == {"human", "auto_save", "restore"}
Statuses == {"current", "superseded", "candidate", "rejected"}

VARIABLES
  inserted, \* number of revisions inserted so far; ids grow with created_at
  rows,     \* the ids present in page_revisions
  body,     \* the immutable columns of a revision
  status,   \* page_revisions.status
  parent,   \* page_revisions.parent_revision_id
  shown,    \* pages.current_revision_id; None while the page does not exist
  gc,       \* the transaction of GCAutoSaves
  req,      \* the request each client has in flight
  pc,       \* how far the handler of that request is
  made,     \* the revision its transaction installed or staged
  etag,     \* the last ETag each client was handed for each page
  basis     \* the content each client's copy of each page starts from

tables  == <<inserted, rows, body, status, parent, shown>>
clients == <<etag, basis>>
flight  == <<req, pc, made>>
vars    == <<tables, gc, flight, clients>>

(***************************************************************************)
(* A revision's content stands for blob_hash: the id of the revision that  *)
(* first held it.  retention_class is a function of the source.            *)
(***************************************************************************)
Body == [page: Pages, content: OptRevision, source: Sources,
         restoreOf: OptRevision]

Request == [op: AllHandlers, page: Pages,
            old: OptRevision,      \* pg.CurrentRevisionID as the handler read it
            expected: OptRevision, \* the revision named by If-Match
            target: OptRevision,   \* revision_id of restore, cand_id
            source: Sources]

GCTransaction == [stage: {"idle", "within", "all"}, nulled: SUBSET RevisionId]

TypeOK ==
  /\ inserted \in 0..MaxRevisions
  /\ rows \subseteq 1..inserted
  /\ body \in [RevisionId -> Body]
  /\ status \in [RevisionId -> Statuses]
  /\ parent \in [RevisionId -> OptRevision]
  /\ shown \in [Pages -> OptRevision]
  /\ gc \in GCTransaction
  /\ req \in [Clients -> Request]
  /\ pc \in [Clients -> {"idle", "begun", "committed"}]
  /\ made \in [Clients -> OptRevision]
  /\ etag \in [Clients -> [Pages -> OptRevision]]
  /\ basis \in [Clients -> [Pages -> OptRevision]]

NoBody == [page |-> CHOOSE p \in Pages : TRUE, content |-> None,
           source |-> "human", restoreOf |-> None]
NoRequest == [op |-> "update", page |-> CHOOSE p \in Pages : TRUE, old |-> None,
              expected |-> None, target |-> None, source |-> "human"]
NoGC   == [stage |-> "idle", nulled |-> {}]

Init ==
  /\ inserted = 0
  /\ rows = {}
  /\ body = [r \in RevisionId |-> NoBody]
  /\ status = [r \in RevisionId |-> "superseded"]
  /\ parent = [r \in RevisionId |-> None]
  /\ shown = [p \in Pages |-> None]
  /\ gc = NoGC
  /\ req = [c \in Clients |-> NoRequest]
  /\ pc = [c \in Clients |-> "idle"]
  /\ made = [c \in Clients |-> None]
  /\ etag = [c \in Clients |-> [p \in Pages |-> None]]
  /\ basis = etag

----------------------------------------------------------------------------
(* Statements the handlers share. *)

New == inserted + 1
CanInsert == inserted < MaxRevisions

\* INSERT INTO page_revisions; the foreign key needs parent and restore_of
\* to exist (None is NULL).
Insert(p, content, source, par, restored) ==
  /\ CanInsert
  /\ {par, restored} \subseteq rows \cup {None}
  /\ inserted' = New
  /\ rows' = rows \cup {New}
  /\ body' = [body EXCEPT ![New] = [page |-> p, content |-> content,
                                    source |-> source, restoreOf |-> restored]]
  /\ parent' = [parent EXCEPT ![New] = par]

\* Rows the collector's open transaction has updated are locked.
Unlocked(r) == r \notin gc.nulled

\* UPDATE ... SET status = 'superseded' WHERE id = old, then UPDATE ...
\* SET status = 'current' of the revision made current.
Supersede(old, new) ==
  /\ Unlocked(old)
  /\ status' = [r \in RevisionId |->
                  IF r = new THEN "current"
                  ELSE IF r = old THEN "superseded" ELSE status[r]]

\* The handler reads the page: old is the pointer it saw.
Begin(c, op, p, expected, target, source) ==
  /\ pc[c] = "idle"
  /\ op \in Handlers
  /\ shown[p] # None
  /\ pc' = [pc EXCEPT ![c] = "begun"]
  /\ req' = [req EXCEPT ![c] = [op |-> op, page |-> p, old |-> shown[p],
                               expected |-> expected, target |-> target,
                               source |-> source]]
  /\ UNCHANGED <<tables, gc, made, clients>>

Begun(c, op) == pc[c] = "begun" /\ req[c].op = op

Commit(c, new) ==
  /\ pc' = [pc EXCEPT ![c] = "committed"]
  /\ made' = [made EXCEPT ![c] = new]
  /\ UNCHANGED <<req, gc, clients>>

\* The request is over; the model forgets it.
Finish(c) ==
  /\ pc' = [pc EXCEPT ![c] = "idle"]
  /\ req' = [req EXCEPT ![c] = NoRequest]
  /\ made' = [made EXCEPT ![c] = None]

\* A response hands the client an ETag; content is what its copy now holds.
Receive(c, p, tag, content) ==
  /\ etag' = [etag EXCEPT ![c][p] = tag]
  /\ basis' = [basis EXCEPT ![c][p] = content]

----------------------------------------------------------------------------
(* handleCreatePage and createPage: page, first revision and pointer in one *)
(* transaction; the response carries the ETag and the blocks.               *)
CreatePage(c, p) ==
  /\ pc[c] = "idle"
  /\ shown[p] = None
  /\ Insert(p, New, "human", None, None)
  /\ status' = [status EXCEPT ![New] = "current"]
  /\ shown' = [shown EXCEPT ![p] = New]
  /\ Receive(c, p, New, New)
  /\ UNCHANGED <<gc, flight>>

(* handleGetPage: the ETag and the blocks are those of the revision the     *)
(* page row names.                                                          *)
GetPage(c, p) ==
  /\ pc[c] = "idle"
  /\ shown[p] # None
  /\ Receive(c, p, shown[p], body[shown[p]].content)
  /\ UNCHANGED <<tables, gc, flight>>

----------------------------------------------------------------------------
(* handleUpdatePage and updatePage.  Without an If-Match the request ends   *)
(* in 412 before it writes, so only clients that hold an ETag are modelled. *)
BeginUpdate(c, p, op, source) ==
  /\ op \in {"update", "candidate"}
  /\ source \in {"human", "auto_save"}
  /\ etag[c][p] # None
  /\ Begin(c, op, p, etag[c][p], None, source)

\* Mutant: If-Match is checked against the page as the handler read it.
UpdateChecksStaleRead(c) ==
  LET q == req[c] IN
  /\ Begun(c, "update")
  /\ q.old = q.expected
  /\ Insert(q.page, New, q.source, q.old, None)
  /\ Supersede(q.old, New)
  /\ shown' = [shown EXCEPT ![q.page] = New]
  /\ Commit(c, New)

\* Mutant: the revision that was current is not superseded.
UpdateKeepsOldStatus(c) ==
  LET q == req[c] IN
  /\ Begun(c, "update")
  /\ shown[q.page] = q.expected
  /\ Insert(q.page, New, q.source, q.old, None)
  /\ status' = [status EXCEPT ![New] = "current"]
  /\ shown' = [shown EXCEPT ![q.page] = New]
  /\ Commit(c, New)

UpdateCommit(c) ==
  LET q == req[c] IN
  /\ Begun(c, "update")
  /\ shown[q.page] = q.expected
  /\ Insert(q.page, New, q.source, q.old, None)
  /\ Supersede(q.old, New)
  /\ shown' = [shown EXCEPT ![q.page] = New]
  /\ Commit(c, New)

\* Mutant: a candidate moves the pointer like a save.
CandidateMovesPointer(c) ==
  LET q == req[c] IN
  /\ Begun(c, "candidate")
  /\ shown[q.page] = q.expected
  /\ Insert(q.page, New, q.source, q.old, None)
  /\ status' = [status EXCEPT ![New] = "candidate"]
  /\ shown' = [shown EXCEPT ![q.page] = New]
  /\ Commit(c, New)

CandidateCommit(c) ==
  LET q == req[c] IN
  /\ Begun(c, "candidate")
  /\ shown[q.page] = q.expected
  /\ Insert(q.page, New, q.source, q.old, None)
  /\ status' = [status EXCEPT ![New] = "candidate"]
  /\ Commit(c, New)
  /\ UNCHANGED shown

\* The handler loads the page again and answers with the ETag of whatever
\* revision is current by then, next to the blocks the client sent.  A client
\* that staged a candidate still works on the page as it loaded it.
UpdateRespond(c) ==
  LET q == req[c] IN
  /\ pc[c] = "committed" /\ q.op \in {"update", "candidate"}
  /\ Receive(c, q.page, shown[q.page],
             IF q.op = "update" THEN made[c] ELSE basis[c][q.page])
  /\ Finish(c)
  /\ UNCHANGED <<tables, gc>>

----------------------------------------------------------------------------
(* handleRestore and handleRestoreInternal: the revision is read with the   *)
(* page, and the pointer moves without a guard.                             *)
\* Mutant: the page of the restored revision is not checked.
BeginRestoreAnyPage(c, p, t) ==
  /\ t \in rows
  /\ Begin(c, "restore", p, None, t, "human")

BeginRestore(c, p, t) ==
  /\ t \in rows
  /\ body[t].page = p
  /\ Begin(c, "restore", p, None, t, "human")

RestoreCommit(c) ==
  LET q == req[c] IN
  /\ Begun(c, "restore")
  /\ Insert(q.page, body[q.target].content, "restore", q.old, q.target)
  /\ Supersede(q.old, New)
  /\ shown' = [shown EXCEPT ![q.page] = New]
  /\ Commit(c, New)

(* handleApproveCandidate: the status of the candidate is checked when it   *)
(* is read, before the transaction; no statement of the transaction checks  *)
(* it again.                                                                *)
BeginApprove(c, p, t) ==
  /\ t \in rows
  /\ body[t].page = p
  /\ status[t] = "candidate"
  /\ Begin(c, "approve", p, None, t, "human")

ApproveCommit(c) ==
  LET q == req[c] IN
  /\ Begun(c, "approve")
  /\ q.target \in rows      \* pages_current_revision_id_fk
  /\ Unlocked(q.target)
  /\ Supersede(q.old, q.target)
  /\ shown' = [shown EXCEPT ![q.page] = q.target]
  /\ Commit(c, q.target)
  /\ UNCHANGED <<inserted, rows, body, parent>>

\* Restore and approve answer with the ETag of the revision they installed;
\* approve reads it again first, and fails if it was collected meanwhile.
InstallRespond(c) ==
  LET q == req[c] IN
  /\ pc[c] = "committed" /\ q.op \in {"restore", "approve"}
  /\ q.op = "approve" => made[c] \in rows
  /\ Receive(c, q.page, made[c], body[made[c]].content)
  /\ Finish(c)
  /\ UNCHANGED <<tables, gc>>

(* handleRejectCandidate: one unguarded UPDATE, after the same check.       *)
BeginReject(c, p, t) ==
  /\ t \in rows
  /\ body[t].page = p
  /\ status[t] = "candidate"
  /\ Begin(c, "reject", p, None, t, "human")

\* Mutant: the status is misspelt.
RejectMisspelt(c) ==
  LET q == req[c] IN
  /\ Begun(c, "reject")
  /\ q.target \in rows
  /\ Unlocked(q.target)
  /\ status' = [status EXCEPT ![q.target] = "reject"]
  /\ Finish(c)
  /\ UNCHANGED <<inserted, rows, body, parent, shown, gc, clients>>

RejectCommit(c) ==
  LET q == req[c] IN
  /\ Begun(c, "reject")
  /\ q.target \in rows
  /\ Unlocked(q.target)
  /\ status' = [status EXCEPT ![q.target] = "rejected"]
  /\ Finish(c)
  /\ UNCHANGED <<inserted, rows, body, parent, shown, gc, clients>>

\* A request ends before its transaction commits (412, a foreign key that no
\* longer holds, a deadlock, a cancelled context, a crash): it leaves no row.
\* A request whose response is lost has committed all the same.
Abandon(c) ==
  /\ pc[c] # "idle"
  /\ Finish(c)
  /\ UNCHANGED <<tables, gc, clients>>

----------------------------------------------------------------------------
(* GCAutoSaves: three statements of one transaction, each of which works    *)
(* out the expired rows anew.                                               *)
\* Mutant: revisions of every source are collected.
CollectableAnySource(p) ==
  {r \in rows : body[r].page = p /\ status[r] # "current"}

Collectable(p) ==
  {r \in rows : body[r].page = p /\ body[r].source = "auto_save"
                                 /\ status[r] # "current"}

\* Mutant: off by one in the rank.
ExpiredOneMore ==
  {r \in rows : LET S == Collectable(body[r].page)
                IN  r \in S /\ Cardinality({s \in S : s > r}) + 1 >= KeepNewest}

\* Ranked beyond KeepNewest by created_at DESC within their page.
Expired ==
  {r \in rows : LET S == Collectable(body[r].page)
                IN  r \in S /\ Cardinality({s \in S : s > r}) >= KeepNewest}

GCNullWithin ==
  /\ "gc" \in Handlers
  /\ gc.stage = "idle"
  /\ Expired # {}
  /\ gc' = [stage |-> "within",
            nulled |-> {r \in Expired : parent[r] \in Expired}]
  /\ UNCHANGED <<tables, flight, clients>>

GCNullAll ==
  /\ gc.stage = "within"
  /\ gc' = [stage |-> "all",
            nulled |-> gc.nulled \cup {r \in rows : parent[r] \in Expired}]
  /\ UNCHANGED <<tables, flight, clients>>

\* No surviving row may reference a deleted one.
GCDeletable ==
  /\ \A r \in rows \ Expired :
       /\ parent[r] \notin Expired \/ r \in gc.nulled
       /\ body[r].restoreOf \notin Expired
  /\ \A p \in Pages : shown[p] \notin Expired

GCDelete ==
  /\ gc.stage = "all"
  /\ IF GCDeletable
     THEN /\ rows' = rows \ Expired
          /\ parent' = [r \in RevisionId |->
                          IF r \in gc.nulled THEN None ELSE parent[r]]
     ELSE UNCHANGED <<rows, parent>>  \* 23503: the transaction rolls back
  /\ gc' = NoGC
  /\ UNCHANGED <<inserted, body, status, shown, flight, clients>>

----------------------------------------------------------------------------
Next ==
  \/ \E c \in Clients :
       \/ \E p \in Pages :
            \/ CreatePage(c, p)
            \/ GetPage(c, p)
            \/ \E op \in {"update", "candidate"}, s \in {"human", "auto_save"} :
                 BeginUpdate(c, p, op, s)
            \/ \E t \in rows : \/ BeginRestore(c, p, t)
                               \/ BeginApprove(c, p, t)
                               \/ BeginReject(c, p, t)
       \/ UpdateCommit(c)
       \/ CandidateCommit(c)
       \/ UpdateRespond(c)
       \/ RestoreCommit(c)
       \/ ApproveCommit(c)
       \/ InstallRespond(c)
       \/ RejectCommit(c)
       \/ Abandon(c)
  \/ GCNullWithin
  \/ GCNullAll
  \/ GCDelete

Spec == Init /\ [][Next]_vars

----------------------------------------------------------------------------
(***************************************************************************)
(* Properties of every mix of handlers.                                    *)
(***************************************************************************)

\* A page, the parent of a revision and the revision a restore copied are
\* revisions of that same page that still exist; a restored revision has the
\* content of the one it names (internal/page/http.go: "a new revision whose
\* content matches a previous one").
RevisionGraph ==
  /\ \A p \in Pages : shown[p] # None =>
       shown[p] \in rows /\ body[shown[p]].page = p
  /\ \A r \in rows :
       /\ parent[r] # None =>
            parent[r] \in rows /\ body[parent[r]].page = body[r].page
       /\ body[r].restoreOf # None =>
            /\ body[r].restoreOf \in rows
            /\ body[body[r].restoreOf].page = body[r].page
            /\ body[body[r].restoreOf].content = body[r].content

\* Whatever requests overlap, a page never shows a superseded revision nor a
\* candidate nobody approved.  (A rejected one it can: a reject that checked
\* the status before the approval committed still goes through.)
ShownWasInstalled ==
  \A p \in Pages : shown[p] # None => status[shown[p]] \in {"current", "rejected"}

\* A revision leaves the table only if it is an auto-save, is not current and
\* is not what any page shows; the content, source and origin of a revision
\* never change; its parent link is only ever cleared (internal/page/page.go:48
\* and :116: revisions are immutable, 'current' and 'keep_forever' ones are
\* never collected).
HistoryKept ==
  [][/\ \A r \in rows \ rows' : /\ body[r].source = "auto_save"
                                /\ status[r] # "current"
                                /\ \A p \in Pages : shown[p] # r
     /\ \A r \in rows : body'[r] = body[r]
     /\ \A r \in rows \cap rows' : parent'[r] \in {parent[r], None}]_vars

\* A collected revision leaves KeepNewest newer auto-saves of its page behind,
\* whatever was saved, approved or rejected between the three statements.
NewestKept ==
  [][\A r \in rows \ rows' :
        Cardinality({s \in rows' : /\ body[s].page = body[r].page
                                   /\ body[s].source = "auto_save"
                                   /\ s > r}) >= KeepNewest]_vars

----------------------------------------------------------------------------
(***************************************************************************)
(* Properties of the If-Match protocol on its own, without the handlers    *)
(* that move the pointer unguarded.                                        *)
(***************************************************************************)
GuardedOnly == Handlers \subseteq {"update", "candidate", "gc"}

\* The only revision of a page with status 'current' is the one it shows.
OneCurrent ==
  \A r \in rows : status[r] = "current" => shown[body[r].page] = r

\* A save replaces the revision its If-Match named, with that revision as the
\* parent, although the handler took the parent from an earlier, unguarded read:
\* the history of a page is a chain.
LinearHistory ==
  [][\A p \in Pages : shown[p] # None /\ shown'[p] # shown[p] =>
        /\ parent'[shown'[p]] = shown[p]
        /\ status'[shown[p]] = "superseded"]_vars

\* The If-Match guarded save implements a compare-and-swap register, although
\* the handler reads the page, writes it and reads it again in three separate
\* transactions (internal/page/http.go:13: a mismatch returns 412).
Register == INSTANCE PageRegister WITH
              Tags <- RevisionId, NoTag <- None,
              version <- shown, held <- etag, issued <- 1..inserted

ImplementsRegister == Register!Spec
=============================================================================
