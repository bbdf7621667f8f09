------------------------ MODULE PageRevisionsProofs ------------------------
(* Theorems about PageRevisions, for every set of pages and clients and     *)
(* every bound.                                                             *)
EXTENDS PageRevisions, FiniteSetTheorems, WellFoundedInduction, TLAPS

USE PagesAssumption, RevisionsAssumption, KeepAssumption, HandlersAssumption

----------------------------------------------------------------------------
(***************************************************************************)
(* The inductive invariant.  What a request read before its transaction    *)
(* may be stale, or collected, but it names a revision that was inserted   *)
(* on the page of the request: body is never changed and no id is reused.  *)
(***************************************************************************)
OnPage(r, p) == r \in 1..inserted /\ body[r].page = p

InFlight ==
  \A c \in Clients :
    /\ pc[c] = "begun" =>
         /\ OnPage(req[c].old, req[c].page)
         /\ req[c].op \in {"restore", "approve", "reject"} =>
              OnPage(req[c].target, req[c].page)
    /\ pc[c] = "committed" => made[c] \in 1..inserted

PageInv == TypeOK /\ InFlight /\ RevisionGraph /\ ShownWasInstalled

LEMMA Ids ==
  ASSUME TypeOK
  PROVE  /\ 1..inserted \subseteq RevisionId
         /\ rows \subseteq 1..inserted
         /\ RevisionId \subseteq OptRevision
         /\ None \in OptRevision /\ None \notin RevisionId
         /\ inserted \in Nat
BY DEF TypeOK, RevisionId, OptRevision, None

LEMMA APage == (CHOOSE p \in Pages : TRUE) \in Pages
OBVIOUS

LEMMA NoRequestType == NoRequest \in Request
BY APage DEF NoRequest, Request, AllHandlers, OptRevision, Sources

LEMMA InitInv == Init => PageInv
<1> SUFFICES ASSUME Init PROVE PageInv
  OBVIOUS
<1>1. NoBody \in Body
  BY APage DEF NoBody, Body, OptRevision, Sources
<1>2. TypeOK
  BY <1>1, NoRequestType DEF Init, TypeOK, RevisionId, OptRevision, Statuses,
     NoGC, GCTransaction, None
<1>3. InFlight /\ RevisionGraph /\ ShownWasInstalled
  BY DEF Init, InFlight, RevisionGraph, ShownWasInstalled
<1>4. QED
  BY <1>2, <1>3 DEF PageInv

\* What an insertion does to the tables, whatever it inserts.
LEMMA InsertLemma ==
  ASSUME TypeOK, NEW p \in Pages, NEW content \in OptRevision,
         NEW source \in Sources, NEW par \in OptRevision,
         NEW restored \in OptRevision,
         Insert(p, content, source, par, restored)
  PROVE  /\ New \in RevisionId /\ New \notin 1..inserted
         /\ inserted' = New /\ inserted' \in 0..MaxRevisions
         /\ rows' = rows \cup {New} /\ rows' \subseteq 1..inserted'
         /\ 1..inserted \subseteq 1..inserted' /\ New \in 1..inserted'
         /\ body' \in [RevisionId -> Body]
         /\ parent' \in [RevisionId -> OptRevision]
         /\ body'[New].page = p /\ body'[New].content = content
         /\ body'[New].restoreOf = restored /\ parent'[New] = par
         /\ \A r \in 1..inserted : body'[r] = body[r] /\ parent'[r] = parent[r]
<1>1. New \in RevisionId /\ New \notin 1..inserted
  BY DEF TypeOK, Insert, CanInsert, New, RevisionId
<1>2. /\ inserted' = New /\ inserted' \in 0..MaxRevisions
      /\ rows' = rows \cup {New} /\ rows' \subseteq 1..inserted'
      /\ 1..inserted \subseteq 1..inserted' /\ New \in 1..inserted'
  BY DEF TypeOK, Insert, CanInsert, New
<1> DEFINE b == [page |-> p, content |-> content, source |-> source,
                 restoreOf |-> restored]
<1>3. b \in Body
  BY DEF Body
<1>4. body' = [body EXCEPT ![New] = b] /\ parent' = [parent EXCEPT ![New] = par]
  BY DEF Insert
<1>5. body' \in [RevisionId -> Body] /\ parent' \in [RevisionId -> OptRevision]
  BY <1>1, <1>3, <1>4 DEF TypeOK
<1>6. body'[New] = b /\ parent'[New] = par
  BY <1>1, <1>4 DEF TypeOK
<1>7. \A r \in 1..inserted : body'[r] = body[r] /\ parent'[r] = parent[r]
  BY <1>1, <1>4, Ids DEF TypeOK
<1>8. QED
  BY <1>1, <1>2, <1>5, <1>6, <1>7

\* The revision graph survives an insertion whose references are on the page.
LEMMA InsertGraph ==
  ASSUME TypeOK, RevisionGraph, NEW p \in Pages, NEW content \in OptRevision,
         NEW source \in Sources, NEW par \in OptRevision,
         NEW restored \in OptRevision,
         Insert(p, content, source, par, restored),
         par = None \/ body[par].page = p,
         restored = None \/ (body[restored].page = p /\ body[restored].content = content),
         shown' \in {shown, [shown EXCEPT ![p] = New]},
         shown \in [Pages -> OptRevision]
  PROVE  RevisionGraph'
<1>1. /\ New \in RevisionId /\ New \notin 1..inserted
      /\ rows' = rows \cup {New} /\ rows' \subseteq 1..inserted'
      /\ 1..inserted \subseteq 1..inserted' /\ New \in 1..inserted'
      /\ body'[New].page = p /\ body'[New].content = content
      /\ body'[New].restoreOf = restored /\ parent'[New] = par
      /\ \A r \in 1..inserted : body'[r] = body[r] /\ parent'[r] = parent[r]
  BY InsertLemma
<1>2. rows \subseteq 1..inserted
  BY Ids
<1>3. {par, restored} \subseteq rows \cup {None}
  BY DEF Insert
<1>4. ASSUME NEW r \in rows'
      PROVE  /\ parent'[r] # None =>
                  parent'[r] \in rows' /\ body'[parent'[r]].page = body'[r].page
             /\ body'[r].restoreOf # None =>
                  /\ body'[r].restoreOf \in rows'
                  /\ body'[body'[r].restoreOf].page = body'[r].page
                  /\ body'[body'[r].restoreOf].content = body'[r].content
  <2>1. CASE r = New
    BY <1>1, <1>2, <1>3, <2>1
  <2>2. CASE r \in rows
    <3>1. r \in 1..inserted /\ body'[r] = body[r] /\ parent'[r] = parent[r]
      BY <1>1, <1>2, <2>2
    <3>2. parent[r] # None =>
            /\ parent[r] \in rows /\ parent[r] \in 1..inserted
            /\ body[parent[r]].page = body[r].page
      BY <1>2, <2>2 DEF RevisionGraph
    <3>3. body[r].restoreOf # None =>
            /\ body[r].restoreOf \in rows /\ body[r].restoreOf \in 1..inserted
            /\ body[body[r].restoreOf].page = body[r].page
            /\ body[body[r].restoreOf].content = body[r].content
      BY <1>2, <2>2 DEF RevisionGraph
    <3>4. QED
      BY <1>1, <3>1, <3>2, <3>3
  <2>3. QED
    BY <1>1, <2>1, <2>2
<1>5. ASSUME NEW x \in Pages, shown'[x] # None
      PROVE  shown'[x] \in rows' /\ body'[shown'[x]].page = x
  <2>1. CASE shown'[x] = shown[x]
    BY <1>1, <1>2, <1>5, <2>1 DEF RevisionGraph
  <2>2. CASE shown'[x] # shown[x]
    BY <1>1, <2>2
  <2>3. QED
    BY <2>1, <2>2
<1>6. QED
  BY <1>4, <1>5 DEF RevisionGraph


----------------------------------------------------------------------------
(* The request of one client moves; the others still name revisions of     *)
(* their pages.                                                            *)

\* body and the ids in use only grow, so what was on a page stays on it.
Grows == /\ 1..inserted \subseteq 1..inserted'
         /\ \A r \in 1..inserted : body'[r] = body[r]

LEMMA OnPageGrows ==
  ASSUME Grows, NEW r, NEW p, OnPage(r, p)
  PROVE  OnPage(r, p)'
BY DEF Grows, OnPage

LEMMA CommitLemma ==
  ASSUME TypeOK, InFlight, NEW c \in Clients, NEW new \in OptRevision,
         Commit(c, new), Grows, new \in 1..inserted'
  PROVE  /\ InFlight'
         /\ req' \in [Clients -> Request]
         /\ pc' \in [Clients -> {"idle", "begun", "committed"}]
         /\ made' \in [Clients -> OptRevision]
         /\ gc' \in GCTransaction
         /\ etag' \in [Clients -> [Pages -> OptRevision]]
         /\ basis' \in [Clients -> [Pages -> OptRevision]]
<1>1. /\ req' \in [Clients -> Request]
      /\ pc' \in [Clients -> {"idle", "begun", "committed"}]
      /\ made' \in [Clients -> OptRevision]
      /\ gc' \in GCTransaction
      /\ etag' \in [Clients -> [Pages -> OptRevision]]
      /\ basis' \in [Clients -> [Pages -> OptRevision]]
  BY DEF TypeOK, Commit, clients
<1>2. ASSUME NEW d \in Clients
      PROVE  /\ pc'[d] = "begun" =>
                  /\ OnPage(req[d].old, req[d].page)'
                  /\ req'[d].op \in {"restore", "approve", "reject"} =>
                       OnPage(req[d].target, req[d].page)'
             /\ pc'[d] = "committed" => made'[d] \in 1..inserted'
  <2>1. CASE d = c
    BY <2>1 DEF TypeOK, Commit
  <2>2. CASE d # c
    <3>1. pc'[d] = pc[d] /\ made'[d] = made[d] /\ req' = req
      BY <2>2 DEF TypeOK, Commit
    <3>2. QED
      BY <3>1, OnPageGrows DEF InFlight, Grows
  <2>3. QED
    BY <2>1, <2>2
<1>3. QED
  BY <1>1, <1>2 DEF InFlight

LEMMA FinishLemma ==
  ASSUME TypeOK, InFlight, NEW c \in Clients, Finish(c), Grows
  PROVE  /\ InFlight'
         /\ req' \in [Clients -> Request]
         /\ pc' \in [Clients -> {"idle", "begun", "committed"}]
         /\ made' \in [Clients -> OptRevision]
<1>1. /\ req' \in [Clients -> Request]
      /\ pc' \in [Clients -> {"idle", "begun", "committed"}]
      /\ made' \in [Clients -> OptRevision]
  BY NoRequestType, Ids DEF TypeOK, Finish
<1>2. ASSUME NEW d \in Clients
      PROVE  /\ pc'[d] = "begun" =>
                  /\ OnPage(req[d].old, req[d].page)'
                  /\ req'[d].op \in {"restore", "approve", "reject"} =>
                       OnPage(req[d].target, req[d].page)'
             /\ pc'[d] = "committed" => made'[d] \in 1..inserted'
  <2>1. CASE d = c
    BY <2>1 DEF TypeOK, Finish
  <2>2. CASE d # c
    <3>1. pc'[d] = pc[d] /\ made'[d] = made[d] /\ req'[d] = req[d]
      BY <2>2 DEF TypeOK, Finish
    <3>2. QED
      BY <3>1, OnPageGrows DEF InFlight, Grows
  <2>3. QED
    BY <2>1, <2>2
<1>3. QED
  BY <1>1, <1>2 DEF InFlight

LEMMA BeginLemma ==
  ASSUME PageInv, NEW c \in Clients, NEW op \in AllHandlers, NEW p \in Pages,
         NEW expected \in OptRevision, NEW target \in OptRevision,
         NEW source \in Sources, Begin(c, op, p, expected, target, source),
         op \in {"restore", "approve", "reject"} => OnPage(target, p)
  PROVE  PageInv'
<1> USE DEF PageInv
<1> DEFINE q == [op |-> op, page |-> p, old |-> shown[p], expected |-> expected,
                 target |-> target, source |-> source]
<1>1. shown[p] \in rows /\ body[shown[p]].page = p /\ shown[p] \in OptRevision
  BY DEF Begin, RevisionGraph, TypeOK
<1>2. q \in Request
  BY <1>1 DEF Request
<1>3. TypeOK'
  BY <1>2 DEF Begin, TypeOK, tables, clients
<1>4. OnPage(shown[p], p)
  BY <1>1, Ids DEF OnPage
<1>5. Grows
  BY DEF Begin, tables, Grows
<1>6. ASSUME NEW d \in Clients
      PROVE  /\ pc'[d] = "begun" =>
                  /\ OnPage(req[d].old, req[d].page)'
                  /\ req'[d].op \in {"restore", "approve", "reject"} =>
                       OnPage(req[d].target, req[d].page)'
             /\ pc'[d] = "committed" => made'[d] \in 1..inserted'
  <2>1. CASE d = c
    <3>1. pc'[d] = "begun" /\ req'[d] = q
      BY <2>1 DEF TypeOK, Begin
    <3>2. OnPage(shown[p], p)' /\ (op \in {"restore", "approve", "reject"} =>
                                   OnPage(target, p)')
      BY <1>4, <1>5, OnPageGrows DEF Begin, tables, OnPage, Grows
    <3>3. OnPage(req[d].old, req[d].page)'
      BY <3>1, <3>2, <1>4, <1>5 DEF OnPage, Grows
    <3>4. req'[d].op \in {"restore", "approve", "reject"} =>
            OnPage(req[d].target, req[d].page)'
      BY <3>1, <1>5 DEF OnPage, Grows
    <3>5. QED
      BY <3>1, <3>3, <3>4
  <2>2. CASE d # c
    <3>1. pc'[d] = pc[d] /\ made'[d] = made[d] /\ req'[d] = req[d]
      BY <2>2 DEF TypeOK, Begin
    <3>2. QED
      BY <3>1, <1>5, OnPageGrows DEF InFlight, Grows
  <2>3. QED
    BY <2>1, <2>2
<1>7. InFlight'
  BY <1>6 DEF InFlight
<1>8. RevisionGraph' /\ ShownWasInstalled'
  BY DEF Begin, tables, RevisionGraph, ShownWasInstalled
<1>9. QED
  BY <1>3, <1>7, <1>8

----------------------------------------------------------------------------
(* Installing a revision on a page: its status becomes current and the      *)
(* page shows it, whichever revision of the page is superseded.             *)
LEMMA InstallLemma ==
  ASSUME PageInv, NEW p \in Pages, NEW old, NEW new \in RevisionId,
         OnPage(old, p), Supersede(old, new),
         shown' = [shown EXCEPT ![p] = new],
         new \in rows => body[new].page = p
  PROVE  /\ ShownWasInstalled'
         /\ status' \in [RevisionId -> Statuses]
         /\ shown' \in [Pages -> OptRevision]
<1> USE DEF PageInv
<1>1. status' \in [RevisionId -> Statuses]
  BY DEF Supersede, TypeOK, Statuses
<1>2. shown' \in [Pages -> OptRevision]
  BY Ids DEF TypeOK
<1>3. ASSUME NEW x \in Pages, shown'[x] # None
      PROVE  status'[shown'[x]] \in {"current", "rejected"}
  <2>1. CASE x = p
    BY <2>1 DEF TypeOK, Supersede
  <2>2. CASE x # p
    <3>1. shown'[x] = shown[x]
      BY <2>2 DEF TypeOK
    <3>2. shown[x] \in rows /\ body[shown[x]].page = x /\ shown[x] \in RevisionId
      BY <1>3, <3>1, Ids DEF RevisionGraph
    <3>3. shown[x] # old /\ shown[x] # new
      BY <2>2, <3>2 DEF OnPage
    <3>4. status'[shown[x]] = status[shown[x]]
      BY <3>2, <3>3 DEF Supersede
    <3>5. QED
      BY <1>3, <3>1, <3>4 DEF ShownWasInstalled
  <2>3. QED
    BY <2>1, <2>2
<1>4. QED
  BY <1>1, <1>2, <1>3 DEF ShownWasInstalled

LEMMA CreatePageInv ==
  ASSUME PageInv, NEW c \in Clients, NEW p \in Pages, CreatePage(c, p)
  PROVE  PageInv'
<1> USE DEF PageInv
<1>1. Insert(p, New, "human", None, None)
  BY DEF CreatePage
<1>2. New \in RevisionId /\ New \in OptRevision
  BY <1>1, Ids DEF Insert, CanInsert, New, RevisionId, TypeOK
<1>3. /\ New \notin 1..inserted
      /\ inserted' \in 0..MaxRevisions /\ rows' \subseteq 1..inserted'
      /\ rows' = rows \cup {New}
      /\ 1..inserted \subseteq 1..inserted' /\ New \in 1..inserted'
      /\ body' \in [RevisionId -> Body]
      /\ parent' \in [RevisionId -> OptRevision]
      /\ \A r \in 1..inserted : body'[r] = body[r] /\ parent'[r] = parent[r]
  BY <1>1, <1>2, Ids, InsertLemma DEF Sources
<1>4. TypeOK'
  BY <1>2, <1>3 DEF CreatePage, Receive, TypeOK, flight, Statuses
<1>5. InFlight'
  BY <1>3 DEF CreatePage, flight, InFlight, OnPage
<1>6. RevisionGraph'
  <2>1. shown' \in {shown, [shown EXCEPT ![p] = New]} /\ shown \in [Pages -> OptRevision]
    BY DEF CreatePage, TypeOK
  <2>2. QED
    BY <1>1, <1>2, <2>1, Ids, InsertGraph DEF Sources
<1>7. ASSUME NEW x \in Pages, shown'[x] # None
      PROVE  status'[shown'[x]] \in {"current", "rejected"}
  <2>1. CASE x = p
    BY <1>2, <2>1 DEF CreatePage, TypeOK
  <2>2. CASE x # p
    <3>1. shown'[x] = shown[x] /\ shown[x] \in rows
      BY <1>7, <2>2 DEF CreatePage, TypeOK, RevisionGraph
    <3>2. status'[shown[x]] = status[shown[x]]
      BY <1>2, <1>3, <3>1, Ids DEF CreatePage, TypeOK
    <3>3. QED
      BY <1>7, <3>1, <3>2 DEF ShownWasInstalled
  <2>3. QED
    BY <2>1, <2>2
<1>8. QED
  BY <1>4, <1>5, <1>6, <1>7 DEF ShownWasInstalled

LEMMA ReceiveLemma ==
  ASSUME TypeOK, NEW c \in Clients, NEW p \in Pages, NEW tag \in OptRevision,
         NEW content \in OptRevision, Receive(c, p, tag, content)
  PROVE  /\ etag' \in [Clients -> [Pages -> OptRevision]]
         /\ basis' \in [Clients -> [Pages -> OptRevision]]
BY DEF Receive, TypeOK

LEMMA GetPageInv ==
  ASSUME PageInv, NEW c \in Clients, NEW p \in Pages, GetPage(c, p)
  PROVE  PageInv'
<1> USE DEF PageInv
<1>1. shown[p] \in RevisionId /\ shown[p] \in OptRevision
  BY DEF GetPage, TypeOK, OptRevision
<1>2. body[shown[p]].content \in OptRevision
  BY <1>1 DEF TypeOK, Body
<1>3. TypeOK'
  BY <1>1, <1>2, ReceiveLemma DEF GetPage, TypeOK, tables, flight
<1>4. InFlight' /\ RevisionGraph' /\ ShownWasInstalled'
  BY DEF GetPage, tables, flight, InFlight, OnPage, RevisionGraph,
     ShownWasInstalled
<1>5. QED
  BY <1>3, <1>4

LEMMA BeginInv ==
  ASSUME PageInv, NEW c \in Clients, NEW p \in Pages,
         \/ \E op \in {"update", "candidate"}, s \in {"human", "auto_save"} :
              BeginUpdate(c, p, op, s)
         \/ \E t \in rows : BeginRestore(c, p, t) \/ BeginApprove(c, p, t)
                                                  \/ BeginReject(c, p, t)
  PROVE  PageInv'
<1>1. ASSUME NEW op \in {"update", "candidate"},
             NEW s \in {"human", "auto_save"}, BeginUpdate(c, p, op, s)
      PROVE  PageInv'
  <2>1. Begin(c, op, p, etag[c][p], None, s)
    BY <1>1 DEF BeginUpdate
  <2>2. /\ op \in AllHandlers /\ s \in Sources /\ etag[c][p] \in OptRevision
        /\ None \in OptRevision /\ op \notin {"restore", "approve", "reject"}
    BY Ids DEF AllHandlers, Sources, PageInv, TypeOK
  <2>3. QED
    BY <2>1, <2>2, BeginLemma
<1>2. ASSUME NEW t \in rows, BeginRestore(c, p, t) \/ BeginApprove(c, p, t)
                                                   \/ BeginReject(c, p, t)
      PROVE  PageInv'
  <2>1. PICK op \in {"restore", "approve", "reject"} :
          Begin(c, op, p, None, t, "human")
    BY <1>2 DEF BeginRestore, BeginApprove, BeginReject
  <2>2. /\ op \in AllHandlers /\ "human" \in Sources
        /\ None \in OptRevision /\ t \in OptRevision
    BY Ids DEF AllHandlers, Sources, PageInv
  <2>3. OnPage(t, p)
    BY <1>2, Ids DEF BeginRestore, BeginApprove, BeginReject, OnPage, PageInv
  <2>4. QED
    BY <2>1, <2>2, <2>3, BeginLemma
<1>3. QED
  BY <1>1, <1>2

----------------------------------------------------------------------------
(* The transactions *)

LEMMA UpdateCommitInv ==
  ASSUME PageInv, NEW c \in Clients, UpdateCommit(c)
  PROVE  PageInv'
<1> USE DEF PageInv
<1> DEFINE q == req[c]
<1>1. Insert(q.page, New, q.source, q.old, None) /\ Commit(c, New)
      /\ Supersede(q.old, New) /\ shown' = [shown EXCEPT ![q.page] = New]
  BY DEF UpdateCommit
<1>2. New \in RevisionId /\ New \in OptRevision /\ New \notin rows
  BY <1>1, Ids DEF Insert, CanInsert, New, RevisionId, TypeOK
<1>3. q \in Request /\ q.page \in Pages /\ q.source \in Sources
      /\ q.old \in OptRevision
  BY DEF TypeOK, Request
<1>4. OnPage(q.old, q.page)
  BY DEF UpdateCommit, Begun, InFlight
<1>5. /\ inserted' \in 0..MaxRevisions /\ rows' \subseteq 1..inserted'
      /\ 1..inserted \subseteq 1..inserted' /\ New \in 1..inserted'
      /\ body' \in [RevisionId -> Body]
      /\ parent' \in [RevisionId -> OptRevision]
      /\ \A r \in 1..inserted : body'[r] = body[r] /\ parent'[r] = parent[r]
  BY <1>1, <1>2, <1>3, Ids, InsertLemma
<1>6. Grows
  BY <1>5 DEF Grows
<1>7. /\ ShownWasInstalled' /\ status' \in [RevisionId -> Statuses]
      /\ shown' \in [Pages -> OptRevision]
  BY <1>1, <1>2, <1>3, <1>4, InstallLemma
<1>8. InFlight' /\ TypeOK'
  BY <1>1, <1>2, <1>5, <1>6, <1>7, CommitLemma DEF TypeOK
<1>9. RevisionGraph'
  <2>1. shown' \in {shown, [shown EXCEPT ![q.page] = New]}
        /\ shown \in [Pages -> OptRevision]
    BY <1>1 DEF TypeOK
  <2>2. q.old = None \/ body[q.old].page = q.page
    BY <1>4 DEF OnPage
  <2>3. QED
    BY <1>1, <1>2, <1>3, <2>1, <2>2, Ids, InsertGraph
<1>10. QED
  BY <1>7, <1>8, <1>9

LEMMA CandidateCommitInv ==
  ASSUME PageInv, NEW c \in Clients, CandidateCommit(c)
  PROVE  PageInv'
<1> USE DEF PageInv
<1> DEFINE q == req[c]
<1>1. Insert(q.page, New, q.source, q.old, None) /\ Commit(c, New)
      /\ shown' = shown /\ status' = [status EXCEPT ![New] = "candidate"]
  BY DEF CandidateCommit
<1>2. New \in RevisionId /\ New \in OptRevision /\ New \notin rows
  BY <1>1, Ids DEF Insert, CanInsert, New, RevisionId, TypeOK
<1>3. q \in Request /\ q.page \in Pages /\ q.source \in Sources
      /\ q.old \in OptRevision
  BY DEF TypeOK, Request
<1>4. OnPage(q.old, q.page)
  BY DEF CandidateCommit, Begun, InFlight
<1>5. /\ inserted' \in 0..MaxRevisions /\ rows' \subseteq 1..inserted'
      /\ 1..inserted \subseteq 1..inserted' /\ New \in 1..inserted'
      /\ body' \in [RevisionId -> Body]
      /\ parent' \in [RevisionId -> OptRevision]
      /\ \A r \in 1..inserted : body'[r] = body[r] /\ parent'[r] = parent[r]
  BY <1>1, <1>2, <1>3, Ids, InsertLemma
<1>6. Grows
  BY <1>5 DEF Grows
<1>7. ShownWasInstalled'
  BY <1>1, <1>2, Ids DEF ShownWasInstalled, RevisionGraph, TypeOK
<1>8. status' \in [RevisionId -> Statuses]
  BY <1>1 DEF TypeOK, Statuses
<1>9. InFlight' /\ TypeOK'
  BY <1>1, <1>2, <1>5, <1>6, <1>8, CommitLemma DEF TypeOK
<1>10. RevisionGraph'
  <2>1. shown' \in {shown, [shown EXCEPT ![q.page] = New]}
        /\ shown \in [Pages -> OptRevision]
    BY <1>1 DEF TypeOK
  <2>2. q.old = None \/ body[q.old].page = q.page
    BY <1>4 DEF OnPage
  <2>3. QED
    BY <1>1, <1>2, <1>3, <2>1, <2>2, Ids, InsertGraph
<1>11. QED
  BY <1>7, <1>9, <1>10

LEMMA RestoreCommitInv ==
  ASSUME PageInv, NEW c \in Clients, RestoreCommit(c)
  PROVE  PageInv'
<1> USE DEF PageInv
<1> DEFINE q == req[c]
<1>1. Insert(q.page, body[q.target].content, "restore", q.old, q.target)
      /\ Commit(c, New) /\ Supersede(q.old, New)
      /\ shown' = [shown EXCEPT ![q.page] = New]
  BY DEF RestoreCommit
<1>2. New \in RevisionId /\ New \in OptRevision /\ New \notin rows
  BY <1>1, Ids DEF Insert, CanInsert, New, RevisionId, TypeOK
<1>3. q \in Request /\ q.page \in Pages /\ q.old \in OptRevision
      /\ q.target \in OptRevision /\ "restore" \in Sources
  BY DEF TypeOK, Request, Sources
<1>4. OnPage(q.old, q.page) /\ OnPage(q.target, q.page)
  BY DEF RestoreCommit, Begun, InFlight
<1>5. body[q.target].content \in OptRevision
  BY <1>4, Ids DEF TypeOK, Body, OnPage
<1>6. /\ inserted' \in 0..MaxRevisions /\ rows' \subseteq 1..inserted'
      /\ 1..inserted \subseteq 1..inserted' /\ New \in 1..inserted'
      /\ body' \in [RevisionId -> Body]
      /\ parent' \in [RevisionId -> OptRevision]
      /\ \A r \in 1..inserted : body'[r] = body[r] /\ parent'[r] = parent[r]
  BY <1>1, <1>2, <1>3, <1>5, Ids, InsertLemma
<1>7. Grows
  BY <1>6 DEF Grows
<1>8. /\ ShownWasInstalled' /\ status' \in [RevisionId -> Statuses]
      /\ shown' \in [Pages -> OptRevision]
  BY <1>1, <1>2, <1>3, <1>4, InstallLemma
<1>9. InFlight' /\ TypeOK'
  BY <1>1, <1>2, <1>6, <1>7, <1>8, CommitLemma DEF TypeOK
<1>10. RevisionGraph'
  <2>1. shown' \in {shown, [shown EXCEPT ![q.page] = New]}
        /\ shown \in [Pages -> OptRevision]
    BY <1>1 DEF TypeOK
  <2>2. body[q.old].page = q.page /\ body[q.target].page = q.page
    BY <1>4 DEF OnPage
  <2>3. QED
    BY <1>1, <1>2, <1>3, <1>5, <2>1, <2>2, Ids, InsertGraph
<1>11. QED
  BY <1>8, <1>9, <1>10

LEMMA ApproveCommitInv ==
  ASSUME PageInv, NEW c \in Clients, ApproveCommit(c)
  PROVE  PageInv'
<1> USE DEF PageInv
<1> DEFINE q == req[c]
<1>1. /\ q.target \in rows /\ Supersede(q.old, q.target)
      /\ shown' = [shown EXCEPT ![q.page] = q.target] /\ Commit(c, q.target)
      /\ UNCHANGED <<inserted, rows, body, parent>>
  BY DEF ApproveCommit
<1>2. q.page \in Pages
  BY DEF TypeOK, Request
<1>3. OnPage(q.old, q.page) /\ OnPage(q.target, q.page)
  BY DEF ApproveCommit, Begun, InFlight
<1>4. q.target \in RevisionId /\ q.target \in OptRevision
      /\ q.target \in 1..inserted'
  BY <1>1, <1>3, Ids DEF OnPage
<1>5. Grows
  BY <1>1 DEF Grows
<1>6. /\ ShownWasInstalled' /\ status' \in [RevisionId -> Statuses]
      /\ shown' \in [Pages -> OptRevision]
  BY <1>1, <1>2, <1>3, <1>4, InstallLemma DEF OnPage
<1>7. InFlight' /\ TypeOK'
  BY <1>1, <1>4, <1>5, <1>6, CommitLemma DEF TypeOK
<1>8. ASSUME NEW x \in Pages, shown'[x] # None
      PROVE  shown'[x] \in rows' /\ body'[shown'[x]].page = x
  BY <1>1, <1>3, <1>8 DEF RevisionGraph, OnPage, TypeOK
<1>9. RevisionGraph'
  BY <1>1, <1>8 DEF RevisionGraph
<1>10. QED
  BY <1>6, <1>7, <1>9

LEMMA RejectCommitInv ==
  ASSUME PageInv, NEW c \in Clients, RejectCommit(c)
  PROVE  PageInv'
<1> USE DEF PageInv
<1>1. Grows
  BY DEF RejectCommit, Grows
<1>2. TypeOK' /\ InFlight'
  BY <1>1, FinishLemma DEF RejectCommit, TypeOK, clients, Statuses
<1>3. RevisionGraph'
  BY DEF RejectCommit, RevisionGraph
<1>4. ShownWasInstalled'
  BY Ids DEF RejectCommit, ShownWasInstalled, RevisionGraph, TypeOK
<1>5. QED
  BY <1>2, <1>3, <1>4

LEMMA RespondInv ==
  ASSUME PageInv, NEW c \in Clients,
         UpdateRespond(c) \/ InstallRespond(c) \/ Abandon(c)
  PROVE  PageInv'
<1> USE DEF PageInv
<1> DEFINE q == req[c]
<1>1. Finish(c) /\ UNCHANGED <<tables, gc>>
  BY DEF UpdateRespond, InstallRespond, Abandon
<1>2. Grows
  BY <1>1 DEF Grows, tables
<1>3. InFlight' /\ req' \in [Clients -> Request]
      /\ pc' \in [Clients -> {"idle", "begun", "committed"}]
      /\ made' \in [Clients -> OptRevision]
  BY <1>1, <1>2, FinishLemma
<1>4. /\ etag' \in [Clients -> [Pages -> OptRevision]]
      /\ basis' \in [Clients -> [Pages -> OptRevision]]
  <2>1. q.page \in Pages /\ made[c] \in OptRevision
    BY DEF TypeOK, Request
  <2>2. CASE UpdateRespond(c)
    <3>1. shown[q.page] \in OptRevision /\ basis[c][q.page] \in OptRevision
      BY <2>1 DEF TypeOK
    <3>2. QED
      BY <2>1, <2>2, <3>1, ReceiveLemma DEF UpdateRespond
  <2>3. CASE InstallRespond(c)
    <3>1. made[c] \in RevisionId
      BY <2>3, Ids DEF InstallRespond, InFlight
    <3>2. body[made[c]].content \in OptRevision
      BY <3>1 DEF TypeOK, Body
    <3>3. QED
      BY <2>1, <2>3, <3>2, ReceiveLemma DEF InstallRespond
  <2>4. CASE Abandon(c)
    BY <2>4 DEF Abandon, clients, TypeOK
  <2>5. QED
    BY <2>2, <2>3, <2>4
<1>5. TypeOK'
  BY <1>1, <1>3, <1>4 DEF TypeOK, tables
<1>6. RevisionGraph' /\ ShownWasInstalled'
  BY <1>1 DEF tables, RevisionGraph, ShownWasInstalled
<1>7. QED
  BY <1>3, <1>5, <1>6

----------------------------------------------------------------------------
(* The collector *)

LEMMA GCInv ==
  ASSUME PageInv, GCNullWithin \/ GCNullAll \/ GCDelete
  PROVE  PageInv'
<1> USE DEF PageInv
<1>1. Expired \subseteq rows
  BY DEF Expired
<1>2. CASE GCNullWithin \/ GCNullAll
  <2>1. gc' \in GCTransaction
    <3>1. rows \subseteq RevisionId /\ gc.nulled \subseteq RevisionId
      BY Ids DEF TypeOK, GCTransaction
    <3>2. PICK stage \in {"within", "all"}, N \in SUBSET RevisionId :
            gc' = [stage |-> stage, nulled |-> N]
      BY <1>1, <1>2, <3>1 DEF GCNullWithin, GCNullAll
    <3>3. QED
      BY <3>2 DEF GCTransaction
  <2>2. UNCHANGED <<tables, flight, clients>>
    BY <1>2 DEF GCNullWithin, GCNullAll
  <2>3. QED
    BY <2>1, <2>2 DEF tables, flight, clients, TypeOK, InFlight, OnPage,
       RevisionGraph, ShownWasInstalled
<1>3. CASE GCDelete /\ ~GCDeletable
  <2>1. gc' \in GCTransaction
    BY <1>3 DEF GCDelete, NoGC, GCTransaction
  <2>2. UNCHANGED <<tables, flight, clients>>
    BY <1>3 DEF GCDelete, tables
  <2>3. QED
    BY <2>1, <2>2 DEF tables, flight, clients, TypeOK, InFlight, OnPage,
       RevisionGraph, ShownWasInstalled
<1>4. CASE GCDelete /\ GCDeletable
  <2>1. /\ rows' = rows \ Expired
        /\ parent' = [r \in RevisionId |->
                        IF r \in gc.nulled THEN None ELSE parent[r]]
        /\ gc' = NoGC
        /\ UNCHANGED <<inserted, body, status, shown, flight, clients>>
    BY <1>4 DEF GCDelete
  <2>2. TypeOK'
    BY <2>1, Ids DEF TypeOK, NoGC, GCTransaction, flight, clients
  <2>3. InFlight' /\ ShownWasInstalled'
    BY <2>1 DEF InFlight, OnPage, ShownWasInstalled, flight
  <2>4. ASSUME NEW r \in rows'
        PROVE  /\ parent'[r] # None =>
                    /\ parent'[r] = parent[r] /\ parent[r] \in rows'
               /\ body[r].restoreOf # None => body[r].restoreOf \in rows'
    BY <1>4, <2>1, <2>4, Ids DEF GCDeletable, RevisionGraph
  <2>5. \A p \in Pages : shown[p] # None => shown[p] \in rows'
    BY <1>4, <2>1 DEF GCDeletable, RevisionGraph
  <2>6. RevisionGraph'
    BY <2>1, <2>4, <2>5 DEF RevisionGraph
  <2>7. QED
    BY <2>2, <2>3, <2>6
<1>5. QED
  BY <1>2, <1>3, <1>4

----------------------------------------------------------------------------
LEMMA NextInv == PageInv /\ [Next]_vars => PageInv'
<1> SUFFICES ASSUME PageInv, [Next]_vars PROVE PageInv'
  OBVIOUS
<1>1. CASE UNCHANGED vars
  BY <1>1 DEF vars, tables, flight, clients, PageInv, TypeOK, InFlight,
     OnPage, RevisionGraph, ShownWasInstalled
<1>2. CASE Next
  BY <1>2, CreatePageInv, GetPageInv, BeginInv, UpdateCommitInv,
     CandidateCommitInv, RestoreCommitInv, ApproveCommitInv, RejectCommitInv,
     RespondInv, GCInv DEF Next
<1>3. QED
  BY <1>1, <1>2

\* Every reachable state satisfies the invariant, whatever handlers are in use.
THEOREM PageSafety == Spec => []PageInv
BY InitInv, NextInv, PTL DEF Spec

\* The tables and the requests in flight keep their types.
THEOREM TypeCorrect == Spec => []TypeOK
<1>1. PageInv => TypeOK
  BY DEF PageInv
<1>2. QED
  BY <1>1, PageSafety, PTL

\* Pointers, parent links and restores stay within a page and on rows that
\* exist, however restores, approvals, saves and the collector overlap.
THEOREM RevisionGraphHolds == Spec => []RevisionGraph
<1>1. PageInv => RevisionGraph
  BY DEF PageInv
<1>2. QED
  BY <1>1, PageSafety, PTL

\* No interleaving makes a page show a superseded or a pending revision.
THEOREM ShownWasInstalledHolds == Spec => []ShownWasInstalled
<1>1. PageInv => ShownWasInstalled
  BY DEF PageInv
<1>2. QED
  BY <1>1, PageSafety, PTL

----------------------------------------------------------------------------
(***************************************************************************)
(* The If-Match protocol on its own.  The guard of a save compares the     *)
(* pointer with the ETag the client holds; the row it supersedes and the   *)
(* parent it records come from the handler's earlier read.  The two agree  *)
(* because the pointer of a page only grows: ETag, then read, then guard.  *)
(***************************************************************************)
PointerGrows ==
  /\ \A c \in Clients, p \in Pages : etag[c][p] <= shown[p]
  /\ \A c \in Clients : pc[c] # "idle" => req[c].op \in {"update", "candidate"}
  /\ \A c \in Clients : pc[c] = "begun" =>
       req[c].expected <= req[c].old /\ req[c].old <= shown[req[c].page]

GuardedInv == PageInv /\ PointerGrows /\ OneCurrent

LEMMA InitGuarded == Init => GuardedInv
<1> SUFFICES ASSUME Init PROVE PointerGrows /\ OneCurrent
  BY InitInv DEF GuardedInv
<1>1. QED
  BY DEF Init, PointerGrows, OneCurrent, None

\* A save that passes its guard supersedes exactly what its page shows.
LEMMA GuardedSave ==
  ASSUME GuardedInv, NEW c \in Clients, UpdateCommit(c)
  PROVE  req[c].old = shown[req[c].page]
<1> USE DEF GuardedInv, PageInv
<1>1. req[c].page \in Pages /\ req[c].old \in Nat /\ req[c].expected \in Nat
  BY DEF TypeOK, Request, OptRevision, RevisionId, None
<1>2. shown[req[c].page] = req[c].expected
      /\ req[c].expected <= req[c].old /\ req[c].old <= shown[req[c].page]
  BY DEF UpdateCommit, Begun, PointerGrows
<1>3. QED
  BY <1>1, <1>2

\* The pointer moves to an id above every id in use.
LEMMA PointerStep ==
  ASSUME GuardedInv, NEW c \in Clients, NEW p \in Pages,
         shown' = [shown EXCEPT ![p] = New]
  PROVE  \A x \in Pages : shown[x] <= shown'[x] /\ shown[x] \in Nat
                                                /\ shown'[x] \in Nat
<1> USE DEF GuardedInv, PageInv
<1>1. \A x \in Pages : shown[x] \in 0..inserted
  BY Ids DEF RevisionGraph, None
<1>2. inserted \in Nat
  BY Ids
<1>3. QED
  BY <1>1, <1>2 DEF New, TypeOK

LEMMA CommitPointer ==
  ASSUME GuardedInv, NEW c \in Clients, NEW op \in {"update", "candidate"},
         NEW new, Begun(c, op), Commit(c, new),
         \A x \in Pages : shown[x] <= shown'[x] /\ shown[x] \in Nat
                                                /\ shown'[x] \in Nat
  PROVE  PointerGrows'
<1> USE DEF GuardedInv, PageInv
<1>1. \A d \in Clients, p \in Pages : etag[d][p] \in Nat
  BY DEF TypeOK, OptRevision, RevisionId, None
<1>2. \A d \in Clients, p \in Pages : etag'[d][p] <= shown'[p]
  BY <1>1 DEF PointerGrows, Commit, clients
<1>3. ASSUME NEW d \in Clients
      PROVE  /\ pc'[d] # "idle" => req'[d].op \in {"update", "candidate"}
             /\ pc'[d] = "begun" => req'[d].expected <= req'[d].old
                                    /\ req'[d].old <= shown'[req'[d].page]
  <2>1. CASE d = c
    BY <2>1 DEF Commit, Begun, TypeOK
  <2>2. CASE d # c
    <3>1. pc'[d] = pc[d] /\ req'[d] = req[d]
      BY <2>2 DEF Commit, TypeOK
    <3>2. req[d].page \in Pages /\ req[d].old \in Nat
      BY DEF TypeOK, Request, OptRevision, RevisionId, None
    <3>3. QED
      BY <3>1, <3>2 DEF PointerGrows
  <2>3. QED
    BY <2>1, <2>2
<1>4. QED
  BY <1>2, <1>3 DEF PointerGrows

LEMMA FinishPointer ==
  ASSUME GuardedInv, NEW c \in Clients, Finish(c), shown' = shown,
         \A d \in Clients, p \in Pages : etag'[d][p] <= shown[p]
  PROVE  PointerGrows'
<1> USE DEF GuardedInv, PageInv
<1>1. ASSUME NEW d \in Clients
      PROVE  /\ pc'[d] # "idle" => req'[d].op \in {"update", "candidate"}
             /\ pc'[d] = "begun" => req'[d].expected <= req'[d].old
                                    /\ req'[d].old <= shown'[req'[d].page]
  <2>1. CASE d = c
    BY <2>1 DEF Finish, TypeOK
  <2>2. CASE d # c
    BY <2>2 DEF Finish, TypeOK, PointerGrows
  <2>3. QED
    BY <2>1, <2>2
<1>2. QED
  BY <1>1 DEF PointerGrows

LEMMA NextGuarded ==
  ASSUME GuardedOnly, GuardedInv, [Next]_vars
  PROVE  PointerGrows' /\ OneCurrent'
<1> USE DEF GuardedInv, PageInv
<1>a. \A c \in Clients : pc[c] # "idle" => req[c].op \in {"update", "candidate"}
  BY DEF PointerGrows
<1>b. \A x \in Pages : shown[x] \in Nat
  BY DEF TypeOK, OptRevision, RevisionId, None
<1>c. rows \subseteq RevisionId
  BY Ids
<1>1. ASSUME NEW c \in Clients, NEW p \in Pages, CreatePage(c, p)
      PROVE  PointerGrows' /\ OneCurrent'
  <2>1. Insert(p, New, "human", None, None) /\ shown' = [shown EXCEPT ![p] = New]
        /\ status' = [status EXCEPT ![New] = "current"] /\ shown[p] = None
    BY <1>1 DEF CreatePage
  <2>2. New \in RevisionId /\ New \in OptRevision /\ New \notin rows
    BY <2>1, Ids DEF Insert, CanInsert, New, RevisionId, TypeOK
  <2>3. /\ rows' = rows \cup {New} /\ body'[New].page = p
        /\ \A r \in 1..inserted : body'[r] = body[r]
    BY <2>1, <2>2, Ids, InsertLemma DEF Sources
  <2>4. \A x \in Pages : shown[x] <= shown'[x] /\ shown'[x] \in Nat
    BY <2>1, PointerStep
  <2>5. \A d \in Clients, x \in Pages : etag'[d][x] <= shown'[x]
    <3> SUFFICES ASSUME NEW d \in Clients, NEW x \in Pages
                 PROVE  etag'[d][x] <= shown'[x]
      OBVIOUS
    <3>1. CASE d = c /\ x = p
      BY <1>1, <2>1, <2>2, <3>1 DEF CreatePage, Receive, TypeOK, RevisionId
    <3>2. CASE ~(d = c /\ x = p)
      <4>1. etag'[d][x] = etag[d][x] /\ etag[d][x] \in Nat
        BY <1>1, <3>2 DEF CreatePage, Receive, TypeOK, OptRevision, RevisionId,
           None
      <4>2. etag[d][x] <= shown[x]
        BY DEF PointerGrows
      <4>3. QED
        BY <1>b, <2>4, <4>1, <4>2
    <3>3. QED
      BY <3>1, <3>2
  <2>6. \A d \in Clients : pc'[d] = pc[d] /\ req'[d] = req[d]
                           /\ req[d].page \in Pages /\ req[d].old \in Nat
    BY <1>1 DEF CreatePage, flight, TypeOK, Request, OptRevision, RevisionId, None
  <2>7. PointerGrows'
    BY <1>b, <2>4, <2>5, <2>6 DEF PointerGrows
  <2>8. ASSUME NEW r \in rows', status'[r] = "current"
        PROVE  shown'[body'[r].page] = r
    <3>1. CASE r = New
      BY <2>1, <2>3, <3>1 DEF TypeOK
    <3>2. CASE r \in rows
      <4>1. r \in 1..inserted /\ body'[r] = body[r] /\ status'[r] = status[r]
            /\ r # None
        BY <2>1, <2>2, <2>3, <3>2, Ids DEF TypeOK
      <4>2. shown[body[r].page] = r /\ body[r].page # p
        BY <2>1, <2>8, <3>2, <4>1 DEF OneCurrent
      <4>3. body[r].page \in Pages
        BY <3>2, Ids DEF TypeOK, Body
      <4>4. QED
        BY <2>1, <4>1, <4>2, <4>3 DEF TypeOK
    <3>3. QED
      BY <2>3, <3>1, <3>2
  <2>9. QED
    BY <2>7, <2>8 DEF OneCurrent
<1>2. ASSUME NEW c \in Clients, NEW p \in Pages, GetPage(c, p)
      PROVE  PointerGrows' /\ OneCurrent'
  <2>1. \A d \in Clients, x \in Pages : etag'[d][x] <= shown[x]
    BY <1>2, <1>b DEF GetPage, Receive, TypeOK, PointerGrows
  <2>2. PointerGrows'
    BY <1>2, <2>1 DEF GetPage, tables, flight, PointerGrows
  <2>3. QED
    BY <1>2, <2>2 DEF GetPage, tables, OneCurrent
<1>3. ASSUME NEW c \in Clients, NEW p \in Pages,
             NEW op \in {"update", "candidate"},
             NEW s \in {"human", "auto_save"}, BeginUpdate(c, p, op, s)
      PROVE  PointerGrows' /\ OneCurrent'
  <2>1. Begin(c, op, p, etag[c][p], None, s)
    BY <1>3 DEF BeginUpdate
  <2>2. etag[c][p] <= shown[p] /\ shown[p] <= shown[p]
    BY <1>b DEF PointerGrows
  <2>3. ASSUME NEW d \in Clients
        PROVE  /\ pc'[d] # "idle" => req'[d].op \in {"update", "candidate"}
               /\ pc'[d] = "begun" => req'[d].expected <= req'[d].old
                                      /\ req'[d].old <= shown[req'[d].page]
    <3>1. CASE d = c
      <4>1. req'[d] = [op |-> op, page |-> p, old |-> shown[p],
                       expected |-> etag[c][p], target |-> None, source |-> s]
        BY <2>1, <3>1 DEF Begin, TypeOK
      <4>2. QED
        BY <2>2, <4>1
    <3>2. CASE d # c
      BY <2>1, <3>2 DEF Begin, TypeOK, PointerGrows
    <3>3. QED
      BY <3>1, <3>2
  <2>4. UNCHANGED <<tables, gc, clients>>
    BY <2>1 DEF Begin
  <2>5. PointerGrows'
    BY <2>3, <2>4 DEF PointerGrows, tables, clients
  <2>6. QED
    BY <2>4, <2>5 DEF tables, OneCurrent
<1>4. ASSUME NEW c \in Clients, NEW p \in Pages, NEW t \in rows
      PROVE  ~BeginRestore(c, p, t) /\ ~BeginApprove(c, p, t)
                                    /\ ~BeginReject(c, p, t)
  BY DEF GuardedOnly, BeginRestore, BeginApprove, BeginReject, Begin
<1>5. ASSUME NEW c \in Clients, UpdateCommit(c)
      PROVE  PointerGrows' /\ OneCurrent'
  <2> DEFINE q == req[c]
  <2>1. Insert(q.page, New, q.source, q.old, None) /\ Commit(c, New)
        /\ Supersede(q.old, New) /\ shown' = [shown EXCEPT ![q.page] = New]
        /\ Begun(c, "update")
    BY <1>5 DEF UpdateCommit
  <2>2. New \in RevisionId /\ New \in OptRevision /\ New \notin rows
    BY <2>1, Ids DEF Insert, CanInsert, New, RevisionId, TypeOK
  <2>3. q \in Request /\ q.page \in Pages /\ q.source \in Sources
        /\ q.old \in OptRevision
    BY DEF TypeOK, Request
  <2>4. /\ rows' = rows \cup {New} /\ body'[New].page = q.page
        /\ \A r \in 1..inserted : body'[r] = body[r]
    BY <2>1, <2>2, <2>3, Ids, InsertLemma
  <2>5. PointerGrows'
    BY <2>1, <2>3, PointerStep, CommitPointer
  <2>6. q.old = shown[q.page]
    BY <1>5, GuardedSave
  <2>7. ASSUME NEW r \in rows', status'[r] = "current"
        PROVE  shown'[body'[r].page] = r
    <3>1. CASE r = New
      BY <2>1, <2>3, <2>4, <3>1 DEF TypeOK
    <3>2. CASE r \in rows
      <4>1. r \in 1..inserted /\ body'[r] = body[r] /\ r # New /\ r \in RevisionId
        BY <2>2, <2>4, <3>2, Ids
      <4>2. r # q.old /\ status[r] = "current"
        BY <2>1, <2>7, <4>1 DEF Supersede
      <4>3. shown[body[r].page] = r /\ body[r].page # q.page
        BY <2>6, <3>2, <4>2 DEF OneCurrent
      <4>4. body[r].page \in Pages
        BY <4>1 DEF TypeOK, Body
      <4>5. QED
        BY <2>1, <4>1, <4>3, <4>4 DEF TypeOK
    <3>3. QED
      BY <2>4, <3>1, <3>2
  <2>8. QED
    BY <2>5, <2>7 DEF OneCurrent
<1>6. ASSUME NEW c \in Clients, CandidateCommit(c)
      PROVE  PointerGrows' /\ OneCurrent'
  <2> DEFINE q == req[c]
  <2>1. Insert(q.page, New, q.source, q.old, None) /\ Commit(c, New)
        /\ shown' = shown /\ Begun(c, "candidate")
        /\ status' = [status EXCEPT ![New] = "candidate"]
    BY <1>6 DEF CandidateCommit
  <2>2. New \in RevisionId /\ New \in OptRevision /\ New \notin rows
    BY <2>1, Ids DEF Insert, CanInsert, New, RevisionId, TypeOK
  <2>3. q \in Request /\ q.page \in Pages /\ q.source \in Sources
        /\ q.old \in OptRevision
    BY DEF TypeOK, Request
  <2>4. /\ rows' = rows \cup {New}
        /\ \A r \in 1..inserted : body'[r] = body[r]
    BY <2>1, <2>2, <2>3, Ids, InsertLemma
  <2>5. PointerGrows'
    BY <1>b, <2>1, CommitPointer
  <2>6. ASSUME NEW r \in rows', status'[r] = "current"
        PROVE  shown'[body'[r].page] = r
    <3>1. r # New
      BY <2>1, <2>2, <2>6 DEF TypeOK
    <3>2. r \in rows /\ r \in 1..inserted /\ r \in RevisionId
      BY <2>4, <3>1, Ids
    <3>3. QED
      BY <2>1, <2>4, <2>6, <3>1, <3>2 DEF OneCurrent, TypeOK
  <2>7. QED
    BY <2>5, <2>6 DEF OneCurrent
<1>7. ASSUME NEW c \in Clients, UpdateRespond(c) \/ Abandon(c)
      PROVE  PointerGrows' /\ OneCurrent'
  <2>1. Finish(c) /\ UNCHANGED <<tables, gc>>
    BY <1>7 DEF UpdateRespond, Abandon
  <2>2. req[c].page \in Pages
    BY DEF TypeOK, Request
  <2>3. \A d \in Clients, p \in Pages : etag'[d][p] <= shown[p]
    <3>1. CASE Abandon(c)
      BY <3>1 DEF Abandon, clients, PointerGrows
    <3>2. CASE UpdateRespond(c)
      <4>1. etag' = [etag EXCEPT ![c][req[c].page] = shown[req[c].page]]
        BY <3>2 DEF UpdateRespond, Receive
      <4> SUFFICES ASSUME NEW d \in Clients, NEW p \in Pages
                   PROVE  etag'[d][p] <= shown[p]
        OBVIOUS
      <4>2. CASE d = c /\ p = req[c].page
        <5>1. etag'[d][p] = shown[p]
          BY <4>1, <4>2, <2>2 DEF TypeOK
        <5>2. QED
          BY <5>1, <1>b
      <4>3. CASE ~(d = c /\ p = req[c].page)
        <5>1. etag'[d][p] = etag[d][p]
          BY <4>1, <4>3 DEF TypeOK
        <5>2. QED
          BY <5>1 DEF PointerGrows
      <4>4. QED
        BY <4>2, <4>3
    <3>3. QED
      BY <1>7, <3>1, <3>2
  <2>4. PointerGrows'
    BY <2>1, <2>3, FinishPointer DEF tables
  <2>5. QED
    BY <2>1, <2>4 DEF tables, OneCurrent
<1>8. ASSUME NEW c \in Clients
      PROVE  ~RestoreCommit(c) /\ ~ApproveCommit(c) /\ ~InstallRespond(c)
             /\ ~RejectCommit(c)
  BY <1>a DEF RestoreCommit, ApproveCommit, InstallRespond, RejectCommit, Begun
<1>9. CASE GCNullWithin \/ GCNullAll \/ GCDelete
  <2>1. rows' \subseteq rows /\ UNCHANGED <<body, status, shown, flight, clients>>
    BY <1>9 DEF GCNullWithin, GCNullAll, GCDelete, tables
  <2>2. QED
    BY <2>1 DEF PointerGrows, OneCurrent, flight, clients
<1>10. CASE UNCHANGED vars
  BY <1>10 DEF vars, tables, flight, clients, PointerGrows, OneCurrent
<1>11. QED
  BY <1>1, <1>2, <1>3, <1>4, <1>5, <1>6, <1>7, <1>8, <1>9, <1>10 DEF Next

\* While every write goes through If-Match, a page never has two revisions
\* with status 'current'.  (Run two_currents shows it fails with restore.)
THEOREM OneCurrentHolds ==
  ASSUME GuardedOnly
  PROVE  Spec => []OneCurrent
<1>1. GuardedInv /\ [Next]_vars => GuardedInv'
  BY NextInv, NextGuarded DEF GuardedInv
<1>2. GuardedInv => OneCurrent
  BY DEF GuardedInv
<1>3. QED
  BY <1>1, <1>2, InitGuarded, PTL DEF Spec

\* One step of LinearHistory.
LEMMA StepLinear ==
  ASSUME GuardedOnly, GuardedInv, [Next]_vars, NEW p \in Pages,
         shown[p] # None, shown'[p] # shown[p]
  PROVE  parent'[shown'[p]] = shown[p] /\ status'[shown[p]] = "superseded"
<1> USE DEF GuardedInv, PageInv
<1>1. ASSUME NEW c \in Clients, NEW x \in Pages, CreatePage(c, x)
      PROVE  FALSE
  <2>1. shown[x] = None /\ shown' = [shown EXCEPT ![x] = New]
    BY <1>1 DEF CreatePage
  <2>2. p # x
    BY <2>1
  <2>3. QED
    BY <2>1, <2>2 DEF TypeOK
<1>2. ASSUME NEW c \in Clients, UpdateCommit(c)
      PROVE  parent'[shown'[p]] = shown[p] /\ status'[shown[p]] = "superseded"
  <2> DEFINE q == req[c]
  <2>1. Insert(q.page, New, q.source, q.old, None) /\ Supersede(q.old, New)
        /\ shown' = [shown EXCEPT ![q.page] = New]
    BY <1>2 DEF UpdateCommit
  <2>2. New \in RevisionId /\ New \notin rows /\ parent' = [parent EXCEPT ![New] = q.old]
    BY <2>1, Ids DEF Insert, CanInsert, New, RevisionId, TypeOK
  <2>3. p = q.page /\ shown'[p] = New
    BY <2>1 DEF TypeOK
  <2>4. q.old = shown[p]
    BY <1>2, <2>3, GuardedSave
  <2>5. shown[p] \in rows /\ shown[p] \in RevisionId
    BY Ids DEF RevisionGraph
  <2>6. parent'[New] = q.old
    BY <2>2 DEF TypeOK
  <2>7. status'[q.old] = "superseded"
    BY <2>1, <2>2, <2>4, <2>5 DEF Supersede
  <2>8. QED
    BY <2>3, <2>4, <2>6, <2>7
<1>3. ASSUME NEW c \in Clients
      PROVE  /\ ~RestoreCommit(c) /\ ~ApproveCommit(c)
             /\ CandidateCommit(c) \/ UpdateRespond(c) \/ InstallRespond(c)
                \/ RejectCommit(c) \/ Abandon(c) => shown' = shown
  <2>1. ~RestoreCommit(c) /\ ~ApproveCommit(c)
    BY DEF RestoreCommit, ApproveCommit, Begun, PointerGrows
  <2>2. QED
    BY <2>1 DEF CandidateCommit, UpdateRespond, InstallRespond, RejectCommit,
       Abandon, tables
<1>4. ASSUME NEW c \in Clients, NEW x \in Pages
      PROVE  /\ GetPage(c, x) => shown' = shown
             /\ \A op \in {"update", "candidate"}, s \in {"human", "auto_save"} :
                  BeginUpdate(c, x, op, s) => shown' = shown
             /\ \A t \in rows : BeginRestore(c, x, t) \/ BeginApprove(c, x, t)
                               \/ BeginReject(c, x, t) => shown' = shown
  BY DEF GetPage, BeginUpdate, BeginRestore, BeginApprove, BeginReject, Begin, tables
<1>5. GCNullWithin \/ GCNullAll \/ GCDelete \/ UNCHANGED vars => shown' = shown
  BY DEF GCNullWithin, GCNullAll, GCDelete, vars, tables
<1>6. QED
  BY <1>1, <1>2, <1>3, <1>4, <1>5 DEF Next

\* While every write goes through If-Match, the history of a page is a chain:
\* the new revision's parent is the revision it superseded, for any number of
\* clients saving at once.
THEOREM LinearHistoryHolds ==
  ASSUME GuardedOnly
  PROVE  Spec => LinearHistory
<1> DEFINE Chained == \A p \in Pages : shown[p] # None /\ shown'[p] # shown[p] =>
                        /\ parent'[shown'[p]] = shown[p]
                        /\ status'[shown[p]] = "superseded"
<1>1. GuardedInv /\ [Next]_vars => GuardedInv'
  BY NextInv, NextGuarded DEF GuardedInv
<1>2. GuardedInv /\ [Next]_vars => [Chained]_vars
  BY StepLinear
<1>3. QED
  BY <1>1, <1>2, InitGuarded, PTL DEF Spec, LinearHistory

----------------------------------------------------------------------------
(***************************************************************************)
(* The guarded save implements the compare-and-swap register.  A client    *)
(* that has a request in flight is handed nothing, so the tag it sent is   *)
(* still the one it holds when the transaction commits.                    *)
(***************************************************************************)
SentIsHeld ==
  \A c \in Clients : pc[c] = "begun" => req[c].expected = etag[c][req[c].page]

RegisterInv == GuardedInv /\ SentIsHeld

LEMMA InitRegister == Init => RegisterInv /\ Register!Init
<1> SUFFICES ASSUME Init PROVE SentIsHeld /\ Register!Init
  BY InitGuarded DEF RegisterInv
<1>1. SentIsHeld
  BY DEF Init, SentIsHeld
<1>2. 1..inserted = {}
  BY DEF Init
<1>3. QED
  BY <1>1, <1>2 DEF Init, Register!Init

\* An insertion issues the tag New.
LEMMA IssueLemma ==
  ASSUME TypeOK, inserted' = New, CanInsert
  PROVE  Register!Issue(New) /\ New \in RevisionId
BY DEF TypeOK, New, CanInsert, RevisionId, Register!Issue

LEMMA NextRegister ==
  ASSUME GuardedOnly, RegisterInv, [Next]_vars
  PROVE  SentIsHeld' /\ [Register!Next]_Register!vars
<1> USE DEF RegisterInv, GuardedInv, PageInv
<1>a. \A c \in Clients : pc[c] # "idle" => req[c].op \in {"update", "candidate"}
  BY DEF PointerGrows
<1>1. ASSUME NEW c \in Clients, NEW p \in Pages, CreatePage(c, p)
      PROVE  SentIsHeld' /\ Register!Create(c, p, New) /\ New \in RevisionId
  <2>1. inserted' = New /\ CanInsert
    BY <1>1 DEF CreatePage, Insert
  <2>2. Register!Create(c, p, New) /\ New \in RevisionId
    BY <1>1, <2>1, IssueLemma DEF CreatePage, Receive, Register!Create
  <2>3. \A d \in Clients : d # c => etag'[d] = etag[d]
    BY <1>1 DEF CreatePage, Receive, TypeOK
  <2>4. pc[c] = "idle" /\ pc' = pc /\ req' = req
    BY <1>1 DEF CreatePage, flight
  <2>5. QED
    BY <2>2, <2>3, <2>4 DEF SentIsHeld
<1>2. ASSUME NEW c \in Clients, NEW p \in Pages, GetPage(c, p)
      PROVE  SentIsHeld' /\ Register!Read(c, p)
  <2>1. Register!Read(c, p)
    BY <1>2 DEF GetPage, Receive, tables, Register!Read
  <2>2. \A d \in Clients : d # c => etag'[d] = etag[d]
    BY <1>2 DEF GetPage, Receive, TypeOK
  <2>3. pc[c] = "idle" /\ pc' = pc /\ req' = req
    BY <1>2 DEF GetPage, flight
  <2>4. QED
    BY <2>1, <2>2, <2>3 DEF SentIsHeld
<1>3. ASSUME NEW c \in Clients, NEW p \in Pages,
             NEW op \in {"update", "candidate"},
             NEW s \in {"human", "auto_save"}, BeginUpdate(c, p, op, s)
      PROVE  SentIsHeld' /\ UNCHANGED Register!vars
  <2>1. Begin(c, op, p, etag[c][p], None, s)
    BY <1>3 DEF BeginUpdate
  <2>2. UNCHANGED Register!vars
    BY <2>1 DEF Begin, tables, clients, Register!vars
  <2>3. ASSUME NEW d \in Clients, pc'[d] = "begun"
        PROVE  req'[d].expected = etag'[d][req'[d].page]
    <3>1. CASE d = c
      BY <2>1, <3>1 DEF Begin, clients, TypeOK
    <3>2. CASE d # c
      BY <2>1, <2>3, <3>2 DEF Begin, clients, TypeOK, SentIsHeld
    <3>3. QED
      BY <3>1, <3>2
  <2>4. QED
    BY <2>2, <2>3 DEF SentIsHeld
<1>4. ASSUME NEW c \in Clients, NEW p \in Pages, NEW t \in rows
      PROVE  ~BeginRestore(c, p, t) /\ ~BeginApprove(c, p, t)
                                    /\ ~BeginReject(c, p, t)
  BY DEF GuardedOnly, BeginRestore, BeginApprove, BeginReject, Begin
<1>5. ASSUME NEW c \in Clients, NEW new, Commit(c, new)
      PROVE  SentIsHeld'
  BY <1>5 DEF Commit, clients, TypeOK, SentIsHeld
<1>6. ASSUME NEW c \in Clients, UpdateCommit(c)
      PROVE  SentIsHeld' /\ req[c].page \in Pages
             /\ Register!Save(c, req[c].page, New) /\ New \in RevisionId
  <2>1. inserted' = New /\ CanInsert /\ Commit(c, New)
    BY <1>6 DEF UpdateCommit, Insert
  <2>2. req[c].page \in Pages /\ req[c].expected = etag[c][req[c].page]
    BY <1>6 DEF UpdateCommit, Begun, SentIsHeld, TypeOK, Request
  <2>3. shown[req[c].page] = etag[c][req[c].page]
    BY <1>6, <2>2 DEF UpdateCommit
  <2>4. shown[req[c].page] # None
    <3>1. req[c].old \in 1..inserted /\ req[c].old = shown[req[c].page]
      BY <1>6, GuardedSave DEF UpdateCommit, Begun, InFlight, OnPage
    <3>2. QED
      BY <3>1 DEF None
  <2>5. Register!Save(c, req[c].page, New) /\ New \in RevisionId
    BY <1>6, <2>1, <2>3, <2>4, IssueLemma
       DEF UpdateCommit, Commit, clients, Register!Save
  <2>6. QED
    BY <1>5, <2>1, <2>2, <2>5
<1>7. ASSUME NEW c \in Clients, CandidateCommit(c)
      PROVE  SentIsHeld' /\ Register!Stage(New) /\ New \in RevisionId
  <2>1. inserted' = New /\ CanInsert /\ Commit(c, New) /\ shown' = shown
    BY <1>7 DEF CandidateCommit, Insert
  <2>2. QED
    BY <1>5, <2>1, IssueLemma DEF Commit, clients, Register!Stage
<1>8. ASSUME NEW c \in Clients, Finish(c),
             \A d \in Clients : d # c => etag'[d] = etag[d]
      PROVE  SentIsHeld'
  BY <1>8 DEF Finish, TypeOK, SentIsHeld
<1>9. ASSUME NEW c \in Clients, UpdateRespond(c)
      PROVE  SentIsHeld' /\ req[c].page \in Pages
             /\ Register!Read(c, req[c].page)
  <2>1. Register!Read(c, req[c].page)
    BY <1>9 DEF UpdateRespond, Receive, tables, Register!Read
  <2>2. req[c].page \in Pages /\ Finish(c)
        /\ \A d \in Clients : d # c => etag'[d] = etag[d]
    BY <1>9 DEF UpdateRespond, Receive, TypeOK, Request
  <2>3. QED
    BY <1>8, <2>1, <2>2
<1>10. ASSUME NEW c \in Clients, Abandon(c)
       PROVE  SentIsHeld' /\ UNCHANGED Register!vars
  <2>1. Finish(c) /\ UNCHANGED <<tables, gc, clients>>
    BY <1>10 DEF Abandon
  <2>2. UNCHANGED Register!vars
    BY <2>1 DEF tables, clients, Register!vars
  <2>3. QED
    BY <1>8, <2>1, <2>2 DEF clients
<1>11. ASSUME NEW c \in Clients
       PROVE  ~RestoreCommit(c) /\ ~ApproveCommit(c) /\ ~InstallRespond(c)
              /\ ~RejectCommit(c)
  BY <1>a DEF RestoreCommit, ApproveCommit, InstallRespond, RejectCommit, Begun
<1>12. CASE GCNullWithin \/ GCNullAll \/ GCDelete \/ UNCHANGED vars
  <2>1. UNCHANGED <<inserted, shown, flight, clients>>
    BY <1>12 DEF GCNullWithin, GCNullAll, GCDelete, vars, tables
  <2>2. QED
    BY <2>1 DEF flight, clients, SentIsHeld, Register!vars
<1>13. SentIsHeld'
  BY <1>1, <1>2, <1>3, <1>4, <1>6, <1>7, <1>9, <1>10, <1>11, <1>12 DEF Next
<1>14. [Register!Next]_Register!vars
  BY <1>1, <1>2, <1>3, <1>4, <1>6, <1>7, <1>9, <1>10, <1>11, <1>12
     DEF Next, Register!Next
<1>15. QED
  BY <1>13, <1>14

\* The three transactions of a guarded save behave as one compare-and-swap on
\* the page's tag, for any number of clients, pages and overlapping requests.
THEOREM RegisterImplemented ==
  ASSUME GuardedOnly
  PROVE  Spec => ImplementsRegister
<1>1. RegisterInv /\ [Next]_vars => RegisterInv'
  BY NextInv, NextGuarded, NextRegister DEF RegisterInv, GuardedInv
<1>2. RegisterInv /\ [Next]_vars => [Register!Next]_Register!vars
  BY NextRegister
<1>3. QED
  BY <1>1, <1>2, InitRegister, PTL DEF Spec, ImplementsRegister, Register!Spec

----------------------------------------------------------------------------
(***************************************************************************)
(* History, under every mix of handlers.                                   *)
(***************************************************************************)

\* Every step but the collector's deletion keeps the rows as they are.
RowsKept == /\ rows \subseteq rows'
            /\ \A r \in rows : body'[r] = body[r] /\ parent'[r] = parent[r]

LEMMA OnlyTheCollector ==
  ASSUME PageInv, [Next]_vars
  PROVE  RowsKept \/ GCDelete
<1> USE DEF PageInv, RowsKept
<1>1. ASSUME NEW p \in Pages, NEW content, NEW source, NEW par, NEW restored,
             Insert(p, content, source, par, restored)
      PROVE  RowsKept
  <2>1. New \notin rows
    BY Ids DEF New, TypeOK
  <2>2. QED
    BY <1>1, <2>1, Ids DEF Insert, TypeOK
<1>2. ASSUME NEW c \in Clients, NEW p \in Pages,
             CreatePage(c, p) \/ GetPage(c, p)
      PROVE  RowsKept
  BY <1>2, <1>1 DEF CreatePage, GetPage, tables
<1>3. ASSUME NEW c \in Clients, NEW p \in Pages,
             \/ \E op \in {"update", "candidate"}, s \in {"human", "auto_save"} :
                  BeginUpdate(c, p, op, s)
             \/ \E t \in rows : \/ BeginRestore(c, p, t)
                               \/ BeginApprove(c, p, t)
                               \/ BeginReject(c, p, t)
      PROVE  RowsKept
  BY <1>3 DEF BeginUpdate, BeginRestore, BeginApprove, BeginReject, Begin, tables
<1>4. ASSUME NEW c \in Clients,
             UpdateCommit(c) \/ CandidateCommit(c) \/ RestoreCommit(c)
      PROVE  RowsKept
  <2>1. req[c].page \in Pages
    BY DEF TypeOK, Request
  <2>2. CASE UpdateCommit(c)
    BY <2>1, <2>2, <1>1 DEF UpdateCommit
  <2>3. CASE CandidateCommit(c)
    BY <2>1, <2>3, <1>1 DEF CandidateCommit
  <2>4. CASE RestoreCommit(c)
    BY <2>1, <2>4, <1>1 DEF RestoreCommit
  <2>5. QED
    BY <1>4, <2>2, <2>3, <2>4
<1>5. ASSUME NEW c \in Clients,
             \/ UpdateRespond(c) \/ ApproveCommit(c) \/ InstallRespond(c)
             \/ RejectCommit(c) \/ Abandon(c)
      PROVE  RowsKept
  BY <1>5 DEF UpdateRespond, ApproveCommit, InstallRespond, RejectCommit,
     Abandon, tables
<1>6. ASSUME GCNullWithin \/ GCNullAll \/ UNCHANGED vars
      PROVE  RowsKept
  BY <1>6 DEF GCNullWithin, GCNullAll, vars, tables
<1>7. QED
  BY <1>2, <1>3, <1>4, <1>5, <1>6 DEF Next

\* One step of HistoryKept.
LEMMA StepKept ==
  ASSUME PageInv, [Next]_vars
  PROVE  /\ \A r \in rows \ rows' : /\ body[r].source = "auto_save"
                                    /\ status[r] # "current"
                                    /\ \A p \in Pages : shown[p] # r
         /\ \A r \in rows : body'[r] = body[r]
         /\ \A r \in rows \cap rows' : parent'[r] \in {parent[r], None}
<1> USE DEF PageInv
<1>1. CASE GCDelete
  <2>1. /\ rows' \in {rows, rows \ Expired}
        /\ rows' = rows \ Expired => GCDeletable \/ rows' = rows
        /\ parent' \in {parent, [r \in RevisionId |->
                                   IF r \in gc.nulled THEN None ELSE parent[r]]}
        /\ body' = body
    BY <1>1 DEF GCDelete
  <2>2. \A r \in Expired : /\ r \in rows /\ body[r].source = "auto_save"
                           /\ status[r] # "current"
    BY DEF Expired, Collectable
  <2>3. \A r \in rows \ rows' : r \in Expired /\ GCDeletable
    BY <2>1
  <2>4. \A r \in rows \ rows' : \A p \in Pages : shown[p] # r
    BY <2>3 DEF GCDeletable
  <2>5. \A r \in rows : parent'[r] \in {parent[r], None}
    BY <2>1, Ids DEF TypeOK
  <2>6. QED
    BY <2>1, <2>2, <2>3, <2>4, <2>5
<1>2. CASE RowsKept
  BY <1>2 DEF RowsKept
<1>3. QED
  BY <1>1, <1>2, OnlyTheCollector

\* No interleaving of saves, restores, approvals, rejections and the collector
\* removes a revision a reader may still want, or edits one.
THEOREM HistoryKeptHolds == Spec => HistoryKept
<1> DEFINE Keeps ==
      /\ \A r \in rows \ rows' : /\ body[r].source = "auto_save"
                                 /\ status[r] # "current"
                                 /\ \A p \in Pages : shown[p] # r
      /\ \A r \in rows : body'[r] = body[r]
      /\ \A r \in rows \cap rows' : parent'[r] \in {parent[r], None}
<1>1. PageInv /\ [Next]_vars => [Keeps]_vars
  BY StepKept
<1>2. QED
  BY <1>1, PageSafety, PTL DEF Spec, HistoryKept

----------------------------------------------------------------------------
(***************************************************************************)
(* What the collector leaves.  It works out the expired rows by rank, and   *)
(* whoever is ranked beyond KeepNewest has KeepNewest survivors above it.   *)
(***************************************************************************)
LEMMA LargestElement ==
  ASSUME NEW n \in Nat, NEW X \in SUBSET (1..n), X # {}
  PROVE  \E m \in X : \A x \in X : x <= m
<1> DEFINE Above(m) == {x \in X : x > m}
           Uppers == {Above(m) : m \in X}
<1>1. IsFiniteSet(X) /\ X \subseteq Nat
  <2>1. 1 \in Int /\ n \in Int
    OBVIOUS
  <2>2. IsFiniteSet(1..n) /\ 1..n \subseteq Nat
    BY <2>1, FS_Interval
  <2>3. QED
    BY <2>2, FS_Subset
<1>2. Uppers \subseteq FiniteSubsetsOf(X) /\ Uppers # {}
  <2>1. \A m \in X : Above(m) \in SUBSET X /\ IsFiniteSet(Above(m))
    BY <1>1, FS_Subset
  <2>2. QED
    BY <2>1 DEF FiniteSubsetsOf
<1>3. PICK U \in Uppers : \A V \in Uppers : <<V, U>> \notin StrictSubsetOrdering(X)
  <2>1. IsWellFoundedOn(StrictSubsetOrdering(X), FiniteSubsetsOf(X))
    BY FS_StrictSubsetOrderingWellFounded
  <2>2. QED
    BY <1>2, <2>1, WFMin
<1>4. PICK m \in X : U = Above(m)
  OBVIOUS
<1>5. ASSUME NEW x \in X, x > m
      PROVE  FALSE
  <2>1. Above(x) \subseteq U /\ x \in U /\ x \notin Above(x)
    <3>1. x \in Nat /\ m \in Nat /\ \A y \in X : y \in Nat
      BY <1>1
    <3>2. x \notin Above(x) /\ x \in Above(m)
      BY <3>1, <1>5
    <3>3. \A y \in X : y > x => y > m
      BY <3>1, <1>5
    <3>4. QED
      BY <3>2, <3>3, <1>4
  <2>2. Above(x) \in Uppers
    OBVIOUS
  <2>3. <<Above(x), U>> \in StrictSubsetOrdering(X)
    BY <2>1, <1>4 DEF StrictSubsetOrdering
  <2>4. QED
    BY <1>3, <2>2, <2>3
<1>6. QED
  BY <1>1, <1>5

\* Of a finite set of revisions, those ranked among the newest k are at least k
\* many, when there are that many.
LEMMA NewestOf ==
  ASSUME NEW n \in Nat, NEW S \in SUBSET (1..n), NEW k \in Nat, Cardinality(S) >= k
  PROVE  Cardinality({s \in S : ~(Cardinality({t \in S : t > s}) >= k)}) >= k
<1> DEFINE Above(s) == {t \in S : t > s}
           Old == {s \in S : Cardinality(Above(s)) >= k}
           Newest == {s \in S : ~(Cardinality(Above(s)) >= k)}
<1>1. IsFiniteSet(S) /\ S \subseteq Nat
  <2>1. 1 \in Int /\ n \in Int
    OBVIOUS
  <2>2. IsFiniteSet(1..n) /\ 1..n \subseteq Nat
    BY <2>1, FS_Interval
  <2>3. QED
    BY <2>2, FS_Subset
<1>2. IsFiniteSet(Newest) /\ \A s \in S : IsFiniteSet(Above(s))
  BY <1>1, FS_Subset
<1>3. CASE Old = {}
  <2>1. Newest = S
    BY <1>3
  <2>2. QED
    BY <2>1
<1>4. CASE Old # {}
  <2>1. PICK m \in Old : \A s \in Old : s <= m
    <3> HIDE DEF Old
    <3>1. Old \in SUBSET (1..n)
      BY DEF Old
    <3>2. QED
      BY <1>4, <3>1, LargestElement
  <2>2. Above(m) \subseteq Newest
    <3>1. \A t \in Above(m) : t \in S /\ ~(t <= m)
      BY <1>1
    <3>2. \A t \in S : t \in Old \/ t \in Newest
      OBVIOUS
    <3>3. QED
      BY <2>1, <3>1, <3>2
  <2>3. /\ Cardinality(Above(m)) <= Cardinality(Newest)
        /\ Cardinality(Above(m)) \in Nat /\ Cardinality(Newest) \in Nat
    BY <1>2, <2>1, <2>2, FS_Subset, FS_CardinalityType
  <2>4. Cardinality(Above(m)) >= k
    BY <2>1
  <2>5. QED
    BY <2>3, <2>4
<1>5. QED
  BY <1>3, <1>4

\* One step of NewestKept.
LEMMA StepNewest ==
  ASSUME PageInv, [Next]_vars, NEW r \in rows \ rows'
  PROVE  Cardinality({s \in rows' : /\ body[s].page = body[r].page
                                    /\ body[s].source = "auto_save"
                                    /\ s > r}) >= KeepNewest
<1> DEFINE S == Collectable(body[r].page)
           Above(s) == {t \in S : t > s}
           Newest == {s \in S : ~(Cardinality(Above(s)) >= KeepNewest)}
           Left == {s \in rows' : /\ body[s].page = body[r].page
                                  /\ body[s].source = "auto_save"
                                  /\ s > r}
<1>1. rows' = rows \ Expired /\ r \in Expired
  BY OnlyTheCollector DEF RowsKept, GCDelete
<1>2. /\ inserted \in Nat /\ S \in SUBSET (1..inserted)
      /\ rows \subseteq 1..inserted /\ KeepNewest \in Nat
  BY Ids DEF PageInv, Collectable
<1>3. /\ IsFiniteSet(S) /\ IsFiniteSet(rows)
      /\ \A s \in S : IsFiniteSet(Above(s)) /\ Cardinality(Above(s)) \in Nat
  <2>1. 1 \in Int /\ inserted \in Int
    BY <1>2
  <2>2. IsFiniteSet(1..inserted)
    BY <2>1, FS_Interval
  <2>3. IsFiniteSet(S) /\ IsFiniteSet(rows)
    BY <1>2, <2>2, FS_Subset
  <2>4. \A s \in S : Above(s) \in SUBSET S
    OBVIOUS
  <2>5. QED
    BY <2>3, <2>4, FS_Subset, FS_CardinalityType
<1>4. r \in S /\ Cardinality(Above(r)) >= KeepNewest
  BY <1>1 DEF Expired
<1>5. Cardinality(S) >= KeepNewest
  <2>1. Above(r) \in SUBSET S /\ Cardinality(S) \in Nat
    BY <1>3, FS_CardinalityType
  <2>2. Cardinality(Above(r)) <= Cardinality(S)
    BY <1>3, <2>1, FS_Subset
  <2>3. QED
    BY <1>2, <1>3, <1>4, <2>1, <2>2
<1>6. Cardinality(Newest) >= KeepNewest
  BY <1>2, <1>5, NewestOf
<1>7. Newest \subseteq Left
  <2>1. SUFFICES ASSUME NEW s \in Newest PROVE s \in Left
    OBVIOUS
  <2>2. s \in rows /\ body[s].page = body[r].page /\ body[s].source = "auto_save"
    BY DEF Collectable
  <2>3. s \notin Expired
    BY <2>2 DEF Expired
  <2>4. s > r
    <3>1. SUFFICES ASSUME ~(s > r) PROVE FALSE
      OBVIOUS
    <3>2. s \in Nat /\ r \in Nat /\ \A t \in S : t \in Nat
      BY <1>2, <1>4
    <3>3. \A t \in S : t > r => t > s
      BY <3>1, <3>2
    <3>4. Above(r) \in SUBSET Above(s)
      BY <3>3
    <3>5. Cardinality(Above(r)) <= Cardinality(Above(s))
      BY <1>3, <3>4, FS_Subset
    <3>6. QED
      BY <1>2, <1>3, <1>4, <3>5
  <2>5. QED
    BY <1>1, <2>2, <2>3, <2>4
<1>8. QED
  <2>1. Left \in SUBSET rows
    BY <1>1
  <2>2. IsFiniteSet(Left) /\ Cardinality(Left) \in Nat /\ Cardinality(Newest) \in Nat
    BY <1>3, <1>7, <2>1, FS_Subset, FS_CardinalityType
  <2>3. Cardinality(Newest) <= Cardinality(Left)
    BY <1>7, <2>2, FS_Subset
  <2>4. QED
    BY <1>2, <1>6, <2>2, <2>3

\* However many pages, saves, approvals and rejections: whatever the collector
\* removes leaves KeepNewest newer auto-saves of its page behind, although each
\* of its statements works out the ranking anew.
THEOREM NewestKeptHolds == Spec => NewestKept
<1> DEFINE Keeps ==
      \A r \in rows \ rows' :
         Cardinality({s \in rows' : /\ body[s].page = body[r].page
                                    /\ body[s].source = "auto_save"
                                    /\ s > r}) >= KeepNewest
<1>1. PageInv /\ [Next]_vars => [Keeps]_vars
  BY StepNewest
<1>2. QED
  BY <1>1, PageSafety, PTL DEF Spec, NewestKept
=============================================================================
