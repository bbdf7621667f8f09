-------------------------- MODULE PageEditingProofs --------------------------
(***************************************************************************)
(* What holds of the page editor for every set of editors, every number of *)
(* saves in flight, every history of the page and every way its saves,     *)
(* other authors', reloads and restores overlap.                           *)
(***************************************************************************)
EXTENDS PageEditing, FiniteSetTheorems, TLAPS

\* A save under way: what it names exists, what it replaces is contained in it or
\* waived, and its edits are still in the document unless that was replaced.
SaveInv(e, i) ==
    put[e][i] # None =>
        /\ put[e][i].at = "sent" /\ ~put[e][i].blind /\ put[e][i].etag \in 1..Head1 =>
              revisions[put[e][i].etag] \subseteq put[e][i].doc \cup put[e][i].waived
        /\ put[e][i].etag <= Head1
        /\ put[e][i].at = "accepted" =>
              put[e][i].got \in 1..Head1 /\ revisions[put[e][i].got] = put[e][i].doc
        /\ ~put[e][i].past => put[e][i].doc \subseteq doc[e]

\* An editor without its page has done nothing yet, and the document of any other
\* contains its base, apart from what the user waived.
EditorInv(e) ==
    /\ base[e] <= Head1 /\ etag[e] <= Head1 /\ banner[e] <= Head1
    /\ reload[e].at = "read" => reload[e].got \in 1..Head1
    /\ life[e] = "new" => base[e] = NoRevision
    /\ base[e] = NoRevision =>
          /\ doc[e] = {Blank} /\ ~dirty[e] /\ timer[e] = "none" /\ banner[e] = NoRevision
          /\ reload[e] = None /\ InFlight(e) = {}
    /\ base[e] # NoRevision => revisions[base[e]] \subseteq doc[e] \cup waived[e]
    /\ \A i \in 1..Requests : SaveInv(e, i)

\* NoForgottenEdit made inductive: 'dirty' alone is a reason only while no save is in
\* flight, since the answer of any of them clears it.
Remembered(e) ==
    (life[e] = "open" /\ ~(doc[e] \subseteq Kept)) =>
        \/ dirty[e] /\ InFlight(e) = {}
        \/ timer[e] = "dirty"
        \/ banner[e] # NoRevision
        \/ slipped[e]
        \/ \E i \in InFlight(e) : doc[e] \subseteq put[e][i].doc \cup Kept

EditingInv ==
    /\ TypeOK
    /\ cached <= Head1
    /\ \A e \in Editors : EditorInv(e) /\ Remembered(e)

\* The numbers of the model.
LEMMA Numbers ==
    /\ Requests \in Nat \ {0} /\ MaxEdits \in Nat /\ MaxRevisions \in Nat \ {0} /\ NoRevision = 0
    /\ \A s \in Sessions : s.saves \in 1..Requests /\ s.edits \in 0..MaxEdits /\ s.length \in 1..MaxRevisions
    /\ None.at = "none" /\ None \notin Saves /\ None \notin Loads
    /\ \A x \in Saves : x.at # "none"
    /\ \A x \in Loads : x.at # "none"
  BY EditingAssumption DEF NoRevision, Revisions, None, Saves, Loads

\* Loading a revision leaves it in the document, and an older document there only
\* when the revision has no blocks.
LEMMA ShownIs ==
    ASSUME NEW e \in Editors, NEW r \in 1..Head1
    PROVE  /\ revisions[r] \subseteq Shown(e, r)
           /\ revisions[r] = {} => Shown(e, r) = doc[e]
           /\ revisions[r] # {} => Shown(e, r) = revisions[r] /\ Shown(e, r) \subseteq Kept
  BY DEF Shown, Kept

LEMMA ShownTyped ==
    ASSUME TypeOK, NEW e \in Editors, NEW r, revisions[r] \subseteq Edits
    PROVE  Shown(e, r) \subseteq Edits
<1>1. doc[e] \subseteq Edits
  BY DEF TypeOK
<1> QED
  BY <1>1 DEF Shown

\* A save is sent only while a slot is free: no other save is overwritten.
LEMMA SlotIsFree ==
    ASSUME TypeOK, NEW e \in Editors, Cardinality(InFlight(e)) < session.saves
    PROVE  FreeSlot(e) \in 1..Requests /\ put[e][FreeSlot(e)] = None
<1>1. Cardinality(1..Requests) = Requests /\ IsFiniteSet(1..Requests)
  BY Numbers, FS_Interval
<1>2. session.saves \in Nat /\ session.saves <= Requests
  BY Numbers DEF TypeOK
<1>3. ASSUME \A i \in 1..Requests : put[e][i] # None PROVE FALSE
  <2>1. InFlight(e) = 1..Requests
    BY <1>3 DEF InFlight
  <2> QED
    BY <1>1, <1>2, <2>1, Numbers
<1> QED
  BY <1>3 DEF FreeSlot

LEMMA SaveTyped ==
    ASSUME TypeOK, NEW e \in Editors, NEW i \in 1..Requests, put[e][i] # None
    PROVE  put[e][i] \in Saves
<1>1. put[e] \in [1..Requests -> Put]
  BY DEF TypeOK
<1>2. put[e][i] \in Put
  BY <1>1
<1> QED
  BY <1>2 DEF Put

\* One save changes.
LEMMA OneSave ==
    ASSUME TypeOK, NEW e \in Editors, NEW i \in 1..Requests, NEW x \in Put,
           put' = [put EXCEPT ![e] = [put[e] EXCEPT ![i] = x]]
    PROVE  /\ put' \in [Editors -> [1..Requests -> Put]]
           /\ put'[e][i] = x
           /\ \A j \in 1..Requests \ {i} : put'[e][j] = put[e][j]
           /\ \A f \in Editors \ {e} : put'[f] = put[f]
  BY DEF TypeOK

\* What a save that is sent changes.
LEMMA Sending ==
    ASSUME TypeOK, NEW e \in Editors, NEW x \in Saves, Send(e, x)
    PROVE  /\ put' \in [Editors -> [1..Requests -> Put]]
           /\ timer' \in [Editors -> {"none", "clean", "dirty"}] /\ timer'[e] = "none"
           /\ slipped' \in [Editors -> BOOLEAN]
           /\ \E i \in 1..Requests :
                /\ put[e][i] = None /\ put'[e][i] = x
                /\ \A j \in 1..Requests \ {i} : put'[e][j] = put[e][j]
           /\ \A f \in Editors \ {e} : put'[f] = put[f] /\ timer'[f] = timer[f] /\ slipped'[f] = slipped[f]
<1>1. /\ Cardinality(InFlight(e)) < session.saves
      /\ put' = [put EXCEPT ![e][FreeSlot(e)] = x]
      /\ timer' = [timer EXCEPT ![e] = "none"] /\ slipped' = [slipped EXCEPT ![e] = FALSE]
  BY DEF Send
<1>2. PICK i \in 1..Requests : i = FreeSlot(e) /\ put[e][i] = None
  BY <1>1, SlotIsFree
<1>3. put' = [put EXCEPT ![e] = [put[e] EXCEPT ![i] = x]] /\ x \in Put
  BY <1>1, <1>2 DEF TypeOK, Put
<1>4. /\ timer' \in [Editors -> {"none", "clean", "dirty"}] /\ timer'[e] = "none"
      /\ slipped' \in [Editors -> BOOLEAN]
      /\ \A f \in Editors \ {e} : timer'[f] = timer[f] /\ slipped'[f] = slipped[f]
  BY <1>1 DEF TypeOK
<1>5. /\ put' \in [Editors -> [1..Requests -> Put]] /\ put'[e][i] = x
      /\ \A j \in 1..Requests \ {i} : put'[e][j] = put[e][j]
      /\ \A f \in Editors \ {e} : put'[f] = put[f]
  BY <1>3, OneSave
<1> QED
  BY <1>2, <1>4, <1>5

\* The save of this moment is well formed.
LEMMA SentSave ==
    ASSUME TypeOK, NEW e \in Editors
    PROVE  [ at |-> "sent", etag |-> etag[e], doc |-> doc[e], waived |-> waived[e],
             blind |-> etag[e] # base[e], past |-> FALSE, got |-> NoRevision ] \in Saves
  BY Numbers DEF TypeOK, Saves

LEMMA EditingTyped == EditingInv /\ [Next]_vars => TypeOK'
<1> SUFFICES ASSUME EditingInv, [Next]_vars PROVE TypeOK'
  OBVIOUS
<1>0. /\ TypeOK /\ cached <= Head1 /\ Head1 \in 1..MaxRevisions /\ session.length \in 1..MaxRevisions
      /\ session.edits \in 0..MaxEdits /\ \A e \in Editors : EditorInv(e)
      /\ DOMAIN revisions = 1..Head1 /\ \A r \in 1..Head1 : revisions[r] \subseteq Edits
  BY Numbers DEF EditingInv, TypeOK, Head1, Revisions
<1> USE Numbers
<1>1. CASE Fetched
  <2>1. PICK r \in (cached..Head1) \ {NoRevision} : Cache(r)
    BY <1>1 DEF Fetched
  <2>2. r \in 1..Head1 /\ r \in 0..MaxRevisions
    BY <1>0, <2>1 DEF TypeOK
  <2>3. \A e \in Editors : Shown(e, r) \subseteq Edits
    BY <1>0, <2>2, ShownTyped
  <2> QED
    BY <1>0, <1>1, <2>1, <2>2, <2>3 DEF Fetched, Cache, TypeOK, opened, Head1
<1>2. CASE OtherSaves
  <2>1. /\ edits' = edits + 1 /\ revisions' = Append(revisions, revisions[Head1] \cup {Blank, edits + 1})
        /\ edits < session.edits /\ Head1 < session.length /\ UNCHANGED <<cached, opened, local, put>>
    BY <1>2 DEF OtherSaves
  <2>2. revisions[Head1] \cup {Blank, edits + 1} \subseteq Edits /\ edits' \in 0..MaxEdits
    BY <1>0, <2>1 DEF TypeOK, Edits, Blank
  <2>3. revisions' \in Seq(SUBSET Edits) /\ Head1' \in Revisions
    BY <1>0, <2>1, <2>2 DEF TypeOK, Head1, Revisions
  <2> QED
    BY <1>0, <2>1, <2>2, <2>3 DEF TypeOK, opened, local
<1>3. ASSUME NEW e \in Editors, Open(e) PROVE TypeOK'
  <2>1. cached = NoRevision \/ cached \in 1..Head1
    BY <1>0 DEF TypeOK
  <2>2. UNCHANGED <<revisions, edits, cached, session, dirty, timer, banner, reload, waived, slipped, put>>
        /\ life' \in [Editors -> {"new", "open", "gone"}]
    BY <1>0, <1>3 DEF Open, TypeOK
  <2>3. /\ doc' \in [Editors -> SUBSET Edits] /\ base' \in [Editors -> 0..MaxRevisions]
        /\ etag' \in [Editors -> 0..MaxRevisions]
    <3>1. CASE cached = NoRevision
      <4>1. UNCHANGED <<doc, base, etag>>
        BY <1>3, <3>1 DEF Open
      <4> QED
        BY <1>0, <4>1 DEF TypeOK
    <3>2. CASE cached # NoRevision
      <4>1. /\ doc' = [doc EXCEPT ![e] = Shown(e, cached)]
            /\ base' = [base EXCEPT ![e] = cached] /\ etag' = [etag EXCEPT ![e] = cached]
        BY <1>3, <3>2 DEF Open
      <4>2. Shown(e, cached) \subseteq Edits /\ cached \in 0..MaxRevisions
        BY <1>0, <2>1, <3>2, ShownTyped DEF TypeOK
      <4> QED
        BY <1>0, <4>1, <4>2 DEF TypeOK
    <3> QED
      BY <3>1, <3>2
  <2> QED
    BY <1>0, <2>2, <2>3 DEF TypeOK, Head1
<1>4. ASSUME NEW e \in Editors, Edit(e) PROVE TypeOK'
  <2>1. edits + 1 \in Edits
    BY <1>0, <1>4 DEF Edit, TypeOK, Edits
  <2> QED
    BY <1>0, <1>4, <2>1 DEF Edit, TypeOK, opened, Head1
<1>5. ASSUME NEW e \in Editors, TimerFires(e) PROVE TypeOK'
  <2>1. CASE Sent(e)
    <3>1. UNCHANGED <<server, cached, opened, doc, base, etag, dirty, banner, reload, waived>>
      BY <1>5 DEF TimerFires
    <3> QED
      BY <1>0, <2>1, <3>1, Sending, SentSave DEF Sent, TypeOK, server, opened, Head1
  <2>2. CASE ~Sent(e)
    BY <1>0, <1>5, <2>2 DEF TimerFires, TypeOK, server, opened, Head1
  <2> QED
    BY <2>1, <2>2
<1>6. ASSUME NEW e \in Editors, NEW byUser \in BOOLEAN, SaveNow(e, byUser) PROVE TypeOK'
  <2>1. Sent(e) /\ UNCHANGED <<server, cached, opened, doc, base, etag, dirty, banner, reload, waived>>
    BY <1>6 DEF SaveNow
  <2> QED
    BY <1>0, <2>1, Sending, SentSave DEF Sent, TypeOK, server, opened, Head1
<1>7. ASSUME NEW e \in Editors, Leave(e) PROVE TypeOK'
  <2>1. /\ put' \in [Editors -> [1..Requests -> Put]]
        /\ timer' \in [Editors -> {"none", "clean", "dirty"}]
        /\ slipped' \in [Editors -> BOOLEAN]
    <3>1. CASE dirty[e]
      BY <1>0, <1>7, <3>1, Sending, SentSave DEF Leave, Sent
    <3>2. CASE ~dirty[e]
      BY <1>0, <1>7, <3>2 DEF Leave, TypeOK
    <3> QED
      BY <3>1, <3>2
  <2>2. /\ life' = [life EXCEPT ![e] = "gone"] /\ dirty' = [dirty EXCEPT ![e] = FALSE]
        /\ banner' = [banner EXCEPT ![e] = NoRevision]
        /\ UNCHANGED <<server, cached, session, doc, base, etag, reload, waived>>
    BY <1>7 DEF Leave
  <2> QED
    BY <1>0, <2>1, <2>2 DEF TypeOK, server, Head1
<1>8. ASSUME NEW e \in Editors, Overwrite(e) PROVE TypeOK'
  <2> DEFINE told == revisions[banner[e]] \ doc[e]
             x == [ at |-> "sent", etag |-> banner[e], doc |-> doc[e], waived |-> waived[e] \cup told,
                    blind |-> FALSE, past |-> FALSE, got |-> NoRevision ]
  <2>1. /\ banner[e] # NoRevision /\ waived' = [waived EXCEPT ![e] = waived[e] \cup told]
        /\ etag' = [etag EXCEPT ![e] = banner[e]] /\ base' = [base EXCEPT ![e] = banner[e]]
        /\ banner' = [banner EXCEPT ![e] = NoRevision] /\ Send(e, x)
        /\ UNCHANGED <<server, cached, opened, doc, dirty, reload>>
    BY <1>8 DEF Overwrite
  <2>2. banner[e] \in 1..Head1
    BY <1>0, <2>1 DEF TypeOK, EditorInv
  <2>3. told \subseteq Edits /\ x \in Saves
    BY <1>0, <2>2 DEF TypeOK, Saves
  <2> HIDE DEF told, x
  <2>4. /\ put' \in [Editors -> [1..Requests -> Put]]
        /\ timer' \in [Editors -> {"none", "clean", "dirty"}]
        /\ slipped' \in [Editors -> BOOLEAN]
    BY <1>0, <2>1, <2>3, Sending
  <2>5. /\ waived' \in [Editors -> SUBSET Edits] /\ etag' \in [Editors -> 0..MaxRevisions]
        /\ base' \in [Editors -> 0..MaxRevisions] /\ banner' \in [Editors -> 0..MaxRevisions]
    BY <1>0, <2>1, <2>3 DEF TypeOK
  <2> QED
    BY <1>0, <2>1, <2>4, <2>5 DEF TypeOK, server, opened, Head1
<1>9. ASSUME NEW e \in Editors, AskReload(e) PROVE TypeOK'
  <2>1. [at |-> "read", restore |-> FALSE, got |-> Head1] \in Reload
    BY <1>0 DEF Reload, Loads
  <2> QED
    BY <1>0, <1>9, <2>1 DEF AskReload, TypeOK, server, opened, Head1
<1>10. ASSUME NEW e \in Editors, Restore(e) PROVE TypeOK'
  <2>1. PICK r \in 1..(Head1 - 1) : revisions' = Append(revisions, revisions[r])
    BY <1>10 DEF Restore
  <2>2. revisions' \in Seq(SUBSET Edits) /\ Head1' \in Revisions
    BY <1>0, <1>10, <2>1 DEF Restore, TypeOK, Head1, Revisions
  <2>3. [at |-> "restored", restore |-> TRUE, got |-> NoRevision] \in Reload
    BY <1>0 DEF Reload, Loads
  <2> QED
    BY <1>0, <1>10, <2>2, <2>3 DEF Restore, TypeOK, opened
<1>11. ASSUME NEW e \in Editors, Restored(e) PROVE TypeOK'
  <2>1. [at |-> "read", restore |-> TRUE, got |-> Head1] \in Reload /\ None \in Reload
    BY <1>0 DEF Reload, Loads
  <2> QED
    BY <1>0, <1>11, <2>1 DEF Restored, TypeOK, server, opened, Head1
<1>12. ASSUME NEW e \in Editors, Reloaded(e) PROVE TypeOK'
  <2> DEFINE r == reload[e].got
             flag == revisions[r] = {} /\ (slipped[e] \/ dirty[e] \/ banner[e] # NoRevision)
             next(i) == IF put[e][i] = None THEN None
                        ELSE [put[e][i] EXCEPT !.past = put[e][i].past \/ revisions[r] # {}]
  <2>1. EditorInv(e) /\ reload[e].at = "read"
    BY <1>0, <1>12 DEF Reloaded
  <2>2. r \in 1..Head1 /\ r \in 0..MaxRevisions
    BY <1>0, <2>1 DEF EditorInv
  <2>3. Shown(e, r) \subseteq Edits
    BY <1>0, <2>2, ShownTyped
  <2>4. /\ doc' = [doc EXCEPT ![e] = Shown(e, r)] /\ etag' = [etag EXCEPT ![e] = r]
        /\ base' = [base EXCEPT ![e] = r] /\ waived' = [waived EXCEPT ![e] = {}]
        /\ dirty' = [dirty EXCEPT ![e] = FALSE] /\ slipped' = [slipped EXCEPT ![e] = flag]
        /\ banner' = [banner EXCEPT ![e] = IF reload[e].restore THEN banner[e] ELSE NoRevision]
        /\ reload' = [reload EXCEPT ![e] = None]
        /\ put' = [put EXCEPT ![e] = [i \in 1..Requests |-> next(i)]]
        /\ UNCHANGED <<server, cached, opened, timer>>
    BY <1>0, <1>12 DEF Reloaded, TypeOK
  <2>5. \A i \in 1..Requests : next(i) \in Put
    <3>1. ASSUME NEW i \in 1..Requests, put[e][i] # None PROVE put[e][i] \in Saves
      BY <1>0, <3>1 DEF TypeOK, Put
    <3> QED
      BY <3>1 DEF Put, Saves
  <2>6. flag \in BOOLEAN /\ None \in Reload
    BY DEF Reload
  <2> HIDE DEF r, flag, next
  <2>7. put' \in [Editors -> [1..Requests -> Put]]
    BY <1>0, <2>4, <2>5 DEF TypeOK
  <2>8. /\ doc' \in [Editors -> SUBSET Edits] /\ etag' \in [Editors -> 0..MaxRevisions]
        /\ base' \in [Editors -> 0..MaxRevisions] /\ waived' \in [Editors -> SUBSET Edits]
        /\ dirty' \in [Editors -> BOOLEAN] /\ slipped' \in [Editors -> BOOLEAN]
        /\ banner' \in [Editors -> 0..MaxRevisions] /\ reload' \in [Editors -> Reload]
    BY <1>0, <2>2, <2>3, <2>4, <2>6 DEF TypeOK
  <2> QED
    BY <1>0, <2>4, <2>7, <2>8 DEF TypeOK, server, opened, Head1
<1>13. ASSUME NEW e \in Editors, NEW i \in 1..Requests, ServerSaves(e, i) PROVE TypeOK'
  <2>0. put[e][i] \in Saves /\ UNCHANGED <<edits, cached, opened, local>>
    BY <1>0, <1>13 DEF ServerSaves, TypeOK, Put
  <2>1. CASE put[e][i].etag = Head1
    <3> DEFINE x == [put[e][i] EXCEPT !.at = "accepted", !.got = Head1 + 1]
    <3>1. /\ Head1 < session.length /\ revisions' = Append(revisions, put[e][i].doc)
          /\ put' = [put EXCEPT ![e][i].at = "accepted", ![e][i].got = Head1 + 1]
      BY <1>13, <2>1 DEF ServerSaves
    <3>2. x \in Put /\ put[e][i].doc \subseteq Edits
      <4>1. Head1 + 1 \in 0..MaxRevisions
        BY <1>0, <3>1
      <4>2. x \in Saves
        BY <2>0, <4>1 DEF Saves
      <4> QED
        BY <2>0, <4>2 DEF Put, Saves
    <3>3. put' = [put EXCEPT ![e] = [put[e] EXCEPT ![i] = x]]
      BY <1>0, <3>1 DEF TypeOK
    <3>4. put' \in [Editors -> [1..Requests -> Put]]
      BY <1>0, <3>2, <3>3, OneSave
    <3>5. revisions' \in Seq(SUBSET Edits) /\ Head1' \in Revisions
      BY <1>0, <3>1, <3>2 DEF TypeOK, Head1, Revisions
    <3> QED
      BY <1>0, <2>0, <3>4, <3>5 DEF TypeOK, opened, local
  <2>2. CASE put[e][i].etag # Head1
    <3> DEFINE x == [put[e][i] EXCEPT !.at = "refused"]
    <3>1. UNCHANGED revisions /\ put' = [put EXCEPT ![e][i].at = "refused"]
      BY <1>13, <2>2 DEF ServerSaves
    <3>2. x \in Put
      BY <2>0 DEF Put, Saves
    <3>3. put' = [put EXCEPT ![e] = [put[e] EXCEPT ![i] = x]]
      BY <1>0, <3>1 DEF TypeOK
    <3>4. put' \in [Editors -> [1..Requests -> Put]]
      BY <1>0, <3>2, <3>3, OneSave
    <3> QED
      BY <1>0, <2>0, <3>1, <3>4 DEF TypeOK, opened, local, Head1
  <2> QED
    BY <2>1, <2>2
<1>14. ASSUME NEW e \in Editors, NEW i \in 1..Requests, Saved(e, i) \/ Conflict(e, i) \/ SaveFails(e, i) PROVE TypeOK'
  <2>1. put' = [put EXCEPT ![e] = [put[e] EXCEPT ![i] = None]]
    BY <1>0, <1>14 DEF Saved, Conflict, SaveFails, TypeOK
  <2>2. put' \in [Editors -> [1..Requests -> Put]]
    BY <1>0, <2>1, OneSave DEF Put
  <2>3. put[e][i] # None
    BY <1>14 DEF Saved, Conflict, SaveFails
  <2>4. put[e][i] \in Saves
    BY <1>0, <2>3 DEF TypeOK, Put
  <2>5. put[e][i].got \in 0..MaxRevisions
    BY <2>4 DEF Saves
  <2>6. CASE Saved(e, i)
    BY <1>0, <2>2, <2>5, <2>6 DEF Saved, TypeOK, server, opened, Head1
  <2>7. CASE Conflict(e, i)
    BY <1>0, <2>2, <2>7 DEF Conflict, TypeOK, server, opened, Head1
  <2>8. CASE SaveFails(e, i)
    BY <1>0, <2>2, <2>8 DEF SaveFails, TypeOK, server, opened, Head1
  <2> QED
    BY <1>14, <2>6, <2>7, <2>8
<1>15. CASE UNCHANGED vars
  BY <1>0, <1>15 DEF vars, TypeOK, Head1
<1> QED
  BY <1>1, <1>2, <1>3, <1>4, <1>5, <1>6, <1>7, <1>8, <1>9, <1>10, <1>11, <1>12, <1>13, <1>14, <1>15 DEF Next

\* Revisions are only added.
Grows == Head1 \in 1..Head1' /\ \A r \in 1..Head1 : revisions'[r] = revisions[r]

LEMMA GrowsKeeps == ASSUME Grows, Head1' \in Nat PROVE Kept \subseteq Kept'
<1> SUFFICES ASSUME NEW x \in Kept PROVE x \in Kept'
  OBVIOUS
<1>1. CASE x = Blank
  BY <1>1 DEF Kept
<1>2. CASE x # Blank
  <2>1. PICK r \in 1..Head1 : x \in revisions[r]
    BY <1>2 DEF Kept
  <2>2. r \in 1..Head1' /\ x \in revisions'[r]
    BY <2>1 DEF Grows
  <2> QED
    BY <2>2 DEF Kept
<1> QED
  BY <1>1, <1>2

LEMMA Constant == ASSUME TypeOK, UNCHANGED revisions PROVE Grows /\ Head1' = Head1 /\ Kept' = Kept
<1>1. Head1' = Head1 /\ Head1 \in 1..Head1
  BY Numbers DEF TypeOK, Head1, Revisions
<1> QED
  BY <1>1 DEF Grows, Kept

LEMMA Appended ==
    ASSUME TypeOK, NEW d \in SUBSET Edits, revisions' = Append(revisions, d)
    PROVE  Grows /\ Head1' = Head1 + 1 /\ Head1 \in Nat /\ revisions'[Head1 + 1] = d
  BY Numbers DEF TypeOK, Head1, Revisions, Grows

\* A save that nothing happened to.
LEMMA SaveStays ==
    ASSUME Grows, Head1' \in Nat, TypeOK, NEW e \in Editors, NEW i \in 1..Requests, SaveInv(e, i),
           put'[e][i] = put[e][i], doc[e] \subseteq doc'[e]
    PROVE  SaveInv(e, i)'
<1> SUFFICES ASSUME put[e][i] # None PROVE SaveInv(e, i)'
  BY DEF SaveInv, None
<1>1. put[e][i] \in Saves
  BY SaveTyped
<1>2. put[e][i].etag \in Nat /\ put[e][i].etag <= Head1 /\ Head1 \in Nat /\ Head1 <= Head1'
  BY <1>1, Numbers DEF Saves, SaveInv, Grows
<1>3. put[e][i].at = "sent" /\ ~put[e][i].blind /\ put[e][i].etag \in 1..Head1 =>
         revisions'[put[e][i].etag] \subseteq put[e][i].doc \cup put[e][i].waived
  BY DEF SaveInv, Grows
<1>4. put[e][i].at = "accepted" =>
         put[e][i].got \in 1..Head1' /\ revisions'[put[e][i].got] = put[e][i].doc
  BY <1>2 DEF SaveInv, Grows
<1>5. ~put[e][i].past => put[e][i].doc \subseteq doc'[e]
  BY DEF SaveInv
<1> QED
  BY <1>2, <1>3, <1>4, <1>5 DEF SaveInv

\* An editor that nothing happened to, but for the ETag it may hear of.
LEMMA EditorStays ==
    ASSUME Grows, Head1' \in Nat, TypeOK, NEW e \in Editors, EditorInv(e), Remembered(e),
           life'[e] = life[e], doc'[e] = doc[e], base'[e] = base[e], etag'[e] <= Head1',
           dirty'[e] = dirty[e], timer'[e] = timer[e], banner'[e] = banner[e],
           reload'[e] = reload[e], waived'[e] = waived[e], slipped'[e] = slipped[e], put'[e] = put[e]
    PROVE  EditorInv(e)' /\ Remembered(e)'
<1>1. InFlight(e)' = InFlight(e)
  BY DEF InFlight
<1>2. \A i \in 1..Requests : SaveInv(e, i)'
  BY SaveStays DEF EditorInv
<1>3. Kept \subseteq Kept'
  BY GrowsKeeps
<1>4. Head1 \in Nat /\ Head1 <= Head1' /\ base[e] \in Nat /\ banner[e] \in Nat
  BY Numbers DEF Grows, TypeOK
<1>5. base[e] # NoRevision => revisions'[base[e]] \subseteq doc[e] \cup waived[e]
  BY <1>4, Numbers DEF EditorInv, Grows
<1>6. EditorInv(e)'
  BY <1>1, <1>2, <1>4, <1>5 DEF EditorInv
<1>7. Remembered(e)'
  BY <1>1, <1>3 DEF Remembered
<1> QED
  BY <1>6, <1>7

\* One editor acts.
LEMMA OneEditor ==
    ASSUME EditingInv, TypeOK', Grows, NEW e \in Editors, cached' <= Head1', EditorInv(e)', Remembered(e)',
           \A f \in Editors \ {e} :
              /\ life'[f] = life[f] /\ doc'[f] = doc[f] /\ base'[f] = base[f]
              /\ etag'[f] = etag[f] \/ etag'[f] <= Head1'
              /\ dirty'[f] = dirty[f] /\ timer'[f] = timer[f] /\ banner'[f] = banner[f]
              /\ reload'[f] = reload[f] /\ waived'[f] = waived[f] /\ slipped'[f] = slipped[f] /\ put'[f] = put[f]
    PROVE  EditingInv'
<1>1. TypeOK /\ Head1' \in Nat /\ Head1 \in Nat /\ Head1 <= Head1'
  BY DEF EditingInv, Grows, TypeOK, Head1
<1>2. ASSUME NEW f \in Editors PROVE EditorInv(f)' /\ Remembered(f)'
  <2>1. CASE f = e
    BY <2>1
  <2>2. CASE f # e
    <3>1. f \in Editors \ {e} /\ EditorInv(f) /\ Remembered(f)
      BY <2>2 DEF EditingInv
    <3>2. etag'[f] <= Head1'
      <4>1. etag[f] <= Head1 /\ etag[f] \in Nat
        BY <1>1, <3>1, Numbers DEF EditorInv, TypeOK
      <4>2. etag'[f] = etag[f] \/ etag'[f] <= Head1'
        BY <3>1
      <4> QED
        BY <1>1, <4>1, <4>2
    <3> QED
      BY <1>1, <3>1, <3>2, EditorStays
  <2> QED
    BY <2>1, <2>2
<1> QED
  BY <1>2 DEF EditingInv

\* A save is sent with a document and the ETag of a revision the document contains,
\* up to what is waived, or that is known to be of another.
LEMMA SentKeeps ==
    ASSUME EditingInv, NEW e \in Editors, NEW x \in Saves, Send(e, x), UNCHANGED revisions,
           doc'[e] = doc[e], x.at = "sent", x.doc = doc[e], x.etag <= Head1,
           ~x.blind /\ x.etag \in 1..Head1 => revisions[x.etag] \subseteq x.doc \cup x.waived
    PROVE  (\A i \in 1..Requests : SaveInv(e, i)') /\ Remembered(e)'
<1>1. TypeOK /\ EditorInv(e) /\ Grows /\ Head1' = Head1 /\ Kept' = Kept /\ Head1' \in Nat
  BY Constant DEF EditingInv, TypeOK, Head1
<1>2. PICK i \in 1..Requests :
         /\ put[e][i] = None /\ put'[e][i] = x
         /\ \A j \in 1..Requests \ {i} : put'[e][j] = put[e][j]
  BY <1>1, Sending
<1>3. SaveInv(e, i)'
  BY <1>1, <1>2 DEF SaveInv
<1>4. ASSUME NEW j \in 1..Requests, j # i PROVE SaveInv(e, j)'
  BY <1>1, <1>2, <1>4, SaveStays DEF EditorInv
<1>5. i \in InFlight(e)'
  BY <1>2, Numbers DEF InFlight
<1>6. doc'[e] \subseteq put'[e][i].doc \cup Kept'
  BY <1>2
<1> QED
  BY <1>3, <1>4, <1>5, <1>6 DEF Remembered

\* save() in an editor that has its page.
LEMMA SentStep ==
    ASSUME EditingInv, NEW e \in Editors, Sent(e), base[e] # NoRevision,
           UNCHANGED <<revisions, doc, base>>
    PROVE  (\A i \in 1..Requests : SaveInv(e, i)') /\ Remembered(e)'
<1> DEFINE x == [ at |-> "sent", etag |-> etag[e], doc |-> doc[e], waived |-> waived[e],
                  blind |-> etag[e] # base[e], past |-> FALSE, got |-> NoRevision ]
<1>1. TypeOK /\ EditorInv(e)
  BY DEF EditingInv
<1>2. x \in Saves /\ Send(e, x)
  BY <1>1, SentSave DEF Sent
<1>3. etag[e] <= Head1 /\ (etag[e] = base[e] => revisions[etag[e]] \subseteq doc[e] \cup waived[e])
  BY <1>1 DEF EditorInv
<1>4. /\ x.at = "sent" /\ x.doc = doc[e] /\ x.etag <= Head1
      /\ ~x.blind /\ x.etag \in 1..Head1 => revisions[x.etag] \subseteq x.doc \cup x.waived
  BY <1>3
<1> HIDE DEF x
<1> QED
  BY <1>2, <1>4, SentKeeps

LEMMA EditingStep == EditingInv /\ [Next]_vars => EditingInv'
<1> SUFFICES ASSUME EditingInv, [Next]_vars PROVE EditingInv'
  OBVIOUS
<1>0. /\ TypeOK /\ TypeOK' /\ cached <= Head1 /\ cached \in Nat /\ Head1 \in Nat /\ Head1' \in Nat
      /\ DOMAIN revisions = 1..Head1 /\ Head1 # 0
      /\ \A e \in Editors : EditorInv(e) /\ Remembered(e)
  BY EditingTyped, Numbers DEF EditingInv, TypeOK, Head1, Revisions
<1> USE Numbers
<1>1. CASE Fetched
  <2>1. PICK r \in (cached..Head1) \ {NoRevision} : Cache(r)
    BY <1>1 DEF Fetched
  <2>2. /\ r \in 1..Head1 /\ cached' = r
        /\ UNCHANGED <<revisions, edits, opened, dirty, timer, banner, reload, waived, slipped, put>>
    BY <1>0, <1>1, <2>1 DEF Fetched, Cache
  <2>3. Grows /\ Head1' = Head1 /\ Kept' = Kept
    BY <1>0, <2>2, Constant
  <2>4. ASSUME NEW e \in Editors PROVE EditorInv(e)' /\ Remembered(e)'
    <3>1. EditorInv(e) /\ Remembered(e) /\ etag'[e] \in {r, etag[e]}
      BY <1>0, <2>1 DEF Cache
    <3>2. CASE life[e] = "open" /\ base[e] = NoRevision
      <4>1. /\ base'[e] = r /\ doc'[e] = Shown(e, r) /\ etag'[e] = r
            /\ put'[e] = put[e] /\ banner'[e] = banner[e] /\ reload'[e] = reload[e] /\ life'[e] = life[e]
        BY <2>1, <2>2, <3>2 DEF Cache, opened
      <4>2. \A i \in 1..Requests : put[e][i] = None
        BY <3>1, <3>2 DEF EditorInv, InFlight
      <4>3. \A i \in 1..Requests : SaveInv(e, i)'
        BY <4>1, <4>2 DEF SaveInv, None
      <4>4. EditorInv(e)'
        BY <1>0, <2>2, <2>3, <3>1, <3>2, <4>1, <4>3, ShownIs DEF EditorInv
      <4>5. doc'[e] \subseteq Kept'
        <5>1. doc[e] \subseteq Kept
          BY <3>1, <3>2 DEF EditorInv, Kept
        <5> QED
          BY <2>2, <2>3, <4>1, <5>1, ShownIs
      <4> QED
        BY <4>4, <4>5 DEF Remembered
    <3>3. CASE ~(life[e] = "open" /\ base[e] = NoRevision)
      <4>1. base'[e] = base[e] /\ doc'[e] = doc[e]
        BY <2>1, <3>3 DEF Cache
      <4>2. etag'[e] <= Head1'
        BY <1>0, <2>2, <2>3, <3>1 DEF EditorInv
      <4> QED
        BY <1>0, <2>2, <2>3, <3>1, <4>1, <4>2, EditorStays DEF opened
    <3> QED
      BY <3>2, <3>3
  <2> QED
    BY <1>0, <2>2, <2>3, <2>4 DEF EditingInv
<1>2. CASE OtherSaves
  <2>1. /\ revisions' = Append(revisions, revisions[Head1] \cup {Blank, edits + 1})
        /\ edits < session.edits /\ UNCHANGED <<cached, opened, local, put>>
    BY <1>2 DEF OtherSaves
  <2>2. revisions[Head1] \cup {Blank, edits + 1} \in SUBSET Edits
    BY <1>0, <2>1 DEF TypeOK, Edits, Blank
  <2>3. Grows /\ Head1' = Head1 + 1
    BY <1>0, <2>1, <2>2, Appended
  <2>4. ASSUME NEW e \in Editors PROVE EditorInv(e)' /\ Remembered(e)'
    <3>1. etag[e] <= Head1 /\ etag[e] \in Nat
      BY <1>0 DEF EditorInv, TypeOK
    <3>2. etag'[e] <= Head1'
      BY <1>0, <2>1, <2>3, <3>1 DEF local
    <3> QED
      BY <1>0, <2>1, <2>3, <3>2, EditorStays DEF opened, local
  <2> QED
    BY <1>0, <2>1, <2>3, <2>4 DEF EditingInv
<1>3. ASSUME NEW e \in Editors, Open(e) PROVE EditingInv'
  <2>1. /\ life[e] = "new" /\ life' = [life EXCEPT ![e] = "open"]
        /\ UNCHANGED <<revisions, edits, cached, session, dirty, timer, banner, reload, waived, slipped, put>>
    BY <1>3 DEF Open
  <2>2. Grows /\ Head1' = Head1 /\ Kept' = Kept
    BY <1>0, <2>1, Constant
  <2>3. /\ base[e] = NoRevision /\ doc[e] = {Blank} /\ \A i \in 1..Requests : put[e][i] = None
        /\ EditorInv(e)
    BY <1>0, <2>1 DEF EditorInv, InFlight
  <2>4. \A i \in 1..Requests : SaveInv(e, i)'
    BY <2>1, <2>3 DEF SaveInv, None
  <2>5. InFlight(e)' = InFlight(e) /\ life'[e] = "open"
    BY <1>0, <2>1 DEF InFlight, TypeOK, None
  <2>6. EditorInv(e)' /\ Remembered(e)'
    <3>1. CASE cached = NoRevision
      <4>1. UNCHANGED <<doc, base, etag>>
        BY <1>3, <3>1 DEF Open
      <4>2. EditorInv(e)'
        BY <2>1, <2>2, <2>3, <2>4, <2>5, <4>1 DEF EditorInv
      <4> QED
        BY <2>3, <4>1, <4>2 DEF Remembered, Kept
    <3>2. CASE cached # NoRevision
      <4>1. doc'[e] = Shown(e, cached) /\ base'[e] = cached /\ etag'[e] = cached /\ cached \in 1..Head1
        BY <1>0, <1>3, <3>2 DEF Open, TypeOK
      <4>2. doc'[e] \subseteq Kept'
        <5>1. doc[e] \subseteq Kept
          BY <2>3 DEF Kept
        <5> QED
          BY <2>2, <4>1, <5>1, ShownIs
      <4>3. EditorInv(e)'
        BY <1>0, <2>1, <2>2, <2>3, <2>4, <2>5, <4>1, ShownIs DEF EditorInv
      <4> QED
        BY <4>2, <4>3 DEF Remembered
    <3> QED
      BY <3>1, <3>2
  <2>7. \A f \in Editors \ {e} : life'[f] = life[f] /\ doc'[f] = doc[f] /\ base'[f] = base[f] /\ etag'[f] = etag[f]
    BY <1>0, <1>3 DEF Open, TypeOK
  <2> QED
    BY <1>0, <2>1, <2>2, <2>6, <2>7, OneEditor
<1>4. ASSUME NEW e \in Editors, Edit(e) PROVE EditingInv'
  <2>1. /\ base[e] # NoRevision /\ doc' = [doc EXCEPT ![e] = doc[e] \cup {edits + 1}]
        /\ dirty' = [dirty EXCEPT ![e] = TRUE]
        /\ timer' = [timer EXCEPT ![e] = IF dirty[e] THEN "dirty" ELSE "clean"]
        /\ slipped' = [slipped EXCEPT ![e] = ~dirty[e] /\ (slipped[e] \/ InFlight(e) # {})]
        /\ UNCHANGED <<revisions, cached, opened, base, etag, banner, reload, waived, put>>
    BY <1>0, <1>4 DEF Edit, Loaded, TypeOK
  <2>2. Grows /\ Head1' = Head1
    BY <1>0, <2>1, Constant
  <2>3. /\ doc'[e] = doc[e] \cup {edits + 1} /\ dirty'[e]
        /\ timer'[e] = IF dirty[e] THEN "dirty" ELSE "clean"
        /\ slipped'[e] = (~dirty[e] /\ (slipped[e] \/ InFlight(e) # {}))
    BY <1>0, <2>1 DEF TypeOK
  <2>4. \A i \in 1..Requests : SaveInv(e, i)'
    BY <1>0, <2>1, <2>2, <2>3, SaveStays DEF EditorInv
  <2>5. InFlight(e)' = InFlight(e)
    BY <2>1 DEF InFlight, None
  <2>6. EditorInv(e)'
    BY <1>0, <2>1, <2>2, <2>3, <2>4, <2>5 DEF EditorInv, opened
  <2>7. Remembered(e)'
    BY <2>3, <2>5 DEF Remembered
  <2>8. \A f \in Editors \ {e} : doc'[f] = doc[f] /\ dirty'[f] = dirty[f] /\ timer'[f] = timer[f] /\ slipped'[f] = slipped[f]
    BY <1>0, <2>1 DEF TypeOK
  <2> QED
    BY <1>0, <2>1, <2>2, <2>6, <2>7, <2>8, OneEditor DEF opened
<1>5. ASSUME NEW e \in Editors, TimerFires(e) \/ \E byUser \in BOOLEAN : SaveNow(e, byUser) PROVE EditingInv'
  <2>1. UNCHANGED <<revisions, edits, cached, session, life, doc, base, etag, dirty, banner, reload, waived>>
    BY <1>5 DEF TimerFires, SaveNow, server, opened
  <2>2. Grows /\ Head1' = Head1 /\ Kept' = Kept
    BY <1>0, <2>1, Constant
  <2>3. CASE Sent(e)
    <3>1. base[e] # NoRevision
      <4>1. timer[e] # "none" \/ base[e] # NoRevision
        BY <1>5 DEF TimerFires, SaveNow, Loaded
      <4> QED
        BY <1>0, <4>1 DEF EditorInv
    <3>2. (\A i \in 1..Requests : SaveInv(e, i)') /\ Remembered(e)'
      BY <2>1, <2>3, <3>1, SentStep
    <3>3. EditorInv(e)'
      BY <1>0, <2>1, <2>2, <3>1, <3>2 DEF EditorInv
    <3>4. \A f \in Editors \ {e} : put'[f] = put[f] /\ timer'[f] = timer[f] /\ slipped'[f] = slipped[f]
      BY <1>0, <2>3, Sending, SentSave DEF Sent
    <3> QED
      BY <1>0, <2>1, <2>2, <3>2, <3>3, <3>4, OneEditor
  <2>4. CASE ~Sent(e)
    <3>1. timer[e] = "clean" /\ timer' = [timer EXCEPT ![e] = "none"] /\ UNCHANGED <<slipped, put>>
      BY <1>5, <2>4 DEF TimerFires, SaveNow
    <3>2. timer'[e] = "none" /\ \A f \in Editors \ {e} : timer'[f] = timer[f]
      BY <1>0, <3>1 DEF TypeOK
    <3>3. \A i \in 1..Requests : SaveInv(e, i)'
      BY <1>0, <2>1, <2>2, <3>1, SaveStays DEF EditorInv
    <3>4. InFlight(e)' = InFlight(e)
      BY <3>1 DEF InFlight, None
    <3>5. EditorInv(e)' /\ Remembered(e)'
      BY <1>0, <2>1, <2>2, <3>1, <3>2, <3>3, <3>4 DEF EditorInv, Remembered
    <3> QED
      BY <1>0, <2>1, <2>2, <3>1, <3>2, <3>5, OneEditor
  <2> QED
    BY <2>3, <2>4
<1>6. ASSUME NEW e \in Editors, Leave(e) PROVE EditingInv'
  <2>1. /\ life[e] = "open" /\ reload[e] = None /\ life' = [life EXCEPT ![e] = "gone"]
        /\ dirty' = [dirty EXCEPT ![e] = FALSE] /\ banner' = [banner EXCEPT ![e] = NoRevision]
        /\ UNCHANGED <<server, cached, session, doc, base, etag, reload, waived>>
        /\ dirty[e] => Sent(e)
        /\ ~dirty[e] => UNCHANGED <<put, timer, slipped>>
    BY <1>6 DEF Leave
  <2>2. Grows /\ Head1' = Head1 /\ Kept' = Kept /\ UNCHANGED revisions
    BY <1>0, <2>1, Constant DEF server
  <2>3. life'[e] = "gone" /\ ~dirty'[e] /\ banner'[e] = NoRevision
    BY <1>0, <2>1 DEF TypeOK
  <2>4. /\ \A i \in 1..Requests : SaveInv(e, i)'
        /\ base[e] = NoRevision => timer'[e] = "none" /\ InFlight(e)' = {}
        /\ \A f \in Editors \ {e} : put'[f] = put[f] /\ timer'[f] = timer[f] /\ slipped'[f] = slipped[f]
    <3>1. CASE dirty[e]
      <4>1. base[e] # NoRevision
        BY <1>0, <3>1 DEF EditorInv
      <4> QED
        BY <1>0, <2>1, <2>2, <3>1, <4>1, SentStep, Sending, SentSave DEF Sent
    <3>2. CASE ~dirty[e]
      <4>1. InFlight(e)' = InFlight(e)
        BY <2>1, <3>2 DEF InFlight, None
      <4>2. \A i \in 1..Requests : SaveInv(e, i)'
        BY <1>0, <2>1, <2>2, <3>2, SaveStays DEF EditorInv
      <4> QED
        BY <1>0, <2>1, <3>2, <4>1, <4>2 DEF EditorInv
    <3> QED
      BY <3>1, <3>2
  <2>5. EditorInv(e)'
    BY <1>0, <2>1, <2>2, <2>3, <2>4 DEF EditorInv
  <2>6. Remembered(e)'
    BY <2>3 DEF Remembered
  <2>7. \A f \in Editors \ {e} : life'[f] = life[f] /\ dirty'[f] = dirty[f] /\ banner'[f] = banner[f]
    BY <1>0, <2>1 DEF TypeOK
  <2> QED
    BY <1>0, <2>1, <2>2, <2>4, <2>5, <2>6, <2>7, OneEditor
<1>7. ASSUME NEW e \in Editors, Overwrite(e) PROVE EditingInv'
  <2> DEFINE told == revisions[banner[e]] \ doc[e]
             x == [ at |-> "sent", etag |-> banner[e], doc |-> doc[e], waived |-> waived[e] \cup told,
                    blind |-> FALSE, past |-> FALSE, got |-> NoRevision ]
  <2>1. /\ banner[e] # NoRevision /\ waived' = [waived EXCEPT ![e] = waived[e] \cup told]
        /\ etag' = [etag EXCEPT ![e] = banner[e]] /\ base' = [base EXCEPT ![e] = banner[e]]
        /\ banner' = [banner EXCEPT ![e] = NoRevision] /\ Send(e, x)
        /\ UNCHANGED <<server, cached, opened, doc, dirty, reload>>
    BY <1>7 DEF Overwrite
  <2>2. /\ banner[e] \in 1..Head1 /\ banner[e] \in 0..MaxRevisions
        /\ doc[e] \subseteq Edits /\ waived[e] \subseteq Edits /\ revisions[banner[e]] \subseteq Edits
    BY <1>0, <2>1 DEF TypeOK, EditorInv
  <2>3. /\ x \in Saves /\ x.at = "sent" /\ x.doc = doc[e] /\ x.etag <= Head1
        /\ revisions[x.etag] \subseteq x.doc \cup x.waived
    BY <1>0, <2>2 DEF Saves
  <2>4. Grows /\ Head1' = Head1 /\ Kept' = Kept /\ UNCHANGED revisions
    BY <1>0, <2>1, Constant DEF server
  <2>5. waived'[e] = waived[e] \cup told /\ etag'[e] = banner[e] /\ base'[e] = banner[e] /\ banner'[e] = NoRevision
    BY <1>0, <2>1 DEF TypeOK
  <2>6. revisions'[base'[e]] \subseteq doc'[e] \cup waived'[e]
    BY <2>1, <2>4, <2>5
  <2> HIDE DEF x, told
  <2>7. (\A i \in 1..Requests : SaveInv(e, i)') /\ Remembered(e)'
    BY <2>1, <2>3, <2>4, SentKeeps
  <2>8. EditorInv(e)'
    BY <1>0, <2>1, <2>2, <2>4, <2>5, <2>6, <2>7 DEF EditorInv, opened
  <2>9. \A f \in Editors \ {e} : /\ waived'[f] = waived[f] /\ etag'[f] = etag[f] /\ base'[f] = base[f]
                                 /\ banner'[f] = banner[f]
    BY <1>0, <2>1 DEF TypeOK
  <2>10. \A f \in Editors \ {e} : put'[f] = put[f] /\ timer'[f] = timer[f] /\ slipped'[f] = slipped[f]
    BY <1>0, <2>1, <2>3, Sending
  <2> QED
    BY <1>0, <2>1, <2>4, <2>7, <2>8, <2>9, <2>10, OneEditor DEF opened
<1>8. ASSUME NEW e \in Editors, AskReload(e) \/ Restore(e) \/ Restored(e) PROVE EditingInv'
  <2>1. /\ UNCHANGED <<edits, cached, opened, doc, base, etag, dirty, timer, banner, waived, slipped, put>>
        /\ base[e] # NoRevision
        /\ UNCHANGED revisions \/ \E r \in 1..(Head1 - 1) : revisions' = Append(revisions, revisions[r])
    BY <1>0, <1>8 DEF AskReload, Restore, Restored, server, Loaded, EditorInv
  <2>2. Grows /\ Head1 <= Head1' /\ Kept \subseteq Kept'
    <3>1. CASE UNCHANGED revisions
      BY <1>0, <3>1, Constant
    <3>2. CASE ~UNCHANGED revisions
      <4>1. PICK r \in 1..(Head1 - 1) : revisions' = Append(revisions, revisions[r])
        BY <2>1, <3>2
      <4>2. revisions[r] \in SUBSET Edits
        BY <1>0, <4>1 DEF TypeOK
      <4> QED
        BY <1>0, <4>1, <4>2, Appended, GrowsKeeps
    <3> QED
      BY <3>1, <3>2
  <2>3. /\ reload'[e].at = "read" => reload'[e].got \in 1..Head1'
        /\ \A f \in Editors \ {e} : reload'[f] = reload[f]
    <3>1. /\ AskReload(e) \/ Restored(e) => Head1' = Head1
          /\ reload' = [reload EXCEPT ![e] = reload'[e]]
          /\ reload'[e] \in {None, [at |-> "read", restore |-> FALSE, got |-> Head1],
                             [at |-> "restored", restore |-> TRUE, got |-> NoRevision],
                             [at |-> "read", restore |-> TRUE, got |-> Head1]}
      BY <1>0, <1>8, Constant DEF AskReload, Restore, Restored, server, TypeOK
    <3> QED
      BY <1>0, <2>2, <3>1 DEF TypeOK
  <2>4. \A i \in 1..Requests : SaveInv(e, i)'
    BY <1>0, <2>1, <2>2, SaveStays DEF EditorInv
  <2>5. InFlight(e)' = InFlight(e)
    BY <2>1 DEF InFlight, None
  <2>6. /\ base[e] \in 1..Head1 /\ etag[e] \in Nat /\ banner[e] \in Nat
        /\ etag[e] <= Head1 /\ banner[e] <= Head1
    BY <1>0, <2>1 DEF EditorInv, TypeOK
  <2>7. EditorInv(e)'
    <3>1. base'[e] <= Head1' /\ etag'[e] <= Head1' /\ banner'[e] <= Head1'
      BY <1>0, <2>1, <2>2, <2>6
    <3>2. revisions'[base[e]] = revisions[base[e]]
      BY <2>2, <2>6 DEF Grows
    <3>3. life'[e] # "new" /\ revisions[base[e]] \subseteq doc[e] \cup waived[e]
      BY <1>0, <2>1 DEF EditorInv, opened
    <3> QED
      BY <2>1, <2>3, <2>4, <3>1, <3>2, <3>3 DEF EditorInv
  <2>8. Remembered(e)'
    BY <1>0, <2>1, <2>2, <2>5 DEF Remembered, opened
  <2> QED
    BY <1>0, <2>1, <2>2, <2>3, <2>7, <2>8, OneEditor DEF opened
<1>9. ASSUME NEW e \in Editors, Reloaded(e) PROVE EditingInv'
  <2> DEFINE r == reload[e].got
             flag == revisions[r] = {} /\ (slipped[e] \/ dirty[e] \/ banner[e] # NoRevision)
             next(i) == IF put[e][i] = None THEN None
                        ELSE [put[e][i] EXCEPT !.past = put[e][i].past \/ revisions[r] # {}]
  <2>1. /\ reload[e] # None /\ reload[e].at = "read"
        /\ doc' = [doc EXCEPT ![e] = Shown(e, r)] /\ etag' = [etag EXCEPT ![e] = r]
        /\ base' = [base EXCEPT ![e] = r] /\ waived' = [waived EXCEPT ![e] = {}]
        /\ dirty' = [dirty EXCEPT ![e] = FALSE] /\ slipped' = [slipped EXCEPT ![e] = flag]
        /\ banner' = [banner EXCEPT ![e] = IF reload[e].restore THEN banner[e] ELSE NoRevision]
        /\ reload' = [reload EXCEPT ![e] = None]
        /\ put' = [put EXCEPT ![e] = [i \in 1..Requests |-> next(i)]]
        /\ UNCHANGED <<server, cached, opened, timer>>
    BY <1>0, <1>9 DEF Reloaded, TypeOK
  <2>2. Grows /\ Head1' = Head1 /\ Kept' = Kept /\ UNCHANGED revisions
    BY <1>0, <2>1, Constant DEF server
  <2>3. EditorInv(e) /\ Remembered(e) /\ r \in 1..Head1 /\ base[e] # NoRevision
    BY <1>0, <2>1 DEF EditorInv
  <2>4. /\ doc'[e] = Shown(e, r) /\ etag'[e] = r /\ base'[e] = r /\ waived'[e] = {} /\ ~dirty'[e]
        /\ banner'[e] \in {banner[e], NoRevision} /\ reload'[e] = None /\ slipped'[e] = flag
        /\ \A i \in 1..Requests : put'[e][i] = next(i)
    BY <1>0, <2>1 DEF TypeOK
  <2>5. ASSUME NEW i \in 1..Requests, put[e][i] # None
        PROVE  /\ put'[e][i].at = put[e][i].at /\ put'[e][i].etag = put[e][i].etag
               /\ put'[e][i].doc = put[e][i].doc /\ put'[e][i].waived = put[e][i].waived
               /\ put'[e][i].blind = put[e][i].blind /\ put'[e][i].got = put[e][i].got
               /\ put'[e][i].past = (put[e][i].past \/ revisions[r] # {})
               /\ put'[e][i] # None
    <3>1. put[e][i] \in Saves
      BY <1>0, <2>5, SaveTyped
    <3>2. put'[e][i] = [put[e][i] EXCEPT !.past = put[e][i].past \/ revisions[r] # {}]
      BY <2>4, <2>5
    <3> QED
      BY <3>1, <3>2 DEF Saves, None
  <2>6. ASSUME NEW i \in 1..Requests PROVE SaveInv(e, i)'
    <3>1. CASE put[e][i] = None
      BY <2>4, <3>1 DEF SaveInv, None
    <3>2. CASE put[e][i] # None
      <4>1. SaveInv(e, i)
        BY <2>3 DEF EditorInv
      <4>2. ~put'[e][i].past => put'[e][i].doc \subseteq doc'[e]
        BY <2>3, <2>4, <2>5, <3>2, <4>1, ShownIs DEF SaveInv
      <4> QED
        BY <2>2, <2>5, <3>2, <4>1, <4>2 DEF SaveInv
    <3> QED
      BY <3>1, <3>2
  <2>7. r \in 1..Head1' /\ revisions[r] \subseteq Shown(e, r)
    BY <2>2, <2>3, ShownIs
  <2>8. ASSUME revisions[r] # {} PROVE Remembered(e)'
    <3>1. doc'[e] \subseteq Kept'
      BY <2>2, <2>3, <2>4, <2>8, ShownIs
    <3> QED
      BY <3>1 DEF Remembered
  <2>9. ASSUME revisions[r] = {} PROVE Remembered(e)'
    <3>1. doc'[e] = doc[e] /\ flag = (slipped[e] \/ dirty[e] \/ banner[e] # NoRevision)
      BY <1>0, <2>3, <2>4, <2>9, ShownIs DEF TypeOK
    <3>2. life'[e] = life[e] /\ timer'[e] = timer[e]
      BY <2>1 DEF opened
    <3>3. ASSUME NEW i \in InFlight(e), doc[e] \subseteq put[e][i].doc \cup Kept
          PROVE  i \in InFlight(e)' /\ doc'[e] \subseteq put'[e][i].doc \cup Kept'
      <4>1. i \in 1..Requests /\ put[e][i] # None
        BY DEF InFlight
      <4>2. put'[e][i] # None /\ put'[e][i].doc = put[e][i].doc
        BY <2>5, <4>1
      <4> QED
        BY <2>2, <3>1, <3>3, <4>1, <4>2 DEF InFlight
    <3> HIDE DEF flag
    <3> QED
      BY <2>2, <2>3, <2>4, <3>1, <3>2, <3>3 DEF Remembered
  <2>10. Remembered(e)'
    BY <2>8, <2>9
  <2> HIDE DEF r, flag, next
  <2>11. EditorInv(e)'
    BY <1>0, <2>1, <2>2, <2>3, <2>4, <2>6, <2>7 DEF EditorInv, opened
  <2>12. \A f \in Editors \ {e} :
           /\ doc'[f] = doc[f] /\ etag'[f] = etag[f] /\ base'[f] = base[f] /\ waived'[f] = waived[f]
           /\ dirty'[f] = dirty[f] /\ slipped'[f] = slipped[f] /\ banner'[f] = banner[f]
           /\ reload'[f] = reload[f] /\ put'[f] = put[f]
    BY <1>0, <2>1 DEF TypeOK
  <2> QED
    BY <1>0, <2>1, <2>2, <2>10, <2>11, <2>12, OneEditor DEF opened
<1>10. ASSUME NEW e \in Editors, NEW i \in 1..Requests, ServerSaves(e, i) PROVE EditingInv'
  <2>1. /\ put[e][i] # None /\ put[e][i].at = "sent" /\ UNCHANGED <<edits, cached, opened, local>>
    BY <1>10 DEF ServerSaves
  <2>2. put[e][i] \in Saves /\ EditorInv(e) /\ SaveInv(e, i)
    BY <1>0, <2>1, SaveTyped DEF EditorInv
  <2>3. PICK x \in Saves :
           /\ put' = [put EXCEPT ![e] = [put[e] EXCEPT ![i] = x]]
           /\ x.doc = put[e][i].doc /\ x.etag = put[e][i].etag /\ x.past = put[e][i].past
           /\ \/ UNCHANGED revisions /\ x.at = "refused"
              \/ /\ revisions' = Append(revisions, put[e][i].doc)
                 /\ x.at = "accepted" /\ x.got = Head1 + 1
    <3>1. CASE put[e][i].etag = Head1
      <4> DEFINE x == [put[e][i] EXCEPT !.at = "accepted", !.got = Head1 + 1]
      <4>1. /\ Head1 < session.length /\ revisions' = Append(revisions, put[e][i].doc)
            /\ put' = [put EXCEPT ![e][i].at = "accepted", ![e][i].got = Head1 + 1]
        BY <1>10, <3>1 DEF ServerSaves
      <4>0. put \in [Editors -> [1..Requests -> Put]] /\ session.length \in 1..MaxRevisions
        BY <1>0 DEF TypeOK
      <4>2. put' = [put EXCEPT ![e] = [put[e] EXCEPT ![i] = x]]
        BY <4>0, <4>1
      <4>3. Head1 + 1 \in 0..MaxRevisions
        BY <1>0, <4>0, <4>1
      <4>4. /\ x \in Saves /\ x.doc = put[e][i].doc /\ x.etag = put[e][i].etag
            /\ x.past = put[e][i].past /\ x.at = "accepted" /\ x.got = Head1 + 1
        BY <2>2, <4>3 DEF Saves
      <4> HIDE DEF x
      <4> QED
        BY <4>1, <4>2, <4>4
    <3>2. CASE put[e][i].etag # Head1
      <4> DEFINE x == [put[e][i] EXCEPT !.at = "refused"]
      <4>1. UNCHANGED revisions /\ put' = [put EXCEPT ![e][i].at = "refused"]
        BY <1>10, <3>2 DEF ServerSaves
      <4>2. put' = [put EXCEPT ![e] = [put[e] EXCEPT ![i] = x]]
        BY <1>0, <4>1 DEF TypeOK
      <4>3. /\ x \in Saves /\ x.doc = put[e][i].doc /\ x.etag = put[e][i].etag
            /\ x.past = put[e][i].past /\ x.at = "refused"
        BY <2>2 DEF Saves
      <4> HIDE DEF x
      <4> QED
        BY <4>1, <4>2, <4>3
    <3> QED
      BY <3>1, <3>2
  <2>4. put[e][i].doc \in SUBSET Edits /\ put[e][i].etag \in Nat
    BY <2>2 DEF Saves
  <2>5. /\ Grows /\ Head1 <= Head1' /\ Kept \subseteq Kept'
        /\ x.at = "accepted" => x.got \in 1..Head1' /\ revisions'[x.got] = x.doc
    <3>1. CASE x.at = "refused"
      BY <1>0, <2>3, <3>1, Constant
    <3>2. CASE x.at = "accepted"
      BY <1>0, <2>3, <2>4, <3>2, Appended, GrowsKeeps
    <3> QED
      BY <2>3, <3>1, <3>2
  <2>6. /\ put'[e][i] = x /\ \A j \in 1..Requests \ {i} : put'[e][j] = put[e][j]
        /\ \A f \in Editors \ {e} : put'[f] = put[f]
    BY <1>0, <2>3, OneSave DEF Put
  <2>7. ASSUME NEW j \in 1..Requests PROVE SaveInv(e, j)'
    <3>1. CASE j = i
      <4>1. x.at # "sent" /\ x.etag <= Head1'
        BY <1>0, <2>1, <2>2, <2>3, <2>4, <2>5 DEF SaveInv
      <4>2. ~x.past => x.doc \subseteq doc'[e]
        BY <2>1, <2>2, <2>3 DEF SaveInv, local
      <4> QED
        BY <2>5, <2>6, <3>1, <4>1, <4>2 DEF SaveInv
    <3>2. CASE j # i
      BY <1>0, <2>1, <2>2, <2>5, <2>6, <3>2, SaveStays DEF EditorInv, local
    <3> QED
      BY <3>1, <3>2
  <2>8. InFlight(e)' = InFlight(e)
    <3>1. x # None
      BY <2>3
    <3> QED
      BY <2>1, <2>6, <3>1 DEF InFlight, None
  <2>9. base[e] \in 1..Head1 /\ etag[e] \in Nat /\ banner[e] \in Nat /\ etag[e] <= Head1 /\ banner[e] <= Head1
    <3>1. i \in InFlight(e)
      BY <2>1 DEF InFlight
    <3> QED
      BY <1>0, <2>2, <3>1 DEF EditorInv, TypeOK
  <2>10. EditorInv(e)'
    <3>1. base[e] <= Head1' /\ etag[e] <= Head1' /\ banner[e] <= Head1'
      BY <1>0, <2>5, <2>9
    <3>2. revisions'[base[e]] \subseteq doc[e] \cup waived[e]
      BY <2>2, <2>5, <2>9 DEF EditorInv, Grows
    <3>3. reload[e].at = "read" => reload[e].got \in 1..Head1'
      BY <1>0, <2>2, <2>5 DEF EditorInv
    <3> QED
      BY <2>1, <2>2, <2>7, <2>9, <3>1, <3>2, <3>3 DEF EditorInv, local, opened
  <2>11. Remembered(e)'
    <3>1. \A j \in 1..Requests : put[e][j] # None => put'[e][j].doc = put[e][j].doc
      BY <2>3, <2>6
    <3> QED
      BY <1>0, <2>1, <2>5, <2>8, <3>1 DEF Remembered, local, opened, InFlight
  <2>12. cached' <= Head1'
    BY <1>0, <2>1, <2>5
  <2> QED
    BY <1>0, <2>1, <2>5, <2>6, <2>10, <2>11, <2>12, OneEditor DEF local, opened
<1>11. ASSUME NEW e \in Editors, NEW i \in 1..Requests, Saved(e, i) \/ Conflict(e, i) \/ SaveFails(e, i)
       PROVE  EditingInv'
  <2>1. /\ put[e][i] # None /\ put' = [put EXCEPT ![e][i] = None]
        /\ UNCHANGED <<server, opened, doc, timer, reload, waived>>
    BY <1>11 DEF Saved, Conflict, SaveFails
  <2>2. Grows /\ Head1' = Head1 /\ Kept' = Kept /\ UNCHANGED revisions
    BY <1>0, <2>1, Constant DEF server
  <2>3. put[e][i] \in Saves /\ EditorInv(e) /\ SaveInv(e, i) /\ Remembered(e) /\ i \in InFlight(e)
    BY <1>0, <2>1, SaveTyped DEF EditorInv, InFlight
  <2>4. /\ put'[e][i] = None /\ \A j \in 1..Requests \ {i} : put'[e][j] = put[e][j]
        /\ \A f \in Editors \ {e} : put'[f] = put[f]
    <3>1. put' = [put EXCEPT ![e] = [put[e] EXCEPT ![i] = None]]
      BY <1>0, <2>1 DEF TypeOK
    <3> QED
      BY <1>0, <3>1, OneSave DEF Put
  <2>5. ASSUME NEW j \in 1..Requests PROVE SaveInv(e, j)'
    <3>1. CASE j = i
      BY <2>4, <3>1 DEF SaveInv, None
    <3>2. CASE j # i
      BY <1>0, <2>1, <2>2, <2>3, <2>4, <3>2, SaveStays DEF EditorInv
    <3> QED
      BY <3>1, <3>2
  <2>6. base[e] # NoRevision /\ life[e] # "new"
    BY <2>3 DEF EditorInv
  <2>7. CASE Saved(e, i)
    <3> DEFINE r == put[e][i].got
    <3>1. /\ put[e][i].at = "accepted" /\ dirty' = [dirty EXCEPT ![e] = FALSE]
          /\ cached' = IF cached = NoRevision THEN cached ELSE r
          /\ etag' = [f \in Editors |->
                IF f = e \/ (life[f] = "open" /\ cached # NoRevision) THEN r ELSE etag[f]]
          /\ base' = [base EXCEPT ![e] = IF put[e][i].past THEN base[e] ELSE r]
          /\ UNCHANGED <<banner, slipped>>
      BY <1>0, <2>7 DEF Saved, TypeOK
    <3>2. r \in 1..Head1 /\ revisions[r] = put[e][i].doc
      BY <2>1, <2>3, <3>1 DEF SaveInv
    <3> HIDE DEF r
    <3>3. /\ ~dirty'[e] /\ etag'[e] = r /\ cached' <= Head1'
          /\ base'[e] = IF put[e][i].past THEN base[e] ELSE r
          /\ \A f \in Editors \ {e} :
                /\ dirty'[f] = dirty[f] /\ base'[f] = base[f] /\ etag'[f] \in {etag[f], r}
      BY <1>0, <2>2, <3>1, <3>2 DEF TypeOK
    <3>4. base'[e] # NoRevision /\ base'[e] <= Head1 /\ revisions[base'[e]] \subseteq doc[e] \cup waived[e]
      <4>1. CASE put[e][i].past
        BY <2>3, <2>6, <3>3, <4>1 DEF EditorInv
      <4>2. CASE ~put[e][i].past
        <5>1. put[e][i].doc \subseteq doc[e]
          BY <2>1, <2>3, <4>2 DEF SaveInv
        <5> QED
          BY <1>0, <3>2, <3>3, <4>2, <5>1
      <4> QED
        BY <4>1, <4>2
    <3>5. EditorInv(e)'
      BY <1>0, <2>1, <2>2, <2>3, <2>5, <2>6, <3>1, <3>2, <3>3, <3>4 DEF EditorInv, opened
    <3>6. Remembered(e)'
      <4>1. SUFFICES ASSUME life[e] = "open", ~(doc[e] \subseteq Kept)
                     PROVE  \/ timer[e] = "dirty" \/ banner[e] # NoRevision \/ slipped[e]
                            \/ \E j \in InFlight(e)' : doc[e] \subseteq put'[e][j].doc \cup Kept
        BY <2>1, <2>2, <3>1 DEF Remembered, opened
      <4>2. put[e][i].doc \subseteq Kept
        BY <3>2 DEF Kept
      <4>3. \/ timer[e] = "dirty" \/ banner[e] # NoRevision \/ slipped[e]
            \/ \E j \in InFlight(e) : doc[e] \subseteq put[e][j].doc \cup Kept
        BY <2>3, <4>1 DEF Remembered
      <4>4. ASSUME NEW j \in InFlight(e), doc[e] \subseteq put[e][j].doc \cup Kept
            PROVE  j \in InFlight(e)' /\ doc[e] \subseteq put'[e][j].doc \cup Kept
        <5>1. j # i
          BY <4>1, <4>2, <4>4
        <5>2. j \in 1..Requests \ {i} /\ put[e][j] # None
          BY <5>1 DEF InFlight
        <5> QED
          BY <2>4, <4>4, <5>2 DEF InFlight, None
      <4> QED
        BY <4>3, <4>4
    <3>7. \A f \in Editors \ {e} : etag'[f] = etag[f] \/ etag'[f] <= Head1'
      BY <1>0, <2>2, <3>2, <3>3
    <3> QED
      BY <1>0, <2>1, <2>2, <2>4, <3>1, <3>3, <3>5, <3>6, <3>7, OneEditor DEF opened
  <2>8. CASE Conflict(e, i) \/ SaveFails(e, i)
    <3>1. /\ UNCHANGED <<cached, base, etag, dirty>>
          /\ \/ /\ slipped' = [slipped EXCEPT ![e] = TRUE] /\ UNCHANGED banner
             \/ /\ banner' = [banner EXCEPT ![e] = IF life[e] = "open" THEN Head1 ELSE banner[e]]
                /\ UNCHANGED slipped
      BY <1>0, <2>8 DEF Conflict, SaveFails, TypeOK
    <3>2. /\ slipped'[e] \/ (life[e] = "open" => banner'[e] = Head1)
          /\ banner'[e] \in {banner[e], Head1}
          /\ \A f \in Editors \ {e} : slipped'[f] = slipped[f] /\ banner'[f] = banner[f]
      BY <1>0, <3>1 DEF TypeOK
    <3>3. EditorInv(e)'
      BY <1>0, <2>1, <2>2, <2>3, <2>5, <2>6, <3>1, <3>2 DEF EditorInv, opened
    <3>4. Remembered(e)'
      BY <1>0, <2>1, <3>2 DEF Remembered, opened
    <3> QED
      BY <1>0, <2>1, <2>2, <2>4, <3>1, <3>2, <3>3, <3>4, OneEditor DEF opened
  <2> QED
    BY <1>11, <2>7, <2>8
<1>12. CASE UNCHANGED vars
  <2>1. UNCHANGED <<revisions, cached, life, doc, base, etag, dirty, timer, banner, reload, waived, slipped, put>>
    BY <1>12 DEF vars
  <2>2. Grows /\ Head1' = Head1
    BY <1>0, <2>1, Constant
  <2>3. ASSUME NEW e \in Editors PROVE EditorInv(e)' /\ Remembered(e)'
    <3>1. etag'[e] <= Head1'
      BY <1>0, <2>1, <2>2 DEF EditorInv
    <3> QED
      BY <1>0, <2>1, <2>2, <3>1, EditorStays
  <2> QED
    BY <1>0, <2>1, <2>2, <2>3 DEF EditingInv
<1> QED
  BY <1>1, <1>2, <1>3, <1>4, <1>5, <1>6, <1>7, <1>8, <1>9, <1>10, <1>11, <1>12 DEF Next

LEMMA EditingInit == Init => EditingInv
<1> SUFFICES ASSUME Init PROVE EditingInv
  OBVIOUS
<1> USE Numbers
<1>1. Head1 = 1 /\ revisions \in Seq(SUBSET Edits)
  <2>1. 0 \in Edits
    BY DEF Edits
  <2>2. \E x \in SUBSET Edits : revisions = <<x>>
    BY <2>1 DEF Init, Blank
  <2> QED
    BY <2>2 DEF Head1
<1>2. TypeOK
  BY <1>1 DEF Init, TypeOK, Revisions, Reload, Put, Edits, Blank
<1>3. ASSUME NEW e \in Editors PROVE EditorInv(e)
  <2>1. \A i \in 1..Requests : put[e][i] = None
    BY DEF Init
  <2>2. /\ doc[e] = {Blank} /\ base[e] = NoRevision /\ etag[e] = NoRevision /\ ~dirty[e] /\ timer[e] = "none"
        /\ banner[e] = NoRevision /\ reload[e] = None
    BY DEF Init
  <2> QED
    BY <1>1, <2>1, <2>2 DEF EditorInv, SaveInv, InFlight
<1>4. ASSUME NEW e \in Editors PROVE Remembered(e)
  BY DEF Init, Remembered, Kept
<1> QED
  BY <1>1, <1>2, <1>3, <1>4 DEF EditingInv, Init

\* Type correctness: what an editor names as a revision is one of the page.
THEOREM EditingTypeCorrect == Spec => []TypeOK
<1>1. EditingInv => TypeOK
  BY DEF EditingInv
<1> QED
  BY <1>1, EditingInit, EditingStep, PTL DEF Spec

\* What the user typed on the screen is in a revision or still to be saved, however
\* the timer, blur, Ctrl-S, conflicts, reloads and late answers interleave; the first
\* edit made with a save in flight, a lost save and the reload of a page with no
\* blocks are the only ways it slips.
THEOREM NoForgottenEditHolds == Spec => []NoForgottenEdit
<1>1. EditingInv => NoForgottenEdit
  BY DEF EditingInv, Remembered, NoForgottenEdit
<1> QED
  BY <1>1, EditingInit, EditingStep, PTL DEF Spec

\* Only the server accepts a save, and only one that names the newest revision.
LEMMA AcceptedByServer ==
    ASSUME EditingInv, [Next]_vars, NEW e \in Editors, NEW i \in 1..Requests,
           put[e][i] # None, put[e][i].at = "sent", put'[e][i] # None, put'[e][i].at = "accepted"
    PROVE  put[e][i].etag = Head1
<1>0. TypeOK /\ put[e] \in [1..Requests -> Put] /\ put \in [Editors -> [1..Requests -> Put]]
  BY DEF EditingInv, TypeOK
<1>1. put'[e] # put[e]
  OBVIOUS
<1>2. ASSUME NEW f \in Editors, NEW x \in Saves, Send(f, x) PROVE FALSE
  <2>1. PICK j \in 1..Requests :
           /\ put[f][j] = None /\ put'[f][j] = x
           /\ \A k \in 1..Requests \ {j} : put'[f][k] = put[f][k]
    BY <1>0, <1>2, Sending
  <2>2. \A g \in Editors \ {f} : put'[g] = put[g]
    BY <1>0, <1>2, Sending
  <2>3. e = f
    BY <1>1, <2>2
  <2>4. i # j
    BY <2>1, <2>3
  <2>5. put'[e][i] = put[e][i]
    BY <2>1, <2>3, <2>4
  <2> QED
    BY <2>5
<1>3. ASSUME NEW f \in Editors, Sent(f) \/ Overwrite(f) PROVE FALSE
  <2>1. CASE Sent(f)
    BY <1>0, <1>2, <2>1, SentSave DEF Sent
  <2>2. CASE Overwrite(f)
    <3> DEFINE told == revisions[banner[f]] \ doc[f]
               x == [ at |-> "sent", etag |-> banner[f], doc |-> doc[f], waived |-> waived[f] \cup told,
                      blind |-> FALSE, past |-> FALSE, got |-> NoRevision ]
    <3>1. banner[f] # NoRevision /\ Send(f, x)
      BY <2>2 DEF Overwrite
    <3>2. banner[f] <= Head1 /\ banner[f] \in 0..MaxRevisions /\ Head1 \in Nat /\ DOMAIN revisions = 1..Head1
      BY <1>0, Numbers DEF EditingInv, EditorInv, TypeOK, Head1
    <3>3. revisions[banner[f]] \subseteq Edits
      BY <1>0, <3>1, <3>2, Numbers DEF TypeOK
    <3>4. x \in Saves
      BY <1>0, <3>2, <3>3, Numbers DEF Saves, TypeOK
    <3> QED
      BY <1>2, <3>1, <3>4
  <2> QED
    BY <1>3, <2>1, <2>2
<1>4. ASSUME NEW f \in Editors, NEW j \in 1..Requests, ServerSaves(f, j) PROVE put[e][i].etag = Head1
  <2>1. SUFFICES ASSUME put[e][i].etag # Head1 PROVE FALSE
    OBVIOUS
  <2>2. PICK x : put' = [put EXCEPT ![f] = [put[f] EXCEPT ![j] = x]] /\ (put[f][j].etag # Head1 => x.at = "refused")
    <3>1. put[f] \in [1..Requests -> Put] /\ put[f][j] \in Saves
      BY <1>0, <1>4, SaveTyped DEF ServerSaves
    <3>2. CASE put[f][j].etag # Head1
      <4>1. put' = [put EXCEPT ![f] = [put[f] EXCEPT ![j] = [put[f][j] EXCEPT !.at = "refused"]]]
        BY <1>0, <1>4, <3>1, <3>2 DEF ServerSaves
      <4>2. [put[f][j] EXCEPT !.at = "refused"].at = "refused"
        BY <3>1 DEF Saves
      <4> QED
        BY <4>1, <4>2
    <3>3. CASE put[f][j].etag = Head1
      <4>1. put' = [put EXCEPT ![f][j].at = "accepted", ![f][j].got = Head1 + 1]
        BY <1>4, <3>3 DEF ServerSaves
      <4>2. put' = [put EXCEPT ![f] = [put[f] EXCEPT ![j] =
                       [put[f][j] EXCEPT !.at = "accepted", !.got = Head1 + 1]]]
        BY <1>0, <3>1, <4>1
      <4> QED
        BY <3>3, <4>2
    <3> QED
      BY <3>2, <3>3
  <2>3. e = f /\ i = j
    BY <1>0, <1>1, <2>2
  <2>4. put'[e][i] = x
    BY <1>0, <2>2, <2>3
  <2> QED
    BY <2>1, <2>2, <2>3, <2>4
<1>5. ASSUME NEW f \in Editors, NEW j \in 1..Requests, Saved(f, j) \/ Conflict(f, j) \/ SaveFails(f, j) PROVE FALSE
  <2>1. put' = [put EXCEPT ![f] = [put[f] EXCEPT ![j] = None]]
    BY <1>0, <1>5 DEF Saved, Conflict, SaveFails, TypeOK
  <2>2. put'[f][j] = None /\ \A k \in 1..Requests \ {j} : put'[f][k] = put[f][k]
    BY <1>0, <2>1, OneSave DEF Put
  <2>3. \A g \in Editors \ {f} : put'[g] = put[g]
    BY <1>0, <2>1, OneSave DEF Put
  <2>4. e = f
    BY <1>1, <2>3
  <2>5. CASE i = j
    BY <2>2, <2>4, <2>5
  <2>6. CASE i # j
    BY <2>2, <2>4, <2>6
  <2> QED
    BY <2>5, <2>6
<1>6. ASSUME NEW f \in Editors, Reloaded(f) PROVE FALSE
  <2>1. \E b : put'[e][i] = [put[e][i] EXCEPT !.past = b]
    BY <1>0, <1>1, <1>6 DEF Reloaded
  <2> QED
    BY <1>0, <2>1, SaveTyped DEF Saves
<1>7. CASE UNCHANGED put
  BY <1>1, <1>7
<1>8. ASSUME NEW f \in Editors, TimerFires(f) \/ Leave(f) PROVE FALSE
  BY <1>3, <1>7, <1>8 DEF TimerFires, Leave
<1> QED
  BY <1>3, <1>4, <1>5, <1>6, <1>7, <1>8
     DEF Next, Fetched, OtherSaves, Open, Edit, SaveNow, AskReload, Restore, Restored, vars

\* An accepted save drops no edit of the revision it replaces, unless the user chose to
\* or the editor had taken the ETag without the document it stands for.
THEOREM NoSilentOverwriteHolds == Spec => NoSilentOverwrite
<1>1. EditingInv /\ [Next]_vars =>
        [\A e \in Editors, i \in 1..Requests :
          (put[e][i] # None /\ put'[e][i] # None /\ put[e][i].at = "sent" /\ put'[e][i].at = "accepted")
             => (put[e][i].blind \/ revisions[Head1] \subseteq put[e][i].doc \cup put[e][i].waived)]_vars
  <2> SUFFICES ASSUME EditingInv, [Next]_vars, NEW e \in Editors, NEW i \in 1..Requests,
                      put[e][i] # None, put'[e][i] # None, put[e][i].at = "sent", put'[e][i].at = "accepted"
               PROVE  put[e][i].blind \/ revisions[Head1] \subseteq put[e][i].doc \cup put[e][i].waived
    OBVIOUS
  <2>1. put[e][i].etag = Head1
    BY AcceptedByServer
  <2>2. Head1 \in 1..Head1
    BY Numbers DEF EditingInv, TypeOK, Revisions
  <2>3. SaveInv(e, i)
    BY DEF EditingInv, EditorInv
  <2> QED
    BY <2>1, <2>2, <2>3 DEF SaveInv
<1> QED
  BY <1>1, EditingInit, EditingStep, PTL DEF Spec, NoSilentOverwrite
=============================================================================
