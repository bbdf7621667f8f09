---------------------------- MODULE PageEditing ----------------------------
(***************************************************************************)
(* The page editor of the web client (components/editor/PageEditorCore):   *)
(* one page opened by one editor after another in a tab, while other       *)
(* authors save it too.  A save is a PUT that names the revision it        *)
(* replaces (If-Match); several may be in flight, sent by the autosave     *)
(* timer, by window blur, by Ctrl-S and by the editor's unmounting.        *)
(*                                                                         *)
(* A document is the set of edits it contains, the blank block of an       *)
(* editor among them; a revision with none has no blocks.  A revision is   *)
(* named by its position in the page's history, which is also its ETag.    *)
(***************************************************************************)
EXTENDS Integers, Sequences, FiniteSets

CONSTANTS
    Editors,        \* editor instances, mounted one after another
    Requests,       \* saves an editor may have in flight at most
    MaxEdits,       \* edits made at most, by the user and by other authors
    MaxRevisions,   \* revisions of the page at most
    Sessions        \* the sessions considered:
                    \*   editors  the editors that are opened
                    \*   saves    how many saves each may have in flight
                    \*   edits    how many edits are made
                    \*   length   how many revisions the page may have
                    \*   bare     was the page made with no blocks?
                    \*   history  the history panel: the editor's, or the one of the
                    \*            /pages/:pageId route
                    \*   lossy    may a save, or its answer, be lost?

Panels == {"editor", "page"}
Revisions == 1..MaxRevisions

ASSUME EditingAssumption ==
    /\ Requests \in Nat \ {0}
    /\ MaxEdits \in Nat
    /\ MaxRevisions \in Nat \ {0}
    /\ Sessions \subseteq [ editors : SUBSET Editors, saves : 1..Requests,
                           edits : 0..MaxEdits, length : Revisions, bare : BOOLEAN,
                           history : Panels, lossy : BOOLEAN ]

Blank == 0
Edits == 0..MaxEdits
NoRevision == 0
None == [at |-> "none"]

\* A save: the ETag and the document it carries, what the user knows it overwrites,
\* whether the ETag is of another revision than the document, and whether the
\* document has been replaced since.
Saves ==
    [ at : {"sent", "accepted", "refused"}, etag : 0..MaxRevisions,
      doc : SUBSET Edits, waived : SUBSET Edits, blind : BOOLEAN,
      past : BOOLEAN, got : 0..MaxRevisions ]
Put == {None} \cup Saves

\* A restore the server has made, or a page fetched to replace the document.
Loads == [at : {"restored", "read"}, restore : BOOLEAN, got : 0..MaxRevisions]
Reload == {None} \cup Loads

VARIABLES
    revisions,  \* the server's revisions, oldest first
    edits,      \* how many edits have been made
    cached,     \* the revision in the query cache
    session,    \* the session of this behaviour
    life,       \* life[e]: not yet mounted, open, or gone
    doc,        \* doc[e]: editor.document
    base,       \* base[e]: the revision that document was last made equal to, or shown to lack
    etag,       \* etagRef
    dirty,      \* isDirty
    timer,      \* autoSaveTimerRef, with the isDirty its closure captured
    banner,     \* conflictPage
    reload,     \* a reload or restore under way
    waived,     \* waived[e]: edits of others the user chose to overwrite
    slipped,    \* slipped[e]: a clean document was edited with a save in flight, a save was
                \* lost, or unsaved edits outlived a reload that called them saved
    put         \* put[e][i]: the saves in flight

server == <<revisions, edits>>
opened == <<session, life>>
local == <<doc, base, etag, dirty, timer, banner, reload, waived, slipped>>
vars == <<revisions, edits, cached, session, life, doc, base, etag, dirty,
          timer, banner, reload, waived, slipped, put>>

Head1 == Len(revisions)
Kept == {Blank} \cup UNION {revisions[r] : r \in 1..Head1}

TypeOK ==
    /\ revisions \in Seq(SUBSET Edits) /\ Head1 \in Revisions
    /\ edits \in 0..MaxEdits
    /\ cached \in 0..MaxRevisions
    /\ session \in Sessions
    /\ life \in [Editors -> {"new", "open", "gone"}]
    /\ doc \in [Editors -> SUBSET Edits]
    /\ base \in [Editors -> 0..MaxRevisions]
    /\ etag \in [Editors -> 0..MaxRevisions]
    /\ dirty \in [Editors -> BOOLEAN]
    /\ timer \in [Editors -> {"none", "clean", "dirty"}]
    /\ banner \in [Editors -> 0..MaxRevisions]
    /\ reload \in [Editors -> Reload]
    /\ waived \in [Editors -> SUBSET Edits]
    /\ slipped \in [Editors -> BOOLEAN]
    /\ put \in [Editors -> [1..Requests -> Put]]

Init ==
    /\ session \in Sessions
    /\ revisions = << IF session.bare THEN {} ELSE {Blank} >>
    /\ edits = 0
    /\ cached = NoRevision
    /\ life = [e \in Editors |-> IF e \in session.editors THEN "new" ELSE "gone"]
    /\ doc = [e \in Editors |-> {Blank}]
    /\ base = [e \in Editors |-> NoRevision]
    /\ etag = [e \in Editors |-> NoRevision]
    /\ dirty = [e \in Editors |-> FALSE]
    /\ timer = [e \in Editors |-> "none"]
    /\ banner = [e \in Editors |-> NoRevision]
    /\ reload = [e \in Editors |-> None]
    /\ waived = [e \in Editors |-> {}]
    /\ slipped = [e \in Editors |-> FALSE]
    /\ put = [e \in Editors |-> [i \in 1..Requests |-> None]]

Loaded(e) == life[e] = "open" /\ base[e] # NoRevision
InFlight(e) == {i \in 1..Requests : put[e][i] # None}
FreeSlot(e) == CHOOSE i \in 1..Requests : put[e][i] = None

----------------------------------------------------------------------------
\* The document once revision r is loaded: replaceBlocks is called only when it
\* has blocks.
Shown(e, r) == IF revisions[r] = {} THEN doc[e] ELSE revisions[r]

\* The cache holds revision r now.  The effect on pageData takes its ETag, and
\* the document only the first time.
Cache(r) ==
    /\ cached' = r
    /\ etag' = [e \in Editors |-> IF life[e] = "open" THEN r ELSE etag[e]]
    /\ base' = [e \in Editors |-> IF life[e] = "open" /\ base[e] = NoRevision THEN r ELSE base[e]]
    /\ doc' = [e \in Editors |->
                  IF life[e] = "open" /\ base[e] = NoRevision THEN Shown(e, r) ELSE doc[e]]

\* An editor mounts, with the cached page if there is one.
Open(e) ==
    /\ life[e] = "new"
    /\ \A f \in Editors : life[f] # "open"
    /\ life' = [life EXCEPT ![e] = "open"]
    /\ IF cached = NoRevision
       THEN UNCHANGED <<doc, base, etag>>
       ELSE /\ doc' = [doc EXCEPT ![e] = Shown(e, cached)]
            /\ base' = [base EXCEPT ![e] = cached]
            /\ etag' = [etag EXCEPT ![e] = cached]
    /\ UNCHANGED <<revisions, edits, cached, session, dirty, timer, banner, reload,
                   waived, slipped, put>>

\* The page query is answered: for a mount, an invalidation, a focused window.  The
\* server may have answered a while ago, though not before what is cached.
Fetched ==
    /\ \E e \in Editors : life[e] = "open"
    /\ \E r \in (cached..Head1) \ {NoRevision} : Cache(r)
    /\ UNCHANGED <<revisions, edits, opened, dirty, timer, banner, reload, waived, slipped, put>>

----------------------------------------------------------------------------
\* save(): the request takes the ETag and the document of this moment.  A save
\* clears the timer.
Send(e, request) ==
    /\ Cardinality(InFlight(e)) < session.saves
    /\ put' = [put EXCEPT ![e][FreeSlot(e)] = request]
    /\ timer' = [timer EXCEPT ![e] = "none"]
    /\ slipped' = [slipped EXCEPT ![e] = FALSE]

Sent(e) ==
    Send(e, [ at |-> "sent", etag |-> etag[e], doc |-> doc[e], waived |-> waived[e],
              blind |-> etag[e] # base[e], past |-> FALSE, got |-> NoRevision ])

\* onEditorChange: the document differs, and the timer starts again with the
\* save of the render before this change: one that still sees a clean document
\* will return without saving.
Edit(e) ==
    /\ Loaded(e)
    /\ edits < session.edits
    /\ edits' = edits + 1
    /\ doc' = [doc EXCEPT ![e] = @ \cup {edits + 1}]
    /\ dirty' = [dirty EXCEPT ![e] = TRUE]
    /\ timer' = [timer EXCEPT ![e] = IF dirty[e] THEN "dirty" ELSE "clean"]
    /\ slipped' = [slipped EXCEPT ![e] = ~dirty[e] /\ (@ \/ InFlight(e) # {})]
    /\ UNCHANGED <<revisions, cached, opened, base, etag, banner, reload, waived, put>>

\* Mutant: a timer whose closure sees the document of its first render.
TimerFiresClean(e) ==
    /\ timer[e] # "none"
    /\ timer' = [timer EXCEPT ![e] = "none"]
    /\ UNCHANGED <<server, cached, opened, doc, base, etag, dirty, banner, reload,
                   waived, slipped, put>>

\* The ten seconds are over, on an open editor or one already gone: the timer is
\* not cleared when the editor unmounts.
TimerFires(e) ==
    \/ /\ timer[e] = "clean"
       /\ timer' = [timer EXCEPT ![e] = "none"]
       /\ UNCHANGED <<server, cached, opened, doc, base, etag, dirty, banner, reload,
                      waived, slipped, put>>
    \/ /\ timer[e] = "dirty"
       /\ Sent(e)
       /\ UNCHANGED <<server, cached, opened, doc, base, etag, dirty, banner, reload, waived>>

\* window blur saves a dirty document, Ctrl-S any.
SaveNow(e, byUser) ==
    /\ Loaded(e)
    /\ dirty[e] \/ byUser
    /\ Sent(e)
    /\ UNCHANGED <<server, cached, opened, doc, base, etag, dirty, banner, reload, waived>>

\* The editor goes: a dirty document is flushed, and the timer is left to fire.
Leave(e) ==
    /\ life[e] = "open"
    /\ reload[e] = None
    /\ life' = [life EXCEPT ![e] = "gone"]
    /\ IF dirty[e]
       THEN Sent(e)
       ELSE UNCHANGED <<put, timer, slipped>>
    /\ dirty' = [dirty EXCEPT ![e] = FALSE]
    /\ banner' = [banner EXCEPT ![e] = NoRevision]
    /\ UNCHANGED <<server, cached, session, doc, base, etag, reload, waived>>

----------------------------------------------------------------------------
\* Mutant: a server that does not compare.
ServerSavesAny(e, i) ==
    /\ put[e][i] # None
    /\ put[e][i].at = "sent"
    /\ Head1 < session.length
    /\ revisions' = Append(revisions, put[e][i].doc)
    /\ put' = [put EXCEPT ![e][i].at = "accepted", ![e][i].got = Head1 + 1]
    /\ UNCHANGED <<edits, cached, opened, local>>

\* The server: If-Match is compared with the current revision under a lock.
ServerSaves(e, i) ==
    /\ put[e][i] # None
    /\ put[e][i].at = "sent"
    /\ IF put[e][i].etag = Head1
       THEN /\ Head1 < session.length
            /\ revisions' = Append(revisions, put[e][i].doc)
            /\ put' = [put EXCEPT ![e][i].at = "accepted", ![e][i].got = Head1 + 1]
       ELSE /\ put' = [put EXCEPT ![e][i].at = "refused"]
            /\ UNCHANGED revisions
    /\ UNCHANGED <<edits, cached, opened, local>>

\* Another author adds an edit to the current revision.
OtherSaves ==
    /\ edits < session.edits
    /\ Head1 < session.length
    /\ edits' = edits + 1
    /\ revisions' = Append(revisions, revisions[Head1] \cup {Blank, edits + 1})
    /\ UNCHANGED <<cached, opened, local, put>>

\* The answer to an accepted save: its ETag, even over a document loaded since, a
\* clean document whatever was typed meanwhile, and the cache written, which the
\* editor now open hears of.
Saved(e, i) ==
    /\ put[e][i] # None
    /\ put[e][i].at = "accepted"
    /\ put' = [put EXCEPT ![e][i] = None]
    /\ dirty' = [dirty EXCEPT ![e] = FALSE]
    /\ LET r == put[e][i].got IN
       /\ cached' = IF cached = NoRevision THEN cached ELSE r
       /\ etag' = [f \in Editors |->
              IF f = e \/ (life[f] = "open" /\ cached # NoRevision) THEN r ELSE etag[f]]
       /\ base' = [base EXCEPT ![e] = IF put[e][i].past THEN @ ELSE r]
    /\ UNCHANGED <<server, opened, doc, timer, banner, reload, waived, slipped>>

\* Mutant: a refusal taken for an answer.
ConflictDropped(e, i) ==
    /\ put[e][i] # None
    /\ put[e][i].at = "refused"
    /\ put' = [put EXCEPT ![e][i] = None]
    /\ dirty' = [dirty EXCEPT ![e] = FALSE]
    /\ UNCHANGED <<server, cached, opened, doc, base, etag, timer, banner, reload, waived, slipped>>

\* The answer to a refused save names no revision the banner can use, so the page
\* is fetched again, and the banner shows what the server has then.
Conflict(e, i) ==
    /\ put[e][i] # None
    /\ put[e][i].at = "refused"
    /\ put' = [put EXCEPT ![e][i] = None]
    /\ banner' = [banner EXCEPT ![e] = IF life[e] = "open" THEN Head1 ELSE @]
    /\ UNCHANGED <<server, cached, opened, doc, base, etag, dirty, timer, reload, waived, slipped>>

\* The request, its answer or the page fetched after a refusal is lost: the badge
\* shows an error when there was a response, else it stays at 'Saving'.
SaveFails(e, i) ==
    /\ session.lossy
    /\ put[e][i] # None
    /\ put' = [put EXCEPT ![e][i] = None]
    /\ slipped' = [slipped EXCEPT ![e] = TRUE]
    /\ UNCHANGED <<server, cached, opened, doc, base, etag, dirty, timer, banner, reload, waived>>

----------------------------------------------------------------------------
\* The conflict banner.  Overwriting takes the ETag shown, and saves.
Overwrite(e) ==
    /\ life[e] = "open"
    /\ banner[e] # NoRevision
    /\ LET told == revisions[banner[e]] \ doc[e] IN
       /\ waived' = [waived EXCEPT ![e] = @ \cup told]
       /\ etag' = [etag EXCEPT ![e] = banner[e]]
       /\ base' = [base EXCEPT ![e] = banner[e]]
       /\ banner' = [banner EXCEPT ![e] = NoRevision]
       /\ Send(e, [ at |-> "sent", etag |-> banner[e], doc |-> doc[e],
                    waived |-> waived[e] \cup told, blind |-> FALSE, past |-> FALSE, got |-> NoRevision ])
    /\ UNCHANGED <<server, cached, opened, doc, dirty, reload>>

AskReload(e) ==
    /\ life[e] = "open"
    /\ banner[e] # NoRevision
    /\ reload[e] = None
    /\ reload' = [reload EXCEPT ![e] = [at |-> "read", restore |-> FALSE, got |-> Head1]]
    /\ UNCHANGED <<server, cached, opened, doc, base, etag, dirty, timer, banner, waived, slipped, put>>

\* The history panel: the server makes an older revision's content a new revision.
Restore(e) ==
    /\ Loaded(e)
    /\ reload[e] = None
    /\ Head1 < session.length
    /\ \E r \in 1..(Head1 - 1) : revisions' = Append(revisions, revisions[r])
    /\ reload' = [reload EXCEPT ![e] = [at |-> "restored", restore |-> TRUE, got |-> NoRevision]]
    /\ UNCHANGED <<edits, cached, opened, doc, base, etag, dirty, timer, banner, waived, slipped, put>>

\* Mutant: a status of its own for a panel that closes.
RestoredCloses(e) ==
    /\ reload[e] # None
    /\ reload[e].at = "restored"
    /\ reload' = [reload EXCEPT ![e].at = "closed"]
    /\ UNCHANGED <<server, cached, opened, doc, base, etag, dirty, timer, banner, waived, slipped, put>>

\* The answer: the editor's own panel fetches the page to reload the document; the
\* full page's panel only closes.
Restored(e) ==
    /\ reload[e] # None
    /\ reload[e].at = "restored"
    /\ reload' = [reload EXCEPT ![e] =
           IF session.history = "page" THEN None ELSE [at |-> "read", restore |-> TRUE, got |-> Head1]]
    /\ UNCHANGED <<server, cached, opened, doc, base, etag, dirty, timer, banner, waived, slipped, put>>

\* The fetched document replaces the edited one, whatever was typed meanwhile,
\* unless it has no blocks: then the edits stay, and are called saved all the same.
Reloaded(e) ==
    /\ reload[e] # None
    /\ reload[e].at = "read"
    /\ LET r == reload[e].got
           replaced == revisions[r] # {} IN
       /\ doc' = [doc EXCEPT ![e] = Shown(e, r)]
       /\ etag' = [etag EXCEPT ![e] = r]
       /\ base' = [base EXCEPT ![e] = r]
       /\ slipped' = [slipped EXCEPT ![e] =
              ~replaced /\ (@ \/ dirty[e] \/ banner[e] # NoRevision)]
       /\ put' = [put EXCEPT ![e] = [i \in 1..Requests |->
              IF put[e][i] = None THEN None
              ELSE [put[e][i] EXCEPT !.past = @ \/ replaced]]]
    /\ waived' = [waived EXCEPT ![e] = {}]
    /\ dirty' = [dirty EXCEPT ![e] = FALSE]
    /\ banner' = [banner EXCEPT ![e] = IF reload[e].restore THEN @ ELSE NoRevision]
    /\ reload' = [reload EXCEPT ![e] = None]
    /\ UNCHANGED <<server, cached, opened, timer>>

----------------------------------------------------------------------------
Next ==
    \/ Fetched
    \/ OtherSaves
    \/ \E e \in Editors :
        \/ Open(e)
        \/ Edit(e)
        \/ TimerFires(e)
        \/ \E byUser \in BOOLEAN : SaveNow(e, byUser)
        \/ Leave(e)
        \/ Overwrite(e)
        \/ AskReload(e)
        \/ Restore(e)
        \/ Restored(e)
        \/ Reloaded(e)
        \/ \E i \in 1..Requests :
            \/ ServerSaves(e, i)
            \/ Saved(e, i)
            \/ Conflict(e, i)
            \/ SaveFails(e, i)

\* The browser's timers fire and requests are answered; users owe nothing.
Fairness ==
    \A e \in Editors :
        /\ WF_vars(TimerFires(e))
        /\ \A i \in 1..Requests :
            WF_vars(ServerSaves(e, i) \/ Saved(e, i) \/ Conflict(e, i))

Spec == Init /\ [][Next]_vars /\ Fairness

----------------------------------------------------------------------------
\* A save the server accepts drops no edit of the revision it replaces, unless the
\* user chose to overwrite it in the banner, or the editor had taken an ETag
\* without its document: from the cache (PageEditorCore's effect on pageData), or of
\* a save answered after another document was loaded (save, handleReload).  Else
\* the If-Match of save() stands for what the document was made from.
NoSilentOverwrite ==
    [][\A e \in Editors, i \in 1..Requests :
          (put[e][i] # None /\ put'[e][i] # None /\ put[e][i].at = "sent" /\ put'[e][i].at = "accepted")
             => (put[e][i].blind \/ revisions[Head1] \subseteq put[e][i].doc \cup put[e][i].waived)]_vars

\* What the user has typed in the editor on the screen is in some revision, or is
\* still to be saved: the document is dirty, its timer will save it, a save holds
\* it, or the banner asks what to do.  Only the first edit of a clean document made
\* with a save in flight, a lost save, and edits left by the reload of a page with
\* no blocks fall through ('Saved' of the badge).
NoForgottenEdit ==
    \A e \in Editors :
        (life[e] = "open" /\ ~(doc[e] \subseteq Kept)) =>
            \/ dirty[e]
            \/ timer[e] = "dirty"
            \/ banner[e] # NoRevision
            \/ slipped[e]
            \/ \E i \in InFlight(e) : doc[e] \subseteq put[e][i].doc \cup Kept

\* A timer armed over a dirty document ends with every edit in a revision, with the
\* conflict banner or with the editor gone, whatever saves overlap: no refusal or
\* late answer makes the autosave give up (save, onEditorChange).
AutosaveArrives ==
    \A e \in Editors :
        (timer[e] = "dirty" /\ ~session.lossy /\ life[e] = "open")
            ~> (doc[e] \subseteq Kept \/ banner[e] # NoRevision \/ life[e] = "gone" \/ Head1 = session.length)
=============================================================================
