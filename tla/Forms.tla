------------------------------- MODULE Forms -------------------------------
(***************************************************************************)
(* A form of the web client while another person changes the same object:  *)
(* the user opens it, types, submits, gives up or comes back; the answers  *)
(* arrive late, or never; the query cache is refetched meanwhile.  Which   *)
(* form it is, and the choices its code makes, is a row of FormTables.     *)
(* No request carries an Idempotency-Key, and no mutation is retried.      *)
(***************************************************************************)
EXTENDS Naturals, Sequences

CONSTANTS
    FormRows,        \* the forms (FormTables)
    MaxDrafts,       \* times the user opens the form
    MaxSubmits,      \* submissions
    MaxOthers,       \* changes by others
    KnownDoubles,    \* forms that may create twice from one draft
    KnownLosses,     \* forms that may lose typed input
    KnownStale       \* forms that may revert a change the client has seen

Shapes ==
    [ name : STRING, fill : {"blank", "once", "mount", "follows"}, sends : {"typed", "form", "cache"},
      dirty : BOOLEAN, makes : BOOLEAN, locks : BOOLEAN,
      then : {"closes", "clears", "stays", "settles", "drops"}, late : BOOLEAN, row : BOOLEAN,
      back : {"no", "pending", "after"}, steps : BOOLEAN ]

ASSUME FormAssumption ==
    /\ FormRows \subseteq Shapes
    /\ {MaxDrafts, MaxSubmits, MaxOthers} \subseteq Nat

\* A creation whose drafts are never submitted twice: the form is emptied with
\* the submission, or locked until the answer closes or empties it, and it is not
\* left and entered again by wizard steps.
Once(f) ==
    f.makes => /\ f.back = "no"
               /\ f.then = "drops" \/ (f.locks /\ f.then \in {"closes", "clears"} /\ ~f.steps)

\* A form whose saves know what the client knows: it creates, sends only what was
\* typed, or keeps following the object it sends whole.
Current(f) ==
    f.makes \/ f.sends = "typed" \/ (f.fill = "follows" /\ f.sends = "form" /\ f.back = "no")

\* A form that keeps what is typed until it is left: it is not refilled, does not
\* move with a row, is not emptied on submission, its success does nothing once it
\* is gone, and if success empties it no second submission is under way.
Retains(f) ==
    /\ f.fill # "follows" /\ ~f.row /\ f.then # "drops"
    /\ f.then = "closes" => ~f.late
    /\ f.then = "clears" => f.locks

\* The forms do so, known exceptions apart.
Locked == \A f \in FormRows : f.name \in KnownDoubles \/ Once(f)
Attentive == \A f \in FormRows : f.name \in KnownStale \/ Current(f)
Retentive == \A f \in FormRows : f.name \in KnownLosses \/ Retains(f)

Fields == {"a", "b"}    \* "a" is required; "b" decides where the object's row is shown
Values == {"blank", "old", "theirs", "mine"}

VARIABLES
    form,       \* the row of the form
    open,       \* is it on screen?
    draft,      \* how often the user has opened it
    val,        \* its fields
    typed,      \* the fields typed since they were last filled or saved
    cache,      \* the object in the client's query cache
    server,     \* the object
    others,     \* changes by others so far
    reqs,       \* the submissions
    made,       \* made[d]: objects created from draft d
    lost        \* drafts one of whose answers was lost

vars == <<form, open, draft, val, typed, cache, server, others, reqs, made, lost>>

Contents == [Fields -> Values]
Drafts == 1..MaxDrafts
Bodies == UNION {[F -> Values] : F \in SUBSET Fields}
Requests ==
    [ draft : Drafts, at : {"sent", "done", "ended", "failed"}, seen : Contents,
      body : Bodies, mounted : BOOLEAN ]

\* An emptied form stays where it is; what is typed into it is the next draft.
Empties == form.then \in {"clears", "drops"}

TypeOK ==
    /\ form \in FormRows
    /\ open \in BOOLEAN
    /\ draft \in 0..MaxDrafts
    /\ val \in Contents
    /\ typed \in SUBSET Fields
    /\ cache \in Contents /\ server \in Contents
    /\ others \in 0..MaxOthers
    /\ reqs \in Seq(Requests) /\ Len(reqs) <= MaxSubmits
    /\ made \in [Drafts -> Nat]
    /\ lost \in SUBSET Drafts
    /\ open => draft \in Drafts /\ \A f \in typed : val[f] = "mine"

Blank == [f \in Fields |-> "blank"]
Filling == IF form.fill = "blank" THEN Blank ELSE cache

\* Mutant: the callbacks of useMutation itself, which run for a form that is gone.
OrphansCalledBack(kept) == reqs

\* The requests once the instance that sent them is gone, except the one kept.
Orphans(kept) ==
    [r \in DOMAIN reqs |-> [reqs[r] EXCEPT !.mounted = r \in kept /\ @]]

\* Mutant: the isPending of another useMutation than the one that submits.
PendingElsewhere == FALSE

\* isPending.
Pending == \E r \in DOMAIN reqs : reqs[r].mounted /\ reqs[r].at \in {"sent", "done"}

Init ==
    /\ form \in FormRows
    /\ open = FALSE /\ draft = 0 /\ typed = {}
    /\ cache = [f \in Fields |-> "old"] /\ server = cache
    /\ val = Filling
    /\ others = 0 /\ reqs = <<>> /\ made = [d \in Drafts |-> 0] /\ lost = {}

----------------------------------------------------------------------------
\* The user

OpenForm ==
    /\ ~open /\ draft < MaxDrafts
    /\ open' = TRUE /\ draft' = draft + 1 /\ typed' = {}
    /\ val' = IF form.fill = "mount" THEN val ELSE Filling
    /\ reqs' = IF Empties THEN reqs ELSE Orphans({})
    /\ UNCHANGED <<form, cache, server, others, made, lost>>

TypeIn(f) ==
    /\ open /\ f \notin typed
    /\ val' = [val EXCEPT ![f] = "mine"] /\ typed' = typed \cup {f}
    /\ UNCHANGED <<form, open, draft, cache, server, others, reqs, made, lost>>

\* Mutant: every form sends all its fields.
BodyWhole == val

\* What a submission sends.
Body ==
    CASE form.sends = "typed" -> [f \in typed |-> val[f]]
      [] form.sends = "form"  -> val
      [] form.sends = "cache" -> [cache EXCEPT !["a"] = val["a"]]

Submit ==
    /\ open /\ Len(reqs) < MaxSubmits
    /\ form.dirty => typed # {}
    /\ form.makes => val["a"] = "mine"
    /\ ~(form.locks /\ Pending)
    /\ reqs' = Append(reqs, [draft |-> draft, at |-> "sent", seen |-> cache, body |-> Body, mounted |-> TRUE])
    /\ typed' = IF form.then \in {"settles", "drops"} THEN {} ELSE typed
    /\ val' = IF form.then = "drops" THEN Filling ELSE val
    /\ open' = ~(form.then = "drops" /\ form.makes)
    /\ UNCHANGED <<form, draft, cache, server, others, made, lost>>

\* Cancel, a click beside the dialog, or leaving the page.
CloseForm ==
    /\ open
    /\ open' = FALSE /\ typed' = {} /\ reqs' = Orphans({})
    /\ val' = IF form.fill = "mount" THEN cache ELSE val
    /\ UNCHANGED <<form, draft, cache, server, others, made, lost>>

\* Back, and forward again, while the step is saving: a new instance of it.
LeaveStep ==
    /\ form.back = "pending" /\ open /\ Pending
    /\ reqs' = Orphans({}) /\ val' = Filling /\ typed' = {}
    /\ UNCHANGED <<form, open, draft, cache, server, others, made, lost>>

\* Back from the step after the creation.
ReturnToStep ==
    /\ form.back = "after" /\ ~open
    /\ \E r \in DOMAIN reqs : reqs[r].mounted /\ reqs[r].draft = draft
    /\ open' = TRUE /\ typed' = {f \in Fields : val[f] = "mine"}
    /\ UNCHANGED <<form, draft, val, cache, server, others, reqs, made, lost>>

----------------------------------------------------------------------------
\* The server, the other person and the query cache

Arrive(r) ==
    /\ reqs[r].at = "sent"
    /\ reqs' = [reqs EXCEPT ![r].at = "done"]
    /\ IF form.makes
       THEN /\ made' = [made EXCEPT ![reqs[r].draft] = @ + 1]
            /\ UNCHANGED server
       ELSE /\ server' = [f \in Fields |-> IF f \in DOMAIN reqs[r].body THEN reqs[r].body[f] ELSE server[f]]
            /\ UNCHANGED made
    /\ UNCHANGED <<form, open, draft, val, typed, cache, others, lost>>

OtherChanges(f) ==
    /\ others < MaxOthers
    /\ others' = others + 1 /\ server' = [server EXCEPT ![f] = "theirs"]
    /\ UNCHANGED <<form, open, draft, val, typed, cache, reqs, made, lost>>

\* A refetch: a form that follows its object takes it over, and the row that
\* moves with it takes its open dialog away.
Refetch ==
    LET moves == form.row /\ open /\ cache["b"] # server["b"]
        refills == form.fill = "follows" /\ open IN
    /\ cache # server
    /\ cache' = server
    /\ open' = (open /\ ~moves)
    /\ reqs' = IF moves THEN Orphans({}) ELSE reqs
    /\ typed' = IF moves \/ refills THEN {} ELSE typed
    /\ val' = IF refills THEN server ELSE val
    /\ UNCHANGED <<form, draft, server, others, made, lost>>

----------------------------------------------------------------------------
\* The answers

\* Success.  A callback given to mutate() does nothing once the form is gone;
\* the line after an await still closes.  What is typed into an emptied form
\* is the next draft.
Answered(r) ==
    LET here == reqs[r].mounted
        closes == form.then = "closes" /\ open /\ (here \/ form.late)
        clears == form.then = "clears" /\ here IN
    /\ reqs[r].at = "done"
    /\ open' = (open /\ ~closes /\ ~clears)
    /\ reqs' = [IF closes THEN Orphans(IF form.back = "after" THEN {r} ELSE {}) ELSE reqs
                EXCEPT ![r].at = "ended"]
    /\ typed' = IF closes \/ clears \/ (here /\ form.then = "stays") THEN {} ELSE typed
    /\ val' = IF clears THEN Blank ELSE val
    /\ UNCHANGED <<form, draft, cache, server, others, made, lost>>

\* Refused, or never received; or a further call of the submission was.
Fail(r) ==
    /\ reqs[r].at = "sent" \/ (form.steps /\ reqs[r].at = "done")
    /\ reqs' = [reqs EXCEPT ![r].at = "failed"]
    /\ UNCHANGED <<form, open, draft, val, typed, cache, server, others, made, lost>>

\* The answer is lost: to the form, a failure like any other.
LoseAnswer(r) ==
    /\ reqs[r].at = "done"
    /\ reqs' = [reqs EXCEPT ![r].at = "failed"] /\ lost' = lost \cup {reqs[r].draft}
    /\ UNCHANGED <<form, open, draft, val, typed, cache, server, others, made>>

Next ==
    \/ OpenForm \/ Submit \/ CloseForm \/ LeaveStep \/ ReturnToStep \/ Refetch
    \/ \E f \in Fields : TypeIn(f) \/ OtherChanges(f)
    \/ \E r \in DOMAIN reqs : Arrive(r) \/ Answered(r) \/ Fail(r) \/ LoseAnswer(r)

Spec == Init /\ [][Next]_vars

----------------------------------------------------------------------------
\* One draft creates at most one object, however often Enter or the button is
\* pressed, however the step is left and entered: the pending lock and the
\* close on success see to it.  Excepted are the forms that do not keep to it,
\* and drafts that were retried after an answer was lost.
CreatedOnce ==
    \A d \in Drafts : made[d] <= 1 \/ d \in lost \/ form.name \in KnownDoubles

\* What the user has typed stays in the form until the user leaves it, or the
\* server has answered a submission of this very draft.
TypedStays ==
    [][ \/ form.name \in KnownLosses
        \/ CloseForm \/ LeaveStep
        \/ \E r \in DOMAIN reqs : reqs[r].mounted /\ reqs[r].draft = draft /\ Answered(r)
        \/ \A f \in Fields : open /\ val[f] = "mine" => open' /\ val'[f] = "mine" ]_vars

\* A save never puts back what another person has changed, if the client knew
\* of the change when it sent the save.
OthersKept ==
    [][ \/ form.name \in KnownStale
        \/ \A r \in DOMAIN reqs, f \in Fields :
               Arrive(r) /\ reqs[r].seen[f] = "theirs" /\ server[f] = "theirs"
                   => server'[f] \in {"theirs", "mine"} ]_vars
=============================================================================
