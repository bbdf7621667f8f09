--------------------------- MODULE ScreensProofs ---------------------------
(***************************************************************************)
(* The two kinds of screen of the web client, for every table of them:     *)
(* Forms, for any number of drafts, submissions and changes by others, and *)
(* Views, for any number of refetches.  What a form has to do for a        *)
(* draft to create one object, for what is typed to stay and for a save to *)
(* leave other people's changes alone; and what a view has to do for its   *)
(* empty lists to be known to be empty.                                    *)
(***************************************************************************)
EXTENDS Forms, Views, TLAPS

----------------------------------------------------------------------------
LEMMA FillingTyped == TypeOK => Filling \in Contents
  BY DEF TypeOK, Filling, Blank, Contents, Values

LEMMA InBodies == \A F \in SUBSET Fields : [F -> Values] \subseteq Bodies
  BY Zenon DEF Bodies

LEMMA BodyTyped == TypeOK => Body \in Bodies
<1> SUFFICES ASSUME TypeOK PROVE Body \in Bodies
  OBVIOUS
<1>1. form.sends \in {"typed", "form", "cache"}
  BY FormAssumption DEF TypeOK, Shapes
<1>2. CASE form.sends = "typed"
  <2>1. Body \in [typed -> Values]
    BY <1>2 DEF Body, TypeOK, Contents
  <2> QED
    BY <2>1, InBodies DEF TypeOK
<1>3. CASE form.sends # "typed"
  <2>1. Body \in [Fields -> Values]
    BY <1>1, <1>3 DEF Body, TypeOK, Contents, Fields
  <2> QED
    BY <2>1, InBodies
<1> QED
  BY <1>2, <1>3

LEMMA RequestTyped == TypeOK => \A r \in DOMAIN reqs : reqs[r] \in Requests
  BY DEF TypeOK

LEMMA OrphansTyped ==
    ASSUME TypeOK, NEW kept
    PROVE  /\ Orphans(kept) \in Seq(Requests) /\ DOMAIN Orphans(kept) = DOMAIN reqs
           /\ Len(Orphans(kept)) = Len(reqs)
           /\ \A r \in DOMAIN reqs : Orphans(kept)[r] = [reqs[r] EXCEPT !.mounted = r \in kept /\ @]
<1>1. \A r \in DOMAIN reqs : [reqs[r] EXCEPT !.mounted = r \in kept /\ @] \in Requests
  BY RequestTyped DEF Requests
<1>2. reqs \in Seq(Requests)
  BY DEF TypeOK
<1> QED
  BY <1>1, <1>2 DEF Orphans

LEMMA MoveTyped ==
    ASSUME TypeOK, NEW r \in DOMAIN reqs, NEW x \in {"sent", "done", "ended", "failed"},
           NEW old \in Seq(Requests), DOMAIN old = DOMAIN reqs, Len(old) = Len(reqs)
    PROVE  LET new == [old EXCEPT ![r].at = x] IN
           /\ new \in Seq(Requests) /\ DOMAIN new = DOMAIN reqs /\ Len(new) = Len(reqs)
           /\ \A s \in DOMAIN reqs : new[s] = IF s = r THEN [old[s] EXCEPT !.at = x] ELSE old[s]
<1>1. old[r] \in Requests
  OBVIOUS
<1>2. [old[r] EXCEPT !.at = x] \in Requests
  BY <1>1 DEF Requests
<1> QED
  BY <1>2

LEMMA TypeInit == Init => TypeOK
<1> SUFFICES ASSUME Init PROVE TypeOK
  OBVIOUS
<1>1. draft \in 0..MaxDrafts /\ others \in 0..MaxOthers /\ Len(reqs) <= MaxSubmits
  BY FormAssumption DEF Init
<1>2. cache \in Contents /\ server \in Contents /\ val \in Contents
  BY DEF Init, Filling, Blank, Contents, Values
<1>3. reqs \in Seq(Requests) /\ made \in [Drafts -> Nat]
  BY DEF Init
<1> QED
  BY <1>1, <1>2, <1>3 DEF Init, TypeOK

LEMMA TypeStep == TypeOK /\ [Next]_vars => TypeOK'
<1> SUFFICES ASSUME TypeOK, [Next]_vars PROVE TypeOK'
  OBVIOUS
<1> USE FormAssumption
<1>0. /\ Filling \in Contents /\ Blank \in Contents /\ "mine" \in Values /\ "theirs" \in Values
      /\ DOMAIN reqs = 1..Len(reqs) /\ Len(reqs) \in Nat
      /\ \A r \in DOMAIN reqs : reqs[r] \in Requests
  BY FillingTyped, RequestTyped DEF Blank, Contents, Values, TypeOK
<1>1. CASE OpenForm
  <2>1. draft' \in Drafts /\ draft' \in 0..MaxDrafts
    BY <1>1 DEF OpenForm, TypeOK, Drafts
  <2>2. reqs' \in Seq(Requests) /\ Len(reqs') <= MaxSubmits
    BY <1>1, OrphansTyped DEF OpenForm, TypeOK
  <2>3. val' \in Contents
    BY <1>0, <1>1 DEF OpenForm, TypeOK
  <2> QED
    BY <1>1, <2>1, <2>2, <2>3 DEF OpenForm, TypeOK
<1>2. CASE Submit
  <2>1. [draft |-> draft, at |-> "sent", seen |-> cache, body |-> Body, mounted |-> TRUE] \in Requests
    BY <1>2, BodyTyped DEF Submit, TypeOK, Requests
  <2>2. reqs' \in Seq(Requests) /\ Len(reqs') = Len(reqs) + 1
    BY <1>2, <2>1 DEF Submit, TypeOK
  <2>3. Len(reqs') <= MaxSubmits
    BY <1>0, <1>2, <2>2 DEF Submit
  <2>4. val' \in Contents /\ typed' \in SUBSET Fields
    BY <1>0, <1>2 DEF Submit, TypeOK
  <2>5. open' => \A f \in typed' : val'[f] = "mine"
    BY <1>2 DEF Submit, TypeOK
  <2>6. open' \in BOOLEAN
    BY <1>2 DEF Submit
  <2> HIDE DEF Requests
  <2> QED
    BY <1>2, <2>2, <2>3, <2>4, <2>5, <2>6 DEF Submit, TypeOK
<1>3. CASE CloseForm
  <2>1. reqs' \in Seq(Requests) /\ Len(reqs') <= MaxSubmits
    BY <1>3, OrphansTyped DEF CloseForm, TypeOK
  <2> QED
    BY <1>3, <2>1 DEF CloseForm, TypeOK
<1>4. CASE LeaveStep
  <2>1. reqs' \in Seq(Requests) /\ Len(reqs') <= MaxSubmits
    BY <1>4, OrphansTyped DEF LeaveStep, TypeOK
  <2> QED
    BY <1>0, <1>4, <2>1 DEF LeaveStep, TypeOK
<1>5. CASE ReturnToStep
  <2>1. draft \in Drafts
    BY <1>0, <1>5 DEF ReturnToStep, Requests
  <2> QED
    BY <1>5, <2>1 DEF ReturnToStep, TypeOK
<1>6. CASE Refetch
  <2>1. reqs' \in Seq(Requests) /\ Len(reqs') <= MaxSubmits
    BY <1>6, OrphansTyped DEF Refetch, TypeOK
  <2>2. val' \in Contents /\ typed' \in SUBSET Fields /\ open' \in BOOLEAN
    BY <1>6 DEF Refetch, TypeOK
  <2>3. open' => open /\ \A f \in typed' : val'[f] = "mine"
    BY <1>6 DEF Refetch, TypeOK
  <2> QED
    BY <1>6, <2>1, <2>2, <2>3 DEF Refetch, TypeOK
<1>7. ASSUME NEW f \in Fields, TypeIn(f) PROVE TypeOK'
  <2>1. val' \in Contents /\ typed' \in SUBSET Fields
    BY <1>0, <1>7 DEF TypeIn, TypeOK, Contents
  <2>2. \A g \in typed' : val'[g] = "mine"
    BY <1>7 DEF TypeIn, TypeOK, Contents
  <2> QED
    BY <1>7, <2>1, <2>2 DEF TypeIn, TypeOK
<1>8. ASSUME NEW f \in Fields, OtherChanges(f) PROVE TypeOK'
  <2>1. server' \in Contents
    BY <1>0, <1>8 DEF OtherChanges, TypeOK, Contents
  <2>2. others' \in 0..MaxOthers
    BY <1>8 DEF OtherChanges, TypeOK
  <2> QED
    BY <1>8, <2>1, <2>2 DEF OtherChanges, TypeOK
<1>9. ASSUME NEW r \in DOMAIN reqs, Arrive(r) PROVE TypeOK'
  <2>1. reqs' \in Seq(Requests) /\ Len(reqs') = Len(reqs)
    BY <1>9, MoveTyped DEF Arrive, TypeOK
  <2>2. made' \in [Drafts -> Nat]
    BY <1>9 DEF Arrive, TypeOK
  <2>3. \A f \in DOMAIN reqs[r].body : reqs[r].body[f] \in Values
    <3>1. reqs[r].body \in Bodies
      BY <1>0 DEF Requests
    <3>2. PICK F \in SUBSET Fields : reqs[r].body \in [F -> Values]
      BY <3>1 DEF Bodies
    <3> QED
      BY <3>2
  <2>4. server' \in Contents
    BY <1>9, <2>3 DEF Arrive, TypeOK, Contents
  <2> QED
    BY <1>9, <2>1, <2>2, <2>4 DEF Arrive, TypeOK
<1>10. ASSUME NEW r \in DOMAIN reqs, Answered(r) PROVE TypeOK'
  <2>1. reqs' \in Seq(Requests) /\ Len(reqs') = Len(reqs)
    <3>1. PICK old \in {reqs} \cup {Orphans(kept) : kept \in {{}, {r}}} : reqs' = [old EXCEPT ![r].at = "ended"]
      BY <1>10 DEF Answered
    <3>2. old \in Seq(Requests) /\ DOMAIN old = DOMAIN reqs /\ Len(old) = Len(reqs)
      BY OrphansTyped DEF TypeOK
    <3> QED
      BY <3>1, <3>2, MoveTyped
  <2>2. val' \in Contents /\ typed' \in SUBSET Fields /\ open' \in BOOLEAN
    BY <1>0, <1>10 DEF Answered, TypeOK
  <2>3. open' => open /\ \A f \in typed' : val'[f] = "mine"
    BY <1>10 DEF Answered, TypeOK
  <2> QED
    BY <1>10, <2>1, <2>2, <2>3 DEF Answered, TypeOK
<1>11. ASSUME NEW r \in DOMAIN reqs, Fail(r) PROVE TypeOK'
  <2>1. reqs' \in Seq(Requests) /\ Len(reqs') = Len(reqs)
    BY <1>11, MoveTyped DEF Fail, TypeOK
  <2> QED
    BY <1>11, <2>1 DEF Fail, TypeOK
<1>12. ASSUME NEW r \in DOMAIN reqs, LoseAnswer(r) PROVE TypeOK'
  <2>1. reqs' \in Seq(Requests) /\ Len(reqs') = Len(reqs)
    BY <1>12, MoveTyped DEF LoseAnswer, TypeOK
  <2>2. lost' \in SUBSET Drafts
    BY <1>0, <1>12 DEF LoseAnswer, TypeOK, Requests
  <2> QED
    BY <1>12, <2>1, <2>2 DEF LoseAnswer, TypeOK
<1>13. CASE UNCHANGED vars
  BY <1>13 DEF vars, TypeOK
<1> QED
  BY <1>1, <1>2, <1>3, <1>4, <1>5, <1>6, <1>7, <1>8, <1>9, <1>10, <1>11, <1>12, <1>13 DEF Next

\* Type correctness of a form, its requests and the object they change; whatever
\* is marked as typed is the user's own input.
THEOREM TypeCorrect == Spec => []TypeOK
  BY TypeInit, TypeStep, PTL DEF Spec

----------------------------------------------------------------------------
\* A draft in which an object was created.
Concluded(d) ==
    \E r \in DOMAIN reqs :
        /\ reqs[r].draft = d
        /\ reqs[r].at \in {"done", "ended"} \/ (reqs[r].at = "failed" /\ form.then = "drops")

\* The strengthening: while a form that creates is open, every submission of its
\* draft can still close it; of two submissions of a draft the first has failed,
\* and nothing was created by a failed one whose answer was received.
OnceInv ==
    /\ TypeOK
    /\ \A r \in DOMAIN reqs : reqs[r].draft <= draft
    /\ ~form.makes => \A d \in Drafts : made[d] = 0
    /\ form.makes /\ Once(form) =>
         /\ open => \A r \in DOMAIN reqs : reqs[r].draft = draft =>
                        form.then # "drops" /\ reqs[r].mounted /\ reqs[r].at # "ended"
         /\ \A r, s \in DOMAIN reqs : r < s /\ reqs[r].draft = reqs[s].draft =>
                        reqs[r].at = "failed" /\ form.then # "drops"
         /\ \A d \in Drafts \ lost : made[d] = 0 \/ (made[d] = 1 /\ Concluded(d))

LEMMA SameRequests ==
    ASSUME OnceInv, form' = form, made' = made, lost' = lost, open' => open, draft' = draft, TypeOK',
           DOMAIN reqs' = DOMAIN reqs,
           \A r \in DOMAIN reqs : reqs'[r].draft = reqs[r].draft /\ reqs'[r].at = reqs[r].at,
           form.makes /\ Once(form) /\ open' => \A r \in DOMAIN reqs : reqs'[r].mounted = reqs[r].mounted
    PROVE  OnceInv'
<1>1. \A d : Concluded(d) => Concluded(d)'
  BY DEF Concluded
<1> QED
  BY <1>1 DEF OnceInv, Once

LEMMA OneRequestMoves ==
    ASSUME TypeOK, NEW r \in DOMAIN reqs, NEW x \in {"sent", "done", "ended", "failed"},
           reqs' = [reqs EXCEPT ![r].at = x]
    PROVE  /\ DOMAIN reqs' = DOMAIN reqs
           /\ \A s \in DOMAIN reqs : /\ reqs'[s].draft = reqs[s].draft
                                     /\ reqs'[s].mounted = reqs[s].mounted
                                     /\ reqs'[s].at = IF s = r THEN x ELSE reqs[s].at
<1>1. \A s \in DOMAIN reqs : reqs[s] \in Requests
  BY RequestTyped
<1> QED
  BY <1>1 DEF Requests, TypeOK

LEMMA OrphansKeep ==
    ASSUME TypeOK, NEW kept
    PROVE  /\ Orphans(kept) \in Seq(Requests) /\ DOMAIN Orphans(kept) = DOMAIN reqs
           /\ \A s \in DOMAIN reqs : /\ Orphans(kept)[s].draft = reqs[s].draft
                                     /\ Orphans(kept)[s].at = reqs[s].at
<1>1. \A s \in DOMAIN reqs : reqs[s] \in Requests
  BY RequestTyped
<1>2. ASSUME NEW q \in Requests, NEW b
      PROVE  [q EXCEPT !.mounted = b].draft = q.draft /\ [q EXCEPT !.mounted = b].at = q.at
  BY DEF Requests
<1>3. ASSUME NEW s \in DOMAIN reqs
      PROVE  Orphans(kept)[s].draft = reqs[s].draft /\ Orphans(kept)[s].at = reqs[s].at
  <2>1. Orphans(kept)[s] = [reqs[s] EXCEPT !.mounted = (s \in kept /\ reqs[s].mounted)]
    BY OrphansTyped
  <2> QED
    BY <1>1, <1>2, <2>1
<1> QED
  BY <1>3, OrphansTyped

LEMMA OnceInit == Init => OnceInv
<1>1. Init => TypeOK
  BY TypeInit
<1> QED
  BY <1>1 DEF Init, OnceInv

LEMMA OnceStep == OnceInv /\ [Next]_vars => OnceInv'
<1> SUFFICES ASSUME OnceInv, [Next]_vars PROVE OnceInv'
  OBVIOUS
<1>0. TypeOK /\ TypeOK' /\ Len(reqs) \in Nat /\ DOMAIN reqs = 1..Len(reqs)
      /\ draft \in Nat /\ \A r \in DOMAIN reqs : reqs[r] \in Requests /\ reqs[r].draft \in Nat
  <2>1. TypeOK /\ TypeOK'
    BY TypeStep DEF OnceInv
  <2>2. Len(reqs) \in Nat /\ DOMAIN reqs = 1..Len(reqs) /\ draft \in Nat
    BY <2>1, FormAssumption DEF TypeOK
  <2>3. \A r \in DOMAIN reqs : reqs[r] \in Requests /\ reqs[r].draft \in Nat
    BY <2>1, RequestTyped DEF Requests, Drafts
  <2> QED
    BY <2>1, <2>2, <2>3
<1>1. CASE OpenForm
  <2>1. draft' = draft + 1 /\ DOMAIN reqs' = DOMAIN reqs
        /\ \A r \in DOMAIN reqs : reqs'[r].draft = reqs[r].draft /\ reqs'[r].at = reqs[r].at
    BY <1>0, <1>1, OrphansKeep DEF OpenForm
  <2>2. \A r \in DOMAIN reqs' : reqs'[r].draft < draft'
    BY <1>0, <2>1 DEF OnceInv
  <2>3. \A d : Concluded(d) => Concluded(d)'
    BY <1>1, <2>1 DEF Concluded, OpenForm
  <2> QED
    BY <1>0, <1>1, <2>1, <2>2, <2>3 DEF OnceInv, Once, OpenForm
<1>2. CASE Submit
  <2> DEFINE n == Len(reqs) + 1
  <2>1. /\ DOMAIN reqs' = DOMAIN reqs \cup {n} /\ n \notin DOMAIN reqs
        /\ \A r \in DOMAIN reqs : reqs'[r] = reqs[r] /\ r < n
        /\ reqs'[n].draft = draft /\ reqs'[n].at = "sent" /\ reqs'[n].mounted = TRUE
    BY <1>0, <1>2 DEF Submit, TypeOK
  <2>2. ASSUME form.makes, Once(form)
        PROVE  /\ \A r \in DOMAIN reqs : reqs[r].draft = draft => reqs[r].at = "failed" /\ form.then # "drops"
               /\ open' => form.then # "drops"
    <3>1. \A r \in DOMAIN reqs : reqs[r].draft = draft =>
              form.then # "drops" /\ reqs[r].mounted /\ reqs[r].at # "ended"
      BY <1>2, <2>2 DEF OnceInv, Submit
    <3>2. form.then # "drops" => \A r \in DOMAIN reqs : reqs[r].mounted => reqs[r].at \in {"ended", "failed"}
      BY <1>0, <1>2, <2>2 DEF Submit, Once, Pending, Requests
    <3> QED
      BY <1>2, <2>2, <3>1, <3>2 DEF Submit
  <2>3. \A d : Concluded(d) => Concluded(d)'
    BY <1>2, <2>1 DEF Concluded, Submit
  <2>4. \A r \in DOMAIN reqs' : reqs'[r].draft <= draft'
    BY <1>0, <1>2, <2>1 DEF OnceInv, Submit
  <2>5. ~form'.makes => \A d \in Drafts : made'[d] = 0
    BY <1>2 DEF OnceInv, Submit
  <2>6. ASSUME form.makes, Once(form)
        PROVE  /\ open' => \A r \in DOMAIN reqs' : reqs'[r].draft = draft' =>
                     form.then # "drops" /\ reqs'[r].mounted /\ reqs'[r].at # "ended"
               /\ \A r, s \in DOMAIN reqs' : r < s /\ reqs'[r].draft = reqs'[s].draft =>
                     reqs'[r].at = "failed" /\ form.then # "drops"
    <3>1. \A r \in DOMAIN reqs : reqs[r].draft = draft => reqs[r].mounted
      BY <1>2, <2>6 DEF OnceInv, Submit
    <3>2. open' => \A r \in DOMAIN reqs' : reqs'[r].draft = draft' =>
                     form.then # "drops" /\ reqs'[r].mounted /\ reqs'[r].at # "ended"
      BY <1>2, <2>1, <2>2, <2>6, <3>1 DEF Submit
    <3>3. ASSUME NEW r \in DOMAIN reqs', NEW s \in DOMAIN reqs', r < s, reqs'[r].draft = reqs'[s].draft
          PROVE  reqs'[r].at = "failed" /\ form.then # "drops"
      <4>1. r \in DOMAIN reqs
        BY <1>0, <2>1, <3>3
      <4>2. CASE s = n
        BY <2>1, <2>2, <2>6, <3>3, <4>1, <4>2
      <4>3. CASE s \in DOMAIN reqs
        BY <2>1, <2>6, <3>3, <4>1, <4>3 DEF OnceInv
      <4> QED
        BY <2>1, <4>2, <4>3
    <3> QED
      BY <3>2, <3>3
  <2>7. form' = form /\ made' = made /\ lost' = lost
    BY <1>2 DEF Submit
  <2>8. ASSUME form.makes, Once(form)
        PROVE  \A d \in Drafts \ lost : made[d] = 0 \/ (made[d] = 1 /\ Concluded(d)')
    BY <2>3, <2>8 DEF OnceInv
  <2>9. Once(form)' = Once(form)
    BY <2>7 DEF Once
  <2> QED
    BY <1>0, <2>4, <2>5, <2>6, <2>7, <2>8, <2>9 DEF OnceInv
<1>3. CASE CloseForm
  <2>1. open' = FALSE /\ DOMAIN reqs' = DOMAIN reqs
        /\ \A r \in DOMAIN reqs : reqs'[r].draft = reqs[r].draft /\ reqs'[r].at = reqs[r].at
    BY <1>0, <1>3, OrphansKeep DEF CloseForm
  <2> QED
    BY <1>0, <1>3, <2>1, SameRequests DEF CloseForm
<1>4. CASE LeaveStep
  <2>1. ~(form.makes /\ Once(form))
    BY <1>4 DEF LeaveStep, Once
  <2>2. DOMAIN reqs' = DOMAIN reqs
        /\ \A r \in DOMAIN reqs : reqs'[r].draft = reqs[r].draft /\ reqs'[r].at = reqs[r].at
    BY <1>0, <1>4, OrphansKeep DEF LeaveStep
  <2> QED
    BY <1>0, <1>4, <2>1, <2>2, SameRequests DEF LeaveStep
<1>5. CASE ReturnToStep
  <2>1. ~(form.makes /\ Once(form))
    BY <1>5 DEF ReturnToStep, Once
  <2>2. UNCHANGED <<form, draft, reqs, made, lost>>
    BY <1>5 DEF ReturnToStep
  <2> QED
    BY <1>0, <2>1, <2>2 DEF OnceInv, Once
<1>6. CASE Refetch
  <2>1. DOMAIN reqs' = DOMAIN reqs
        /\ \A r \in DOMAIN reqs : reqs'[r].draft = reqs[r].draft /\ reqs'[r].at = reqs[r].at
    BY <1>0, <1>6, OrphansKeep DEF Refetch
  <2>2. open' => open /\ reqs' = reqs
    BY <1>6 DEF Refetch
  <2> QED
    BY <1>0, <1>6, <2>1, <2>2, SameRequests DEF Refetch
<1>7. ASSUME NEW f \in Fields, TypeIn(f) PROVE OnceInv'
  BY <1>0, <1>7, SameRequests DEF TypeIn
<1>8. ASSUME NEW f \in Fields, OtherChanges(f) PROVE OnceInv'
  BY <1>0, <1>8, SameRequests DEF OtherChanges
<1>9. ASSUME NEW r \in DOMAIN reqs, Arrive(r) PROVE OnceInv'
  <2>0. PICK d \in Drafts : d = reqs[r].draft
    BY <1>0 DEF Requests
  <2>1. /\ DOMAIN reqs' = DOMAIN reqs
        /\ \A s \in DOMAIN reqs : /\ reqs'[s].draft = reqs[s].draft /\ reqs'[s].mounted = reqs[s].mounted
                                  /\ reqs'[s].at = IF s = r THEN "done" ELSE reqs[s].at
    BY <1>0, <1>9, OneRequestMoves DEF Arrive
  <2>2. form' = form /\ lost' = lost /\ open' = open /\ draft' = draft /\ reqs[r].at = "sent"
    BY <1>0, <1>9 DEF Arrive
  <2>3. Once(form)' = Once(form)
    BY <2>2 DEF Once
  <2>4. ASSUME form.makes, Once(form)
        PROVE  \A e \in Drafts \ lost : made'[e] = 0 \/ (made'[e] = 1 /\ Concluded(e)')
    <3>1. \A e : Concluded(e) => Concluded(e)'
      BY <2>1, <2>2 DEF Concluded
    <3>2. ~Concluded(d)
      <4>1. SUFFICES ASSUME NEW s \in DOMAIN reqs, reqs[s].draft = reqs[r].draft,
                            reqs[s].at \in {"done", "ended"} \/ (reqs[s].at = "failed" /\ form.then = "drops")
                     PROVE  FALSE
        BY <2>0 DEF Concluded
      <4>2. s # r
        BY <2>2, <4>1
      <4>3. s < r \/ r < s
        BY <1>0, <4>2
      <4>4. CASE s < r
        BY <2>4, <4>1, <4>4 DEF OnceInv
      <4>5. CASE r < s
        BY <2>2, <2>4, <4>1, <4>5 DEF OnceInv
      <4> QED
        BY <4>3, <4>4, <4>5
    <3>3. Concluded(d)'
      BY <2>0, <2>1, <2>2 DEF Concluded
    <3>4. made' = [made EXCEPT ![d] = @ + 1] /\ made \in [Drafts -> Nat]
      BY <1>0, <1>9, <2>0, <2>4 DEF Arrive, TypeOK
    <3>5. d \notin lost => made[d] = 0
      BY <2>2, <2>4, <3>2 DEF OnceInv
    <3>6. \A e \in Drafts \ lost : made[e] = 0 \/ (made[e] = 1 /\ Concluded(e))
      BY <2>4 DEF OnceInv
    <3>7. ASSUME NEW e \in Drafts \ lost PROVE made'[e] = 0 \/ (made'[e] = 1 /\ Concluded(e)')
      <4>1. CASE e = d
        BY <2>2, <3>3, <3>4, <3>5, <4>1
      <4>2. CASE e # d
        BY <3>1, <3>4, <3>6, <4>2
      <4> QED
        BY <4>1, <4>2
    <3> QED
      BY <3>7
  <2>5. ~form.makes => \A e \in Drafts : made'[e] = 0
    BY <1>9 DEF OnceInv, Arrive
  <2>6. \A s \in DOMAIN reqs' : reqs'[s].draft <= draft'
    BY <2>1, <2>2 DEF OnceInv
  <2>7. ASSUME form.makes, Once(form)
        PROVE  /\ open => \A s \in DOMAIN reqs' : reqs'[s].draft = draft =>
                     form.then # "drops" /\ reqs'[s].mounted /\ reqs'[s].at # "ended"
               /\ \A s, t \in DOMAIN reqs' : s < t /\ reqs'[s].draft = reqs'[t].draft =>
                     reqs'[s].at = "failed" /\ form.then # "drops"
    BY <2>1, <2>2, <2>7 DEF OnceInv
  <2> QED
    BY <1>0, <2>2, <2>3, <2>4, <2>5, <2>6, <2>7 DEF OnceInv
<1>10. ASSUME NEW r \in DOMAIN reqs, Answered(r) PROVE OnceInv'
  <2>1. /\ DOMAIN reqs' = DOMAIN reqs
        /\ \A s \in DOMAIN reqs : /\ reqs'[s].draft = reqs[s].draft
                                  /\ reqs'[s].at = IF s = r THEN "ended" ELSE reqs[s].at
                                  /\ open' => reqs'[s].mounted = reqs[s].mounted
    <3> DEFINE closes == form.then = "closes" /\ open /\ (reqs[r].mounted \/ form.late)
    <3>1. PICK kept : reqs' = [IF closes THEN Orphans(kept) ELSE reqs EXCEPT ![r].at = "ended"]
      BY <1>10 DEF Answered
    <3>2. open' => ~closes
      BY <1>10 DEF Answered
    <3> HIDE DEF closes
    <3>3. CASE closes
      <4>1. DOMAIN Orphans(kept) = DOMAIN reqs /\ Orphans(kept) \in Seq(Requests)
            /\ \A s \in DOMAIN reqs : Orphans(kept)[s].draft = reqs[s].draft /\ Orphans(kept)[s].at = reqs[s].at
        BY <1>0, OrphansKeep
      <4>2. reqs' = [Orphans(kept) EXCEPT ![r].at = "ended"]
        BY <3>1, <3>3
      <4>3. \A s \in DOMAIN reqs : Orphans(kept)[s] \in Requests
        BY <4>1
      <4> QED
        BY <3>2, <3>3, <4>1, <4>2, <4>3 DEF Requests
    <3>4. CASE ~closes
      <4>1. reqs' = [reqs EXCEPT ![r].at = "ended"]
        BY <3>1, <3>4
      <4> QED
        BY <1>0, <4>1, OneRequestMoves
    <3> QED
      BY <3>3, <3>4
  <2>2. form' = form /\ lost' = lost /\ made' = made /\ draft' = draft /\ reqs[r].at = "done" /\ (open' => open)
    BY <1>10 DEF Answered
  <2>3. Once(form)' = Once(form)
    BY <2>2 DEF Once
  <2>4. \A e : Concluded(e) => Concluded(e)'
    BY <2>1, <2>2 DEF Concluded
  <2>5. ASSUME form.makes, Once(form), open' PROVE reqs[r].draft # draft
    <3>1. ~reqs[r].mounted \/ form.then = "drops"
      BY <1>0, <1>10, <2>5 DEF Answered, Once
    <3> QED
      BY <2>2, <2>5, <3>1 DEF OnceInv
  <2>6. ASSUME form.makes, Once(form)
        PROVE  /\ open' => \A s \in DOMAIN reqs' : reqs'[s].draft = draft =>
                     form.then # "drops" /\ reqs'[s].mounted /\ reqs'[s].at # "ended"
               /\ \A s, t \in DOMAIN reqs' : s < t /\ reqs'[s].draft = reqs'[t].draft =>
                     reqs'[s].at = "failed" /\ form.then # "drops"
    BY <2>1, <2>2, <2>5, <2>6 DEF OnceInv
  <2>7. \A s \in DOMAIN reqs' : reqs'[s].draft <= draft'
    BY <2>1, <2>2 DEF OnceInv
  <2> QED
    BY <1>0, <2>2, <2>3, <2>4, <2>6, <2>7 DEF OnceInv
<1>11. ASSUME NEW r \in DOMAIN reqs, Fail(r) \/ LoseAnswer(r) PROVE OnceInv'
  <2>1. /\ DOMAIN reqs' = DOMAIN reqs
        /\ \A s \in DOMAIN reqs : /\ reqs'[s].draft = reqs[s].draft /\ reqs'[s].mounted = reqs[s].mounted
                                  /\ reqs'[s].at = IF s = r THEN "failed" ELSE reqs[s].at
    BY <1>0, <1>11, OneRequestMoves DEF Fail, LoseAnswer
  <2>2. /\ form' = form /\ made' = made /\ draft' = draft /\ open' = open
        /\ lost \subseteq lost'
        /\ reqs[r].at = "sent" \/ (form.steps /\ reqs[r].at = "done") \/ reqs[r].draft \in lost'
    BY <1>11 DEF Fail, LoseAnswer
  <2>3. Once(form)' = Once(form)
    BY <2>2 DEF Once
  <2>4. ASSUME form.makes, Once(form), NEW e \in Drafts \ lost', Concluded(e) PROVE Concluded(e)'
    <3>1. PICK s \in DOMAIN reqs :
             /\ reqs[s].draft = e
             /\ reqs[s].at \in {"done", "ended"} \/ (reqs[s].at = "failed" /\ form.then = "drops")
      BY <2>4 DEF Concluded
    <3>2. CASE s # r
      BY <2>1, <2>2, <3>1, <3>2 DEF Concluded
    <3>3. CASE s = r
      <4>1. form.then = "drops"
        BY <2>2, <2>4, <3>1, <3>3 DEF Once
      <4> QED
        BY <2>1, <2>2, <3>1, <3>3, <4>1 DEF Concluded
    <3> QED
      BY <3>2, <3>3
  <2>5. ASSUME form.makes, Once(form)
        PROVE  /\ open' => \A s \in DOMAIN reqs' : reqs'[s].draft = draft =>
                     form.then # "drops" /\ reqs'[s].mounted /\ reqs'[s].at # "ended"
               /\ \A s, t \in DOMAIN reqs' : s < t /\ reqs'[s].draft = reqs'[t].draft =>
                     reqs'[s].at = "failed" /\ form.then # "drops"
    BY <2>1, <2>2, <2>5 DEF OnceInv
  <2>6. \A s \in DOMAIN reqs' : reqs'[s].draft <= draft'
    BY <2>1, <2>2 DEF OnceInv
  <2>7. ASSUME form.makes, Once(form)
        PROVE  \A e \in Drafts \ lost' : made'[e] = 0 \/ (made'[e] = 1 /\ Concluded(e)')
    BY <2>2, <2>4, <2>7 DEF OnceInv
  <2> QED
    BY <1>0, <2>2, <2>3, <2>5, <2>6, <2>7 DEF OnceInv
<1>12. CASE UNCHANGED vars
  BY <1>0, <1>12, SameRequests DEF vars
<1> QED
  BY <1>1, <1>2, <1>3, <1>4, <1>5, <1>6, <1>7, <1>8, <1>9, <1>10, <1>11, <1>12 DEF Next

\* One draft creates at most one object, whatever the bounds, if every form locks
\* until its answer and is neither re-entered nor repeated in parts (mutate() with
\* its button disabled while isPending, the close in its success callback).
THEOREM CreatedOnceHolds ==
    ASSUME Locked
    PROVE  Spec => []CreatedOnce
<1>1. OnceInv => CreatedOnce
  <2> SUFFICES ASSUME OnceInv, NEW d \in Drafts, d \notin lost, form.name \notin KnownDoubles
               PROVE  made[d] <= 1
    BY DEF CreatedOnce
  <2>1. Once(form)
    BY Locked DEF Locked, OnceInv, TypeOK
  <2> QED
    BY <2>1 DEF OnceInv, TypeOK
<1> QED
  BY <1>1, OnceInit, OnceStep, PTL DEF Spec

----------------------------------------------------------------------------
\* Submissions whose answer still finds the form that sent them.
Awaited == {r \in DOMAIN reqs : reqs[r].mounted /\ reqs[r].at \in {"sent", "done"}}

\* The strengthening: an answer that finds a retaining form is to the draft on
\* screen; one that will empty it finds it open, and is the only one.
StayInv ==
    /\ TypeOK
    /\ Retains(form) =>
         \A r \in Awaited : /\ reqs[r].draft = draft
                            /\ form.then = "clears" => open /\ Awaited = {r}

\* A step that awaits nothing new in a draft that goes on keeps the invariant.
LEMMA AwaitedShrinks ==
    ASSUME StayInv, TypeOK', form' = form, Awaited' \subseteq Awaited,
           \A r \in Awaited' : /\ reqs'[r].draft = reqs[r].draft /\ draft' = draft
                               /\ form.then = "clears" /\ open => open'
    PROVE  StayInv'
  BY DEF StayInv, Retains

LEMMA OrphansGone ==
    ASSUME TypeOK, NEW kept
    PROVE  /\ DOMAIN Orphans(kept) = DOMAIN reqs
           /\ \A s \in DOMAIN reqs : Orphans(kept)[s].mounted <=> s \in kept /\ reqs[s].mounted
<1>1. \A s \in DOMAIN reqs : reqs[s] \in Requests
  BY RequestTyped
<1>2. ASSUME NEW q \in Requests, NEW b
      PROVE  [q EXCEPT !.mounted = b].mounted = b
  BY DEF Requests
<1>3. ASSUME NEW s \in DOMAIN reqs
      PROVE  Orphans(kept)[s].mounted <=> s \in kept /\ reqs[s].mounted
  <2>1. Orphans(kept)[s] = [reqs[s] EXCEPT !.mounted = (s \in kept /\ reqs[s].mounted)]
    BY OrphansTyped
  <2>2. Orphans(kept)[s].mounted = (s \in kept /\ reqs[s].mounted)
    BY <1>1, <1>2, <2>1
  <2> QED
    BY <2>2
<1> QED
  BY <1>3, OrphansTyped

\* An answer ends its submission; the others are awaited as before, or no longer.
LEMMA AnswerEnds ==
    ASSUME TypeOK, NEW r \in DOMAIN reqs, Answered(r)
    PROVE  /\ Awaited' \subseteq Awaited \ {r}
           /\ \A s \in DOMAIN reqs : reqs'[s].draft = reqs[s].draft
<1>1. PICK old \in {reqs} \cup {Orphans(kept) : kept \in {{}, {r}}} : reqs' = [old EXCEPT ![r].at = "ended"]
  BY DEF Answered
<1>2. /\ old \in Seq(Requests) /\ DOMAIN old = DOMAIN reqs
      /\ \A s \in DOMAIN reqs : /\ old[s].draft = reqs[s].draft /\ old[s].at = reqs[s].at
                                /\ old[s].mounted => reqs[s].mounted
  BY OrphansKeep, OrphansGone DEF TypeOK
<1>3. \A s \in DOMAIN reqs : old[s] \in Requests
  BY <1>2
<1>4. DOMAIN reqs' = DOMAIN reqs
      /\ \A s \in DOMAIN reqs : /\ reqs'[s].draft = old[s].draft /\ reqs'[s].mounted = old[s].mounted
                                /\ reqs'[s].at = IF s = r THEN "ended" ELSE old[s].at
  BY <1>1, <1>2, <1>3 DEF Requests
<1> QED
  BY <1>2, <1>4 DEF Awaited

LEMMA StayInit == Init => StayInv
  BY TypeInit DEF Init, StayInv, Awaited

LEMMA StayStep == StayInv /\ [Next]_vars => StayInv'
<1> SUFFICES ASSUME StayInv, [Next]_vars PROVE StayInv'
  OBVIOUS
<1>0. /\ TypeOK /\ TypeOK' /\ reqs \in Seq(Requests)
      /\ DOMAIN reqs = 1..Len(reqs) /\ Len(reqs) \in Nat
  BY TypeStep DEF StayInv, TypeOK
<1>1. CASE OpenForm
  <2>1. CASE Empties
    <3>1. reqs' = reqs /\ form' = form /\ ~open
      BY <1>1, <2>1 DEF OpenForm
    <3>2. Awaited' = Awaited /\ Retains(form') = Retains(form)
      BY <3>1 DEF Awaited, Retains
    <3>3. Retains(form) => Awaited = {}
      BY <2>1, <3>1 DEF StayInv, Empties, Retains
    <3> QED
      BY <1>0, <3>1, <3>2, <3>3 DEF StayInv
  <2>2. CASE ~Empties
    <3>1. Awaited' = {}
      BY <1>0, <1>1, <2>2, OrphansGone DEF OpenForm, Awaited
    <3> QED
      BY <1>0, <3>1 DEF StayInv
  <2> QED
    BY <2>1, <2>2
<1>2. CASE Submit
  <2> DEFINE n == Len(reqs) + 1
  <2>1. /\ DOMAIN reqs' = DOMAIN reqs \cup {n} /\ n \notin DOMAIN reqs
        /\ \A r \in DOMAIN reqs : reqs'[r] = reqs[r]
        /\ reqs'[n].draft = draft
    BY <1>0, <1>2 DEF Submit
  <2>2. Awaited' \subseteq Awaited \cup {n} /\ form' = form /\ draft' = draft
    BY <1>2, <2>1 DEF Awaited, Submit
  <2>3. Retains(form) /\ form.then = "clears" => Awaited = {} /\ open'
    BY <1>2 DEF Submit, Retains, Pending, Awaited
  <2>4. Retains(form') = Retains(form)
    BY <2>2
  <2>5. ASSUME Retains(form), NEW r \in Awaited'
        PROVE  reqs'[r].draft = draft' /\ (form.then = "clears" => open' /\ Awaited' = {r})
    <3>1. r \in Awaited \cup {n}
      BY <2>2, <2>5
    <3>2. reqs'[r].draft = draft'
      <4>1. CASE r = n
        BY <2>1, <2>2, <4>1
      <4>2. CASE r \in Awaited
        BY <2>1, <2>2, <2>5, <4>2 DEF StayInv, Awaited
      <4> QED
        BY <3>1, <4>1, <4>2
    <3>3. form.then = "clears" => open' /\ Awaited' = {r}
      BY <2>2, <2>3, <2>5, <3>1
    <3> QED
      BY <3>2, <3>3
  <2> QED
    BY <1>0, <2>2, <2>4, <2>5 DEF StayInv
<1>3. CASE CloseForm \/ LeaveStep
  <2>1. Awaited' = {}
    BY <1>0, <1>3, OrphansGone DEF CloseForm, LeaveStep, Awaited
  <2> QED
    BY <1>0, <2>1 DEF StayInv
<1>4. CASE ReturnToStep \/ UNCHANGED vars
  <2>1. Awaited' = Awaited
    BY <1>4 DEF ReturnToStep, vars, Awaited
  <2> QED
    BY <1>0, <1>4, <2>1, AwaitedShrinks DEF ReturnToStep, vars
<1>5. CASE Refetch
  <2>1. CASE form.row
    <3>1. form' = form
      BY <1>5 DEF Refetch
    <3> QED
      BY <1>0, <2>1, <3>1 DEF StayInv, Retains
  <2>2. CASE ~form.row
    <3>1. reqs' = reqs /\ form' = form /\ draft' = draft /\ (open => open')
      BY <1>5, <2>2 DEF Refetch
    <3>2. Awaited' = Awaited
      BY <3>1 DEF Awaited
    <3> QED
      BY <1>0, <3>1, <3>2, AwaitedShrinks
  <2> QED
    BY <2>1, <2>2
<1>6. ASSUME NEW f \in Fields, TypeIn(f) \/ OtherChanges(f) PROVE StayInv'
  <2>1. Awaited' = Awaited
    BY <1>6 DEF TypeIn, OtherChanges, Awaited
  <2> QED
    BY <1>0, <1>6, <2>1, AwaitedShrinks DEF TypeIn, OtherChanges
<1>7. ASSUME NEW r \in DOMAIN reqs, Arrive(r) \/ Fail(r) \/ LoseAnswer(r) PROVE StayInv'
  <2>1. /\ DOMAIN reqs' = DOMAIN reqs
        /\ \A s \in DOMAIN reqs : reqs'[s].draft = reqs[s].draft /\ reqs'[s].mounted = reqs[s].mounted
        /\ \A s \in DOMAIN reqs : reqs'[s].at \in {"sent", "done"} => reqs[s].at \in {"sent", "done"}
    BY <1>0, <1>7, OneRequestMoves DEF Arrive, Fail, LoseAnswer
  <2>2. Awaited' \subseteq Awaited
    BY <2>1 DEF Awaited
  <2>3. form' = form /\ draft' = draft /\ open' = open
    BY <1>7 DEF Arrive, Fail, LoseAnswer
  <2>4. \A s \in Awaited' : reqs'[s].draft = reqs[s].draft
    BY <2>1 DEF Awaited
  <2> QED
    BY <1>0, <2>2, <2>3, <2>4, AwaitedShrinks
<1>8. ASSUME NEW r \in DOMAIN reqs, Answered(r) PROVE StayInv'
  <2>1. Awaited' \subseteq Awaited \ {r} /\ \A s \in DOMAIN reqs : reqs'[s].draft = reqs[s].draft
    BY <1>0, <1>8, AnswerEnds
  <2>2. form' = form /\ draft' = draft
    BY <1>8 DEF Answered
  <2>3. CASE form.then = "clears" /\ Retains(form) /\ Awaited' # {}
    <3>1. r \notin Awaited
      BY <2>1, <2>3 DEF StayInv
    <3>2. ~reqs[r].mounted
      BY <1>8, <3>1 DEF Answered, Awaited
    <3>3. open => open'
      BY <1>8, <2>3, <3>2 DEF Answered
    <3> QED
      BY <1>0, <2>1, <2>2, <3>3, AwaitedShrinks DEF Awaited
  <2>4. CASE ~(form.then = "clears" /\ Retains(form) /\ Awaited' # {})
    <3>1. \A s \in Awaited' : Retains(form) => reqs'[s].draft = draft' /\ form.then # "clears"
      BY <2>1, <2>2, <2>4 DEF StayInv, Awaited
    <3>2. Retains(form') = Retains(form)
      BY <2>2
    <3> QED
      BY <1>0, <2>2, <3>1, <3>2 DEF StayInv
  <2> QED
    BY <2>3, <2>4
<1> QED
  BY <1>0, <1>1, <1>2, <1>3, <1>4, <1>5, <1>6, <1>7, <1>8 DEF Next

\* For any number of drafts and submissions: what is typed into a form that does
\* what its siblings do (Retains: no refill, no row that moves, no emptying before
\* the answer, callbacks given to mutate()) stays until it is left or saved.
THEOREM TypedStaysHolds ==
    ASSUME Retentive
    PROVE  Spec => TypedStays
<1> DEFINE Stays ==
             \/ form.name \in KnownLosses
             \/ CloseForm \/ LeaveStep
             \/ \E r \in DOMAIN reqs : reqs[r].mounted /\ reqs[r].draft = draft /\ Answered(r)
             \/ \A f \in Fields : open /\ val[f] = "mine" => open' /\ val'[f] = "mine"
<1>1. StayInv /\ [Next]_vars => [Stays]_vars
  <2> SUFFICES ASSUME StayInv, Next, form.name \notin KnownLosses, ~CloseForm, ~LeaveStep,
                      ~ \E r \in DOMAIN reqs : reqs[r].mounted /\ reqs[r].draft = draft /\ Answered(r),
                      NEW f \in Fields, open, val[f] = "mine"
               PROVE  open' /\ val'[f] = "mine"
    OBVIOUS
  <2>1. Retains(form) /\ val \in Contents
    BY Retentive DEF Retentive, StayInv, TypeOK
  <2>2. CASE OpenForm \/ ReturnToStep
    BY <2>2 DEF OpenForm, ReturnToStep
  <2>3. CASE Submit \/ Refetch
    BY <2>1, <2>3 DEF Submit, Refetch, Retains
  <2>4. ASSUME NEW g \in Fields, TypeIn(g) \/ OtherChanges(g) PROVE open' /\ val'[f] = "mine"
    BY <2>1, <2>4 DEF TypeIn, OtherChanges, Contents
  <2>5. ASSUME NEW r \in DOMAIN reqs, Arrive(r) \/ Fail(r) \/ LoseAnswer(r) PROVE open' /\ val'[f] = "mine"
    BY <2>5 DEF Arrive, Fail, LoseAnswer
  <2>6. ASSUME NEW r \in DOMAIN reqs, Answered(r) PROVE open' /\ val'[f] = "mine"
    <3>1. ~reqs[r].mounted
      BY <2>1, <2>6 DEF StayInv, Awaited, Answered
    <3> QED
      BY <2>1, <2>6, <3>1 DEF Answered, Retains
  <2> QED
    BY <2>2, <2>3, <2>4, <2>5, <2>6 DEF Next
<1> QED
  BY <1>1, StayInit, StayStep, PTL DEF Spec, TypedStays

----------------------------------------------------------------------------
\* The strengthening: an open form that follows its object shows what the client
\* knows or what was typed, and no request on its way undoes a change it has seen.
KeptInv ==
    /\ TypeOK
    /\ ~form.makes /\ Current(form) =>
         /\ open /\ form.sends # "typed" => \A f \in Fields : val[f] \in {cache[f], "mine"}
         /\ \A r \in DOMAIN reqs, f \in Fields :
                f \in DOMAIN reqs[r].body /\ reqs[r].seen[f] = "theirs"
                    => reqs[r].body[f] \in {"theirs", "mine"}

LEMMA KeptInit == Init => KeptInv
  BY TypeInit DEF Init, KeptInv

LEMMA RequestsKept ==
    ASSUME TypeOK, [Next]_vars, ~Submit
    PROVE  /\ form' = form /\ DOMAIN reqs' = DOMAIN reqs
           /\ \A r \in DOMAIN reqs : reqs'[r].body = reqs[r].body /\ reqs'[r].seen = reqs[r].seen
<1>0. \A s \in DOMAIN reqs : reqs[s] \in Requests
  BY RequestTyped
<1>1. ASSUME NEW kept
      PROVE  /\ Orphans(kept) \in Seq(Requests) /\ DOMAIN Orphans(kept) = DOMAIN reqs
             /\ \A s \in DOMAIN reqs : /\ Orphans(kept)[s].body = reqs[s].body
                                       /\ Orphans(kept)[s].seen = reqs[s].seen
  <2>1. ASSUME NEW q \in Requests, NEW b
        PROVE  [q EXCEPT !.mounted = b].body = q.body /\ [q EXCEPT !.mounted = b].seen = q.seen
    BY DEF Requests
  <2>2. ASSUME NEW s \in DOMAIN reqs
        PROVE  Orphans(kept)[s].body = reqs[s].body /\ Orphans(kept)[s].seen = reqs[s].seen
    <3>1. Orphans(kept)[s] = [reqs[s] EXCEPT !.mounted = (s \in kept /\ reqs[s].mounted)]
      BY OrphansTyped
    <3> QED
      BY <1>0, <2>1, <3>1
  <2> QED
    BY <2>2, OrphansTyped
<1>2. ASSUME NEW old \in Seq(Requests), NEW r \in DOMAIN old, NEW x
      PROVE  /\ DOMAIN [old EXCEPT ![r].at = x] = DOMAIN old
             /\ \A s \in DOMAIN old : /\ [old EXCEPT ![r].at = x][s].body = old[s].body
                                      /\ [old EXCEPT ![r].at = x][s].seen = old[s].seen
  <2>1. \A s \in DOMAIN old : old[s] \in Requests
    OBVIOUS
  <2> QED
    BY <2>1 DEF Requests
<1>3. CASE OpenForm \/ CloseForm \/ LeaveStep \/ Refetch
  BY <1>1, <1>3 DEF OpenForm, CloseForm, LeaveStep, Refetch
<1>4. CASE ReturnToStep \/ UNCHANGED vars
  BY <1>4 DEF ReturnToStep, vars
<1>5. ASSUME NEW f \in Fields, TypeIn(f) \/ OtherChanges(f)
      PROVE  form' = form /\ reqs' = reqs
  BY <1>5 DEF TypeIn, OtherChanges
<1>6. ASSUME NEW r \in DOMAIN reqs, Arrive(r) \/ Fail(r) \/ LoseAnswer(r)
      PROVE  /\ form' = form /\ DOMAIN reqs' = DOMAIN reqs
             /\ \A s \in DOMAIN reqs : reqs'[s].body = reqs[s].body /\ reqs'[s].seen = reqs[s].seen
  <2>1. form' = form /\ \E x : reqs' = [reqs EXCEPT ![r].at = x]
    BY <1>6 DEF Arrive, Fail, LoseAnswer
  <2>2. reqs \in Seq(Requests)
    BY DEF TypeOK
  <2> QED
    BY <1>2, <2>1, <2>2
<1>7. ASSUME NEW r \in DOMAIN reqs, Answered(r)
      PROVE  /\ form' = form /\ DOMAIN reqs' = DOMAIN reqs
             /\ \A s \in DOMAIN reqs : reqs'[s].body = reqs[s].body /\ reqs'[s].seen = reqs[s].seen
  <2>1. form' = form
    BY <1>7 DEF Answered
  <2>2. PICK old \in {reqs} \cup {Orphans(kept) : kept \in {{}, {r}}} : reqs' = [old EXCEPT ![r].at = "ended"]
    BY <1>7 DEF Answered
  <2>3. /\ old \in Seq(Requests) /\ DOMAIN old = DOMAIN reqs
        /\ \A s \in DOMAIN reqs : old[s].body = reqs[s].body /\ old[s].seen = reqs[s].seen
    BY <1>1 DEF TypeOK
  <2> QED
    BY <1>2, <2>1, <2>2, <2>3
<1> QED
  BY <1>3, <1>4, <1>5, <1>6, <1>7 DEF Next

LEMMA KeptStep == KeptInv /\ [Next]_vars => KeptInv'
<1> SUFFICES ASSUME KeptInv, [Next]_vars PROVE KeptInv'
  OBVIOUS
<1>1. TypeOK /\ TypeOK'
  BY TypeStep DEF KeptInv
<1>2. form' = form
  BY <1>1, RequestsKept DEF Submit
<1>3. Current(form)' = Current(form)
  BY <1>2 DEF Current
<1> SUFFICES ASSUME ~form.makes, Current(form)
             PROVE  /\ open' /\ form.sends # "typed" => \A f \in Fields : val'[f] \in {cache'[f], "mine"}
                    /\ \A r \in DOMAIN reqs', f \in Fields :
                          f \in DOMAIN reqs'[r].body /\ reqs'[r].seen[f] = "theirs"
                              => reqs'[r].body[f] \in {"theirs", "mine"}
  BY <1>1, <1>2, <1>3 DEF KeptInv
<1>4. ASSUME open', form.sends # "typed", NEW f \in Fields PROVE val'[f] \in {cache'[f], "mine"}
  <2>0. /\ form.fill = "follows" /\ form.back = "no" /\ Filling = cache
        /\ open => \A g \in Fields : val[g] \in {cache[g], "mine"}
    BY <1>4 DEF Current, KeptInv, Filling
  <2>1. CASE OpenForm \/ Submit \/ LeaveStep \/ ReturnToStep \/ CloseForm
    BY <1>4, <2>0, <2>1 DEF OpenForm, Submit, LeaveStep, ReturnToStep, CloseForm
  <2>2. CASE Refetch
    BY <1>4, <2>0, <2>2 DEF Refetch
  <2>3. ASSUME NEW g \in Fields, TypeIn(g) \/ OtherChanges(g) PROVE val'[f] \in {cache'[f], "mine"}
    BY <1>1, <1>4, <2>0, <2>3 DEF TypeIn, OtherChanges, TypeOK, Contents
  <2>4. ASSUME NEW r \in DOMAIN reqs, Arrive(r) \/ Answered(r) \/ Fail(r) \/ LoseAnswer(r)
        PROVE  val'[f] \in {cache'[f], "mine"}
    BY <1>4, <2>0, <2>4 DEF Arrive, Answered, Fail, LoseAnswer
  <2>5. CASE UNCHANGED vars
    BY <1>4, <2>0, <2>5 DEF vars
  <2> QED
    BY <2>1, <2>2, <2>3, <2>4, <2>5 DEF Next
<1>5. \A r \in DOMAIN reqs', f \in Fields :
          f \in DOMAIN reqs'[r].body /\ reqs'[r].seen[f] = "theirs" => reqs'[r].body[f] \in {"theirs", "mine"}
  <2>1. CASE Submit
    <3>1. reqs \in Seq(Requests)
      BY <1>1 DEF TypeOK
    <3>2. /\ DOMAIN reqs' = DOMAIN reqs \cup {Len(reqs) + 1}
          /\ \A r \in DOMAIN reqs : reqs'[r] = reqs[r]
          /\ reqs'[Len(reqs) + 1].body = Body /\ reqs'[Len(reqs) + 1].seen = cache
      BY <2>1, <3>1 DEF Submit
    <3>3. ASSUME NEW f \in Fields, f \in DOMAIN Body, cache[f] = "theirs" PROVE Body[f] \in {"theirs", "mine"}
      <4>1. CASE form.sends = "typed"
        BY <1>1, <2>1, <3>3, <4>1 DEF Body, TypeOK, Submit
      <4>2. CASE form.sends = "form"
        BY <2>1, <3>3, <4>2 DEF Body, KeptInv, Submit
      <4> QED
        BY <4>1, <4>2 DEF Current
    <3> QED
      BY <3>2, <3>3 DEF KeptInv
  <2>2. CASE ~Submit
    BY <1>1, <2>2, RequestsKept DEF KeptInv
  <2> QED
    BY <2>1, <2>2
<1> QED
  BY <1>4, <1>5

\* A save never puts back a change of another person the client had seen, if the
\* form sends what was typed only, or follows its object (the PATCH bodies of the
\* dialogs; EditProjectDialog's and RiskEditDialog's refill effects).
THEOREM OthersKeptHolds ==
    ASSUME Attentive
    PROVE  Spec => OthersKept
<1> DEFINE Kept == \/ form.name \in KnownStale
                   \/ \A r \in DOMAIN reqs, f \in Fields :
                        Arrive(r) /\ reqs[r].seen[f] = "theirs" /\ server[f] = "theirs"
                            => server'[f] \in {"theirs", "mine"}
<1>1. KeptInv /\ [Next]_vars => [Kept]_vars
  <2> SUFFICES ASSUME KeptInv, form.name \notin KnownStale, NEW r \in DOMAIN reqs, NEW f \in Fields,
                      Arrive(r), reqs[r].seen[f] = "theirs", server[f] = "theirs"
               PROVE  server'[f] \in {"theirs", "mine"}
    OBVIOUS
  <2>1. Current(form)
    BY Attentive DEF Attentive, KeptInv, TypeOK
  <2>2. CASE form.makes
    BY <2>2 DEF Arrive
  <2>3. CASE ~form.makes
    BY <2>1, <2>3 DEF Arrive, KeptInv
  <2> QED
    BY <2>2, <2>3
<1> QED
  BY <1>1, KeptInit, KeptStep, PTL DEF Spec, OthersKept

----------------------------------------------------------------------------
\* Type correctness of the queries behind a view; a query that has succeeded has
\* data, and one that is pending has none.
THEOREM ViewTypeCorrect == ViewSpec => []ViewTypeOK
<1>1. ViewInit => ViewTypeOK
  BY ViewAssumption DEF ViewInit, ViewTypeOK
<1>2. ViewTypeOK /\ [ViewNext]_viewVars => ViewTypeOK'
  <2> SUFFICES ASSUME ViewTypeOK, [ViewNext]_viewVars PROVE ViewTypeOK'
    OBVIOUS
  <2> USE ViewAssumption DEF ViewTypeOK
  <2>1. ASSUME NEW q \in Queries, Answer(q) PROVE ViewTypeOK'
    <3>1. PICK d \in Answers(q) : data' = [data EXCEPT ![q] = d]
      BY <2>1 DEF Answer
    <3>2. d \in {"none", "some"}
      BY DEF Answers
    <3>3. Queries' = Queries
      BY <2>1 DEF Answer, Queries
    <3> QED
      BY <2>1, <3>1, <3>2, <3>3 DEF Answer
  <2>2. ASSUME NEW q \in Queries, Miss(q) PROVE ViewTypeOK'
    <3>1. Queries' = Queries
      BY <2>2 DEF Miss, Queries
    <3> QED
      BY <2>2, <3>1 DEF Miss
  <2>3. ASSUME NEW q \in Queries, AskAgain(q) PROVE ViewTypeOK'
    <3>1. Queries' = Queries
      BY <2>3 DEF AskAgain, Queries
    <3> QED
      BY <2>3, <3>1 DEF AskAgain
  <2>4. CASE UNCHANGED viewVars
    BY <2>4 DEF viewVars, Queries
  <2> QED
    BY <2>1, <2>2, <2>3, <2>4 DEF ViewNext
<1> QED
  BY <1>1, <1>2, PTL DEF ViewSpec

\* A list asked for from the start is on its way, known, or has failed.
LEMMA AskedOrKnown ==
    ASSUME ViewTypeOK, NEW q \in Queries, \A a \in view.after : a[1] # q, ~IsLoading(q), status[q] # "error"
    PROVE  data[q] \in {"none", "some"}
<1>1. Enabled(q)
  BY DEF Enabled
<1>2. status[q] # "pending"
  BY <1>1 DEF IsLoading, Fetching
<1>3. status[q] = "success"
  BY <1>2 DEF ViewTypeOK
<1> QED
  BY <1>3 DEF ViewTypeOK

\* A careful view calls a list empty only after the server said so, and a view
\* throws only if it is a known one (the guards at the head of every page and
\* panel: isLoading, isError, then the data).
THEOREM EmptyIsToldHolds ==
    ASSUME Careful
    PROVE  ViewSpec => []EmptyIsTold
<1>1. ViewTypeOK => EmptyIsTold
  <2> SUFFICES ASSUME ViewTypeOK PROVE EmptyIsTold
    OBVIOUS
  <2>1. view \in ViewRows
    BY DEF ViewTypeOK
  <2>2. ASSUME Screen = "content", view.name \notin KnownFalse,
               NEW lists \in view.none, \A q \in lists : data[q] # "some"
        PROVE  \A q \in lists : data[q] = "none"
    <3>1. /\ \A q \in view.wait : ~IsLoading(q)
          /\ \A q \in view.fail : status[q] # "error"
      BY <2>1, <2>2, Careful DEF Screen, Careful
    <3>2. ASSUME NEW q \in lists PROVE data[q] = "none"
      <4>1. q \in view.wait /\ q \in view.fail /\ q # "workspace" /\ \A a \in view.after : a[1] # q
        BY <2>1, <2>2, Careful DEF Careful, Waits
      <4>2. q \in Queries
        BY <4>1 DEF Queries, QueriesOf, Read
      <4>3. data[q] \in {"none", "some"}
        BY <3>1, <4>1, <4>2, AskedOrKnown
      <4> QED
        BY <2>2, <4>3
    <3> QED
      BY <3>2
  <2>3. Screen = "crash" => view.name \in KnownCrashes
    BY <2>1, Careful DEF Screen, Careful
  <2> QED
    BY <2>2, <2>3 DEF EmptyIsTold
<1> QED
  BY <1>1, ViewTypeCorrect, PTL
=============================================================================
