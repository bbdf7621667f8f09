--------------------------- MODULE AIPanelProofs ---------------------------
(***************************************************************************)
(* The assistant's panel for any projects and any number of conversations, *)
(* reviews, messages and openings: the conversation it shows is one of the *)
(* project it is bound to.                                                 *)
(***************************************************************************)
EXTENDS AIPanel, FiniteSetTheorems, TLAPS

USE PanelAssumption

\* An answer names the conversation that was made for its call.
AnswersMatch ==
    \A a \in answers :
        /\ a.call \in Calls /\ a.thread \in Threads
        /\ threads[a.thread].project = a.call.project
        /\ threads[a.thread].review = a.call.review

\* The strengthening of TypeOK: there is room for the conversations being created,
\* those that are answered and a seed's exist, and a closed panel shows nothing.
TypeInv ==
    /\ TypeOK /\ AnswersMatch
    /\ IsFiniteSet(calls) /\ Len(threads) + Cardinality(calls) <= MaxThreads
    /\ seed.thread \in {0} \cup Threads
    /\ open => mount > 0
    /\ ~open => selected = 0 /\ ~sending /\ adopted = 0

LEMMA TypeInit == Init => TypeInv
<1> SUFFICES ASSUME Init PROVE TypeInv
  OBVIOUS
<1>1. target \in Projects
  BY DEF Init
<1>2. IsFiniteSet(calls) /\ Cardinality(calls) = 0
  BY FS_EmptySet DEF Init
<1>3. reviews \in Seq(Projects) /\ threads \in Seq([project : Projects, review : 0..MaxReviews])
      /\ turns \in Seq(Turns) /\ Len(reviews) = 0 /\ Len(threads) = 0 /\ Len(turns) = 0
  BY DEF Init
<1>4. list \in [loading : BOOLEAN, known : SUBSET Threads]
  BY DEF Init, Unread
<1>5. seed \in [review : 0..MaxReviews, thread : ThreadIds] /\ seed.thread = 0
  BY DEF Init, NoSeed, ThreadIds
<1>6. mount \in 0..MaxMounts /\ adopted \in ThreadIds
  BY DEF Init, ThreadIds
<1>7. calls \subseteq Calls /\ answers \subseteq Answers /\ AnswersMatch /\ slips \subseteq Slips /\ {made, kicked, sending} \subseteq BOOLEAN
  BY DEF Init, AnswersMatch
<1>8. Len(reviews) <= MaxReviews /\ Len(threads) <= MaxThreads /\ Len(turns) <= MaxTurns
  BY <1>3
<1>9. TypeOK
  BY <1>1, <1>3, <1>4, <1>5, <1>6, <1>7, <1>8 DEF Init, TypeOK
<1>10. Len(threads) + Cardinality(calls) <= MaxThreads
  BY <1>2, <1>3
<1> QED
  BY <1>2, <1>5, <1>7, <1>9, <1>10 DEF Init, TypeInv

LEMMA Basics ==
    ASSUME TypeInv
    PROVE  /\ Threads = 1..Len(threads) /\ Len(threads) \in Nat /\ Len(threads) <= MaxThreads
           /\ Cardinality(calls) \in Nat
           /\ \A c \in Threads : threads[c] \in [project : Projects, review : 0..MaxReviews]
<1>1. Len(threads) \in Nat /\ Threads = 1..Len(threads)
  BY DEF TypeInv, TypeOK, Threads
<1>2. Cardinality(calls) \in Nat
  BY FS_CardinalityType DEF TypeInv
<1>3. threads \in Seq([project : Projects, review : 0..MaxReviews]) /\ Len(threads) <= MaxThreads
  BY DEF TypeInv, TypeOK
<1>4. ASSUME NEW R, threads \in Seq(R), NEW c \in DOMAIN threads PROVE threads[c] \in R
  BY <1>4
<1> QED
  BY <1>1, <1>2, <1>3, <1>4 DEF Threads

LEMMA AddCall ==
    ASSUME TypeInv, Room, NEW call \in Calls, calls' = calls \cup {call}, threads' = threads
    PROVE  /\ calls' \subseteq Calls /\ IsFiniteSet(calls')
           /\ Len(threads') + Cardinality(calls') <= MaxThreads
<1>1. IsFiniteSet(calls) /\ calls \subseteq Calls /\ Len(threads) + Cardinality(calls) < MaxThreads
  BY DEF TypeInv, TypeOK, Room
<1>2. IsFiniteSet(calls') /\ (Cardinality(calls') = Cardinality(calls) \/ Cardinality(calls') = Cardinality(calls) + 1)
  BY <1>1, FS_AddElement
<1>3. Len(threads) \in Nat /\ Cardinality(calls) \in Nat
  BY Basics
<1> QED
  BY <1>1, <1>2, <1>3

LEMMA BeginTyped ==
    ASSUME TypeInv, NEW review \in 0..MaxReviews, open, selected # 0, Begin(review)
    PROVE  /\ turns' \in Seq(Turns) /\ Len(turns') <= MaxTurns /\ sending' = TRUE
           /\ \E t \in DOMAIN turns' : turns'[t].mount = mount /\ turns'[t].at # "ended"
<1> DEFINE turn == [thread |-> selected, mount |-> mount, kickoff |-> review, at |-> "streaming", stored |-> FALSE,
                    fresh |-> review = 0 \/ \A t \in DOMAIN turns : turns[t].thread # selected]
<1>1. selected \in 1..MaxThreads /\ mount \in 1..MaxMounts
  BY Basics DEF TypeInv, TypeOK
<1>2. turn \in Turns /\ turn.mount = mount /\ turn.at = "streaming"
  BY <1>1 DEF Turns
<1>3. turns' = Append(turns, turn) /\ Len(turns) < MaxTurns /\ turns \in Seq(Turns) /\ sending' = TRUE
  BY DEF Begin, TypeInv, TypeOK
<1> HIDE DEF turn
<1>4. Len(turns') = Len(turns) + 1 /\ turns'[Len(turns) + 1] = turn /\ turns' \in Seq(Turns)
  BY <1>2, <1>3
<1> QED
  BY <1>2, <1>3, <1>4

LEMMA BoundTyped ==
    ASSUME NEW p \in Projects, Bound(p)
    PROVE  target' = p /\ list' \in [loading : BOOLEAN, known : SUBSET Threads] /\ list'.known \subseteq OfProject(p)
<1>1. OfProject(p) \subseteq Threads
  BY DEF OfProject
<1>2. CASE list' = Unread
  BY <1>2 DEF Bound, Unread
<1>3. CASE list' \in [loading : {FALSE}, known : SUBSET OfProject(p)]
  <2>1. list' = [loading |-> list'.loading, known |-> list'.known]
        /\ list'.loading = FALSE /\ list'.known \subseteq OfProject(p)
    BY <1>3
  <2> QED
    BY <1>1, <2>1 DEF Bound
<1> QED
  BY <1>2, <1>3 DEF Bound

LEMMA EndTyped ==
    ASSUME TypeInv, NEW t \in DOMAIN turns, NEW at \in {"ended", "silent"}, NEW stored \in BOOLEAN,
           turns' = [turns EXCEPT ![t].at = at, ![t].stored = stored],
           mount' = mount,
           IF at = "ended" THEN Unlocked(t) ELSE sending' = sending
    PROVE  /\ turns' \in Seq(Turns) /\ Len(turns') <= MaxTurns /\ sending' \in BOOLEAN
           /\ sending' => sending
           /\ sending' => \E s \in DOMAIN turns' : turns'[s].mount = mount' /\ turns'[s].at # "ended"
<1>1. turns \in Seq(Turns) /\ turns[t] \in Turns /\ Len(turns) <= MaxTurns /\ sending \in BOOLEAN
  BY DEF TypeInv, TypeOK
<1> DEFINE new == [turns[t] EXCEPT !.at = at, !.stored = stored]
<1>2. new \in Turns /\ new.mount = turns[t].mount /\ new.at = at
  BY <1>1 DEF Turns
<1>2a. turns' = [turns EXCEPT ![t] = new]
  BY <1>1 DEF Turns
<1> HIDE DEF new
<1>2b. turns'[t] = new /\ DOMAIN turns' = DOMAIN turns /\ \A s \in DOMAIN turns : s # t => turns'[s] = turns[s]
  BY <1>1, <1>2a
<1>2c. turns' \in Seq(Turns)
  <2>1. ASSUME NEW R, NEW f \in Seq(R), NEW i \in DOMAIN f, NEW x \in R PROVE [f EXCEPT ![i] = x] \in Seq(R)
    OBVIOUS
  <2>2. [turns EXCEPT ![t] = new] \in Seq(Turns)
    BY ONLY <1>1, <1>2, <2>1, t \in DOMAIN turns
  <2> QED
    BY ONLY <1>2a, <2>2
<1>2d. Len(turns') = Len(turns)
  BY <1>1, <1>2b, <1>2c
<1>3. /\ turns' \in Seq(Turns) /\ Len(turns') = Len(turns) /\ DOMAIN turns' = DOMAIN turns
      /\ \A s \in DOMAIN turns : s # t => turns'[s] = turns[s]
      /\ turns'[t].mount = turns[t].mount /\ turns'[t].at = at
  BY <1>2, <1>2b, <1>2c, <1>2d
<1>4. sending' \in BOOLEAN /\ (sending' => sending) /\ (sending' /\ at = "ended" => turns[t].mount # mount)
  BY <1>1 DEF Unlocked
<1>5. ASSUME sending'
      PROVE  \E s \in DOMAIN turns' : turns'[s].mount = mount' /\ turns'[s].at # "ended"
  <2>1. PICK s \in DOMAIN turns : turns[s].mount = mount /\ turns[s].at # "ended"
    BY <1>4, <1>5 DEF TypeInv, TypeOK
  <2> QED
    BY <1>3, <1>4, <1>5, <2>1
<1> QED
  BY <1>1, <1>3, <1>4, <1>5

\* What an action leaves alone keeps its type.
LEMMA TypeKept ==
    ASSUME TypeInv, UNCHANGED <<threads, calls, answers>>, TypeOK',
           seed' = seed \/ seed'.thread = 0,
           open' => mount' > 0,
           ~open' => selected' = 0 /\ ~sending' /\ adopted' = 0
    PROVE  TypeInv'
  BY DEF TypeInv, AnswersMatch, Threads

\* An action that appends to neither keeps what the answers name.
LEMMA MatchKept ==
    ASSUME AnswersMatch, threads' = threads, answers' \subseteq answers
    PROVE  AnswersMatch'
  BY DEF AnswersMatch, Threads

LEMMA UnderWayTyped == TypeInv => UnderWay \subseteq Calls
  BY DEF TypeInv, TypeOK, AnswersMatch, UnderWay

\* The answer takes the place of its call.
LEMMA CreatedUnderWay ==
    ASSUME NEW call \in calls, Created(call)
    PROVE  UnderWay' = UnderWay
<1> DEFINE a == [call |-> call, thread |-> Len(threads) + 1]
<1>1. calls' = calls \ {call} /\ answers' = answers \cup {a} /\ a.call = call
  BY DEF Created
<1> HIDE DEF a
<1>2. {b.call : b \in answers'} = {b.call : b \in answers} \cup {call}
  BY <1>1
<1> QED
  BY <1>1, <1>2 DEF UnderWay

LEMMA TypeStep == TypeInv /\ [Next]_vars => TypeInv'
<1> SUFFICES ASSUME TypeInv, [Next]_vars PROVE TypeInv'
  OBVIOUS
<1>0. TypeOK /\ 0 \in ThreadIds /\ Threads \subseteq ThreadIds
  BY Basics DEF TypeInv, ThreadIds
<1>1. CASE AdoptSeed
  <2>1. TypeOK'
    BY <1>0, <1>1 DEF AdoptSeed, AdoptDue, TypeInv, TypeOK, provider, Shown, Threads
  <2> QED
    BY <1>1, <2>1, TypeKept DEF AdoptSeed, AdoptDue, provider, TypeInv
<1>2. CASE SelectFirst
  <2>1. PICK c \in list.known : Shown(c)
    BY <1>2 DEF SelectFirst
  <2>2. c \in Threads
    BY <2>1 DEF TypeInv, TypeOK
  <2>3. TypeOK'
    BY <1>0, <1>2, <2>1, <2>2 DEF SelectFirst, TypeOK, provider, Shown, Threads
  <2> QED
    BY <1>2, <2>3, TypeKept DEF SelectFirst, FirstDue, provider, TypeInv
<1>3. CASE AutoCreate \/ NewConversation
  <2>1. PICK by \in {"panel", "button"}, review \in 0..MaxReviews :
           calls' = calls \cup {[by |-> by, mount |-> mount, project |-> target, review |-> review]}
    BY <1>0, <1>3 DEF AutoCreate, NewConversation, TypeOK
  <2>2. /\ calls' \subseteq Calls /\ IsFiniteSet(calls')
        /\ Len(threads') + Cardinality(calls') <= MaxThreads
    <3>2. [by |-> by, mount |-> mount, project |-> target, review |-> review] \in Calls
      BY <1>0 DEF Calls, TypeOK
    <3>3. Room /\ threads' = threads
      BY <1>3 DEF AutoCreate, CreateDue, NewConversation
    <3> QED
      BY <2>1, <3>2, <3>3, AddCall
  <2>3. TypeOK'
    <3>1. slips' \subseteq Slips /\ made' \in BOOLEAN
      BY <1>0, <1>3 DEF AutoCreate, NewConversation, panel, TypeOK, Slip, Turning, Slips
    <3>2. UNCHANGED <<provider, mount, adopted, selected, kicked, sending, threads, answers, list, seen, turns>>
      BY <1>3 DEF AutoCreate, NewConversation, panel
    <3> QED
      BY <1>0, <2>2, <3>1, <3>2 DEF TypeOK, provider, Threads
  <2> QED
    BY <1>3, <2>2, <2>3, MatchKept DEF AutoCreate, NewConversation, TypeInv, provider, panel, Threads
<1>4. CASE SendKickoff \/ Send
  <2>1. \E review \in 0..MaxReviews : Begin(review) /\ open /\ selected # 0
    BY <1>0, <1>4 DEF SendKickoff, KickoffDue, Send, TypeOK
  <2>2. /\ turns' \in Seq(Turns) /\ Len(turns') <= MaxTurns /\ sending' = TRUE
        /\ \E t \in DOMAIN turns' : turns'[t].mount = mount /\ turns'[t].at # "ended"
    BY <2>1, BeginTyped
  <2>3. TypeOK'
    BY <1>0, <1>4, <2>2 DEF SendKickoff, Send, TypeOK, provider, Threads, Slip, Turning, Slips
  <2>4. UNCHANGED <<provider, mount, adopted, selected, threads, calls, answers>> /\ open
    BY <1>4 DEF SendKickoff, KickoffDue, Send
  <2> QED
    BY <2>3, <2>4, TypeKept DEF provider, TypeInv
<1>5. CASE Close
  <2>1. TypeOK'
    <3>1. seed' \in [review : 0..MaxReviews, thread : ThreadIds]
      BY <1>0, <1>5 DEF Close, NoSeed
    <3>2. list' \in [loading : BOOLEAN, known : SUBSET Threads]
      BY <1>5 DEF Close, Unmounted, Unread
    <3>3. slips' \subseteq Slips
      BY <1>0, <1>5 DEF Close, Slip, Leaving, Slips, TypeOK
    <3> QED
      BY <1>0, <1>5, <3>1, <3>2, <3>3 DEF Close, TypeOK, Unmounted, Threads
  <2> QED
    BY <1>5, <2>1, TypeKept DEF Close, Unmounted, NoSeed
<1>6. ASSUME NEW p \in Projects, Toggle(p) PROVE TypeInv'
  <2>1. ~sending /\ mount' \in 0..MaxMounts /\ mount' > 0
    BY <1>0, <1>6 DEF Toggle, Mounted, TypeOK, TypeInv
  <2>2. TypeOK'
    BY <1>0, <1>6, <2>1, BoundTyped DEF Toggle, Mounted, TypeOK, Threads
  <2> QED
    BY <1>6, <2>1, <2>2, TypeKept DEF Toggle
<1>7. ASSUME NEW p \in Projects, ReviewWithAI(p) PROVE TypeInv'
  <2>1. Len(reviews) \in Nat /\ Len(reviews) + 1 \in 0..MaxReviews
        /\ reviews' \in Seq(Projects) /\ Len(reviews') <= MaxReviews
    <3>1. reviews \in Seq(Projects) /\ Len(reviews) < MaxReviews /\ reviews' = Append(reviews, p)
      BY <1>0, <1>7 DEF ReviewWithAI, TypeOK
    <3> QED
      BY <3>1
  <2>2. /\ calls' \subseteq Calls /\ IsFiniteSet(calls')
        /\ Len(threads') + Cardinality(calls') <= MaxThreads
    <3>1. [by |-> "provider", mount |-> 0, project |-> p, review |-> Len(reviews) + 1] \in Calls
      BY <2>1 DEF Calls
    <3> QED
      BY <1>7, <3>1, AddCall DEF ReviewWithAI
  <2>3. target' \in Projects /\ list' \in [loading : BOOLEAN, known : SUBSET Threads]
    BY <1>0, <1>7, BoundTyped DEF ReviewWithAI, TypeOK
  <2>4. slips' \subseteq Slips
    BY <1>0, <1>7 DEF ReviewWithAI, TypeOK, Slip, Slips
  <2>5. /\ mount' \in 0..MaxMounts /\ mount' > 0
        /\ UNCHANGED <<adopted, selected, made, kicked, sending>>
        /\ open \/ ~sending
        /\ open => mount' = mount
    <3>1. mount \in 0..MaxMounts /\ (open => mount > 0) /\ (~open => ~sending)
      BY <1>0 DEF TypeInv, TypeOK
    <3>2. CASE open
      BY <1>7, <3>1, <3>2 DEF ReviewWithAI, panel
    <3>3. CASE ~open
      BY <1>7, <3>1, <3>3 DEF ReviewWithAI, Mounted
    <3> QED
      BY <3>2, <3>3
  <2>6. seed' \in [review : 0..MaxReviews, thread : ThreadIds] /\ seed'.thread = 0
    BY <1>0, <1>7, <2>1 DEF ReviewWithAI
  <2>7. TypeOK'
    BY <1>0, <1>7, <2>1, <2>2, <2>3, <2>4, <2>5, <2>6 DEF ReviewWithAI, TypeOK, Threads
  <2> QED
    BY <1>7, <2>2, <2>5, <2>6, <2>7, MatchKept DEF TypeInv, ReviewWithAI
<1>8. ASSUME NEW c, Select(c) PROVE TypeInv'
  <2>1. c \in Threads
    BY <1>0, <1>8 DEF Select, TypeOK
  <2>2. TypeOK'
    BY <1>0, <1>8, <2>1 DEF Select, TypeOK, provider, Shown, Threads, Slip, Turning, Slips
  <2> QED
    BY <1>8, <2>2, TypeKept DEF Select, provider, TypeInv
<1>9. CASE ReadList \/ FailList \/ ReadMessages \/ FailMessages
  <2>1. list' \in [loading : BOOLEAN, known : SUBSET Threads]
    <3>1. list \in [loading : BOOLEAN, known : SUBSET Threads] /\ OfProject(target) \subseteq Threads
      BY <1>0 DEF OfProject, TypeOK
    <3>2. [list EXCEPT !.loading = FALSE] \in [loading : BOOLEAN, known : SUBSET Threads]
      BY <3>1
    <3>3. [loading |-> FALSE, known |-> OfProject(target)] \in [loading : BOOLEAN, known : SUBSET Threads]
      BY <3>1
    <3> QED
      BY <1>9, <3>1, <3>2, <3>3 DEF ReadList, FailList, ReadMessages, FailMessages
  <2>2. UNCHANGED <<provider, panel, threads, calls, answers, turns, slips>> /\ seen' \in {"loading", "empty", "some"}
    BY <1>0, <1>9 DEF ReadList, FailList, ReadMessages, FailMessages, TypeOK
  <2>3. TypeOK'
    BY <1>0, <2>1, <2>2 DEF TypeOK, provider, panel, Threads
  <2> QED
    BY <2>2, <2>3, TypeKept DEF provider, panel, TypeInv
<1>10. ASSUME NEW call \in calls, Created(call) PROVE TypeInv'
  <2> DEFINE c == Len(threads) + 1
             made_ == [project |-> call.project, review |-> call.review]
  <2>1. call \in Calls /\ IsFiniteSet(calls') /\ Cardinality(calls') = Cardinality(calls) - 1
    BY <1>0, <1>10, FS_RemoveElement DEF Created, TypeInv, TypeOK
  <2>2. made_ \in [project : Projects, review : 0..MaxReviews]
    BY <2>1 DEF Calls
  <2>3. /\ threads' \in Seq([project : Projects, review : 0..MaxReviews])
        /\ Len(threads') = Len(threads) + 1 /\ Threads' = Threads \cup {c}
        /\ threads'[c] = made_ /\ \A d \in Threads : threads'[d] = threads[d]
    BY <1>0, <1>10, <2>2 DEF Created, TypeOK, Threads
  <2>4. Len(threads') <= MaxThreads /\ Len(threads') + Cardinality(calls') <= MaxThreads
    BY <2>1, <2>3, Basics, FS_CardinalityType DEF TypeInv
  <2>5. c \in 1..MaxThreads
    BY <2>3, <2>4, Basics
  <2>6. list' \in [loading : BOOLEAN, known : SUBSET Threads']
    BY <1>0, <1>10, <2>3 DEF Created, TypeOK
  <2>7. /\ UNCHANGED <<provider, panel, list, seen, turns, slips>>
        /\ calls' \subseteq calls /\ answers' = answers \cup {[call |-> call, thread |-> c]}
    BY <1>10 DEF Created
  <2>8. made_.project = call.project /\ made_.review = call.review
    OBVIOUS
  <2> HIDE DEF c, made_
  <2>9. answers' \subseteq Answers
    BY <1>0, <2>1, <2>5, <2>7 DEF TypeOK, Answers
  <2>10. AnswersMatch'
    BY <2>1, <2>3, <2>7, <2>8 DEF TypeInv, AnswersMatch
  <2>11. TypeOK'
    BY <1>0, <2>3, <2>4, <2>6, <2>7, <2>9 DEF TypeOK, provider, panel
  <2> QED
    BY <2>1, <2>3, <2>4, <2>7, <2>10, <2>11 DEF TypeInv, provider, panel
<1>11. ASSUME NEW call \in calls, CreateFails(call) PROVE TypeInv'
  <2>1. calls' = calls \ {call} /\ IsFiniteSet(calls') /\ Cardinality(calls') = Cardinality(calls) - 1
    BY <1>11, FS_RemoveElement DEF CreateFails, TypeInv
  <2>2. Len(threads') + Cardinality(calls') <= MaxThreads
    BY <1>11, <2>1, Basics DEF CreateFails, TypeInv
  <2>3. TypeOK'
    BY <1>0, <1>11 DEF CreateFails, Retried, TypeOK, provider, Threads
  <2> QED
    BY <1>11, <2>1, <2>2, <2>3, MatchKept DEF CreateFails, TypeInv, provider, Threads
<1>14. ASSUME NEW a \in answers, Landed(a) \/ AnswerLost(a) PROVE TypeInv'
  <2>1. a.call \in Calls /\ a.thread \in Threads /\ a.thread \in ThreadIds
    BY <1>0 DEF TypeInv, AnswersMatch
  <2>2. /\ UNCHANGED <<open, target, reviews, mount, adopted, kicked, sending, threads, calls, list, turns, slips>>
        /\ answers' \subseteq answers
    BY <1>14 DEF Landed, AnswerLost, provider
  <2>3. seed' \in [review : 0..MaxReviews, thread : ThreadIds] /\ seed'.thread \in {0} \cup Threads
    <3>1. CASE seed' = seed
      BY <1>0, <3>1 DEF TypeOK, TypeInv
    <3>2. CASE seed' = [review |-> a.call.review, thread |-> a.thread]
      BY <2>1, <3>2 DEF Calls
    <3> QED
      BY <1>14, <3>1, <3>2 DEF Landed, AnswerLost, provider
  <2>4. selected' \in {selected, a.thread} /\ seen' \in {"loading", "empty", "some"} /\ made' \in BOOLEAN
        /\ (~open => selected' = selected)
    BY <1>0, <1>14 DEF Landed, AnswerLost, Retried, Mine, Shown, TypeOK
  <2>5. TypeOK'
    BY <1>0, <2>1, <2>2, <2>3, <2>4 DEF TypeOK, Threads
  <2> QED
    BY <2>2, <2>3, <2>4, <2>5, MatchKept DEF TypeInv, Threads
<1>12. ASSUME NEW t \in DOMAIN turns, Done(t) \/ Breaks(t) \/ FallsSilent(t) PROVE TypeInv'
  <2>1. /\ UNCHANGED <<provider, mount, adopted, selected, made, kicked, threads, calls, answers, list, seen, slips>>
        /\ \E at \in {"ended", "silent"}, stored \in BOOLEAN :
              /\ turns' = [turns EXCEPT ![t].at = at, ![t].stored = stored]
              /\ IF at = "ended" THEN Unlocked(t) ELSE sending' = sending
    BY <1>12 DEF Done, Breaks, Broken, FallsSilent, panel
  <2>2. /\ turns' \in Seq(Turns) /\ Len(turns') <= MaxTurns /\ sending' \in BOOLEAN
        /\ sending' => sending
        /\ sending' => \E s \in DOMAIN turns' : turns'[s].mount = mount' /\ turns'[s].at # "ended"
    BY <2>1, EndTyped
  <2>3. TypeOK'
    BY <1>0, <2>1, <2>2 DEF TypeOK, provider, Threads
  <2> QED
    BY <2>1, <2>2, <2>3, TypeKept DEF TypeInv, provider
<1>13. CASE UNCHANGED vars
  <2>1. TypeOK'
    BY <1>0, <1>13 DEF vars, provider, panel, TypeOK, Threads
  <2> QED
    BY <1>13, <2>1, TypeKept DEF vars, provider, panel, TypeInv
<1> QED
  BY <1>1, <1>2, <1>3, <1>4, <1>5, <1>6, <1>7, <1>8, <1>9, <1>10, <1>11, <1>12, <1>13, <1>14 DEF Next

\* Type correctness; a locked composer has an answer under way, or one that was
\* cut off without an event (setSending in handleSend).
THEOREM TypeCorrect == Spec => []TypeOK
<1>1. TypeInv => TypeOK
  BY DEF TypeInv
<1> QED
  BY <1>1, TypeInit, TypeStep, PTL DEF Spec

----------------------------------------------------------------------------
Excused == slips \cap {"rebound", "left"} # {}

\* The strengthening: whatever may still become the conversation shown belongs to
\* the panel's project: the list, the creations under way and the seed.
OwnInv ==
    /\ TypeInv
    /\ list.known \subseteq OfProject(target)
    /\ \A call \in UnderWay : call.by # "provider" => call.mount <= mount
    /\ ~Excused =>
         /\ \A call \in UnderWay : call.by = "provider" => open /\ call.project = target
         /\ \A call \in UnderWay : Mine(call) => call.project = target
         /\ seed.thread # 0 => open /\ threads[seed.thread].project = target
         /\ selected # 0 => open /\ threads[selected].project = target

LEMMA OwnInit == Init => OwnInv
  BY TypeInit DEF Init, OwnInv, Unread, NoSeed, UnderWay

\* An action that leaves the binding, the conversations and the creations alone.
LEMMA OwnKept ==
    ASSUME OwnInv, TypeInv', UNCHANGED <<open, target, mount, threads, calls, answers, seed>>,
           slips \subseteq slips',
           list'.known \subseteq OfProject(target),
           selected' \in {selected, seed.thread} \cup list.known
    PROVE  OwnInv'
<1>1. UnderWay' = UnderWay /\ \A call : Mine(call)' = Mine(call)
  BY DEF Mine, UnderWay
<1>2. Excused => Excused'
  BY DEF Excused
<1>3. OfProject(target)' = OfProject(target)
  BY DEF OfProject, Threads
<1>4. ASSUME ~Excused, selected' # 0 PROVE open /\ threads[selected'].project = target
  <2>1. CASE selected' \in {selected, seed.thread}
    BY <1>4, <2>1 DEF OwnInv
  <2>2. CASE selected' \in list.known
    <3>1. threads[selected'].project = target /\ selected' \in Threads
      BY <2>2 DEF OwnInv, OfProject
    <3>2. CASE open
      BY <3>1, <3>2
    <3>3. CASE ~open
      BY <1>4, <3>3 DEF OwnInv, TypeInv
    <3> QED
      BY <3>2, <3>3
  <2> QED
    BY <2>1, <2>2
<1> QED
  BY <1>1, <1>2, <1>3, <1>4 DEF OwnInv

LEMMA OwnStep == OwnInv /\ [Next]_vars => OwnInv'
<1> SUFFICES ASSUME OwnInv, [Next]_vars PROVE OwnInv'
  OBVIOUS
<1>0. TypeInv /\ TypeInv' /\ TypeOK /\ UnderWay \subseteq Calls
  BY TypeStep, UnderWayTyped DEF OwnInv, TypeInv
<1>1. CASE AdoptSeed \/ SelectFirst
  <2>1. /\ UNCHANGED <<open, target, mount, threads, calls, answers, seed, slips, list>>
        /\ selected' \in {selected, seed.thread} \cup list.known
    BY <1>1 DEF AdoptSeed, SelectFirst, Shown, provider
  <2> QED
    BY <1>0, <2>1, OwnKept DEF OwnInv
<1>2. CASE AutoCreate \/ NewConversation
  <2>0. PICK by \in {"panel", "button"} : \E review :
           calls' = calls \cup {[by |-> by, mount |-> mount, project |-> target, review |-> review]}
    BY <1>2 DEF AutoCreate, NewConversation
  <2>1. PICK review :
           calls' = calls \cup {[by |-> by, mount |-> mount, project |-> target, review |-> review]}
    BY <2>0
  <2> DEFINE new == [by |-> by, mount |-> mount, project |-> target, review |-> review]
  <2>2. /\ open /\ UNCHANGED <<open, target, mount, threads, answers, seed, selected, list>> /\ slips \subseteq slips'
        /\ UnderWay' = UnderWay \cup {new} /\ new.mount = mount /\ new.project = target /\ new.by # "provider"
    BY <1>2, <2>1 DEF AutoCreate, CreateDue, NewConversation, provider, panel, Slip, UnderWay
  <2> HIDE DEF new
  <2>3. (Excused => Excused') /\ \A call : Mine(call)' = Mine(call)
    BY <2>2 DEF Excused, Mine
  <2>4. OfProject(target)' = OfProject(target)
    BY <2>2 DEF OfProject, Threads
  <2>5. mount \in Nat
    BY <1>0 DEF TypeOK
  <2> QED
    BY <1>0, <2>2, <2>3, <2>4, <2>5 DEF OwnInv
<1>3. CASE SendKickoff \/ Send
  <2>1. UNCHANGED <<open, target, mount, threads, calls, answers, seed, selected, list>> /\ slips \subseteq slips'
    BY <1>3 DEF SendKickoff, Send, provider, Slip
  <2> QED
    BY <1>0, <2>1, OwnKept DEF OwnInv
<1>4. CASE Close
  <2>1. /\ open' = FALSE /\ seed' = NoSeed /\ selected' = 0 /\ list'.known = {}
        /\ UNCHANGED <<target, mount, threads>> /\ slips' = slips \cup Leaving /\ UnderWay' = UnderWay
    BY <1>4 DEF Close, Unmounted, Unread, Slip, UnderWay
  <2>2. ASSUME ~Excused' PROVE \A call \in UnderWay : call.by # "provider"
    BY <2>1, <2>2 DEF Leaving, Excused
  <2> QED
    BY <1>0, <2>1, <2>2 DEF OwnInv, NoSeed, Mine, Excused
<1>5. ASSUME NEW p \in Projects, Toggle(p) PROVE OwnInv'
  <2>1. /\ ~open /\ mount' = mount + 1 /\ mount \in Nat
        /\ UNCHANGED <<seed, threads, slips, selected>> /\ UnderWay' = UnderWay
        /\ list'.known \subseteq OfProject(p) /\ target' = p
    BY <1>0, <1>5, BoundTyped DEF Toggle, Mounted, TypeOK, UnderWay
  <2>2. selected = 0 /\ OfProject(target)' = OfProject(target')
    BY <1>0, <2>1 DEF TypeInv, OfProject, Threads
  <2>3. \A call \in UnderWay : ~Mine(call)' /\ (call.by # "provider" => call.mount <= mount')
    <3>1. \A call \in UnderWay : call.by # "provider" => call.mount <= mount /\ call.mount \in Nat
      BY <1>0 DEF OwnInv, Calls
    <3> QED
      BY <2>1, <3>1 DEF Mine
  <2> QED
    BY <1>0, <2>1, <2>2, <2>3 DEF OwnInv, Excused
<1>6. ASSUME NEW p \in Projects, ReviewWithAI(p) PROVE OwnInv'
  <2> DEFINE new == [by |-> "provider", mount |-> 0, project |-> p, review |-> Len(reviews) + 1]
  <2>1. /\ open' = TRUE /\ threads' = threads /\ UnderWay' = UnderWay \cup {new} /\ seed'.thread = 0
        /\ slips \subseteq slips' /\ new.by = "provider" /\ new.project = p
    BY <1>6 DEF ReviewWithAI, Slip, UnderWay
  <2>2. target' = p /\ list'.known \subseteq OfProject(p)
    BY <1>6, BoundTyped DEF ReviewWithAI, OwnInv
  <2>3. OfProject(target)' = OfProject(p) /\ (Excused => Excused')
    BY <2>1, <2>2 DEF OfProject, Threads, Excused
  <2>4. mount \in Nat /\ \A call \in UnderWay : call.by # "provider" => call.mount <= mount /\ call.mount \in Nat
    BY <1>0 DEF OwnInv, Calls, TypeOK
  <2>5. CASE open
    <3>1. mount' = mount /\ selected' = selected /\ (p # target => Excused')
      BY <1>6, <2>5 DEF ReviewWithAI, panel, Slip, Excused
    <3>2. \A call \in UnderWay : Mine(call)' = Mine(call)
      BY <2>1, <2>5, <3>1 DEF Mine
    <3> HIDE DEF new
    <3>3. \A call : call.by = "provider" => ~Mine(call)'
      BY DEF Mine
    <3> QED
      BY <1>0, <2>1, <2>2, <2>3, <2>4, <2>5, <3>1, <3>2, <3>3 DEF OwnInv
  <2>6. CASE ~open
    <3>1. mount' = mount + 1 /\ selected' = 0
      BY <1>0, <1>6, <2>6 DEF ReviewWithAI, Mounted, TypeInv
    <3> HIDE DEF new
    <3>2. \A call \in UnderWay' : ~Mine(call)'
      BY <2>1, <2>4, <3>1 DEF Mine
    <3> QED
      BY <1>0, <2>1, <2>2, <2>3, <2>4, <2>6, <3>1, <3>2 DEF OwnInv
  <2> QED
    BY <2>5, <2>6
<1>7. ASSUME NEW c, Select(c) PROVE OwnInv'
  <2>1. /\ UNCHANGED <<open, target, mount, threads, calls, answers, seed, list>> /\ slips \subseteq slips'
        /\ selected' \in list.known
    BY <1>7 DEF Select, Shown, provider, Slip
  <2> QED
    BY <1>0, <2>1, OwnKept DEF OwnInv
<1>8. CASE ReadList \/ FailList \/ ReadMessages \/ FailMessages
  <2>1. UNCHANGED <<open, target, mount, threads, calls, answers, seed, slips, selected>>
    BY <1>8 DEF ReadList, FailList, ReadMessages, FailMessages, provider, panel
  <2>2. list'.known \in {list.known, OfProject(target)}
    <3>1. [list EXCEPT !.loading = FALSE].known = list.known
      BY <1>0 DEF TypeOK
    <3>2. CASE ReadList
      BY <3>2 DEF ReadList
    <3>3. CASE FailList
      BY <3>1, <3>3 DEF FailList
    <3>4. CASE ReadMessages \/ FailMessages
      BY <3>4 DEF ReadMessages, FailMessages
    <3> QED
      BY <1>8, <3>2, <3>3, <3>4
  <2> QED
    BY <1>0, <2>1, <2>2, OwnKept DEF OwnInv
<1>9. ASSUME NEW call \in calls, Created(call) PROVE OwnInv'
  <2>1. /\ UNCHANGED <<open, target, mount, list, slips, seed, selected>>
        /\ threads' = Append(threads, [project |-> call.project, review |-> call.review])
    BY <1>9 DEF Created, provider, panel
  <2>2. UnderWay' = UnderWay
    BY <1>9, CreatedUnderWay
  <2>3. \A d \in Threads : threads'[d] = threads[d] /\ d \in Threads'
    BY <1>0, <2>1, Basics DEF TypeOK, Threads
  <2>4. OfProject(target) \subseteq OfProject(target)'
    BY <2>1, <2>3 DEF OfProject
  <2>5. (\A d : Mine(d)' = Mine(d)) /\ Excused' = Excused
    BY <2>1 DEF Mine, Excused
  <2>6. seed.thread \in {0} \cup Threads /\ selected \in {0} \cup Threads
    BY <1>0 DEF TypeInv, TypeOK
  <2> QED
    BY <1>0, <2>1, <2>2, <2>3, <2>4, <2>5, <2>6 DEF OwnInv
<1>10. ASSUME NEW call \in calls, CreateFails(call) PROVE OwnInv'
  <2>1. UNCHANGED <<open, target, mount, list, slips, threads, seed, selected>> /\ UnderWay' \subseteq UnderWay
    BY <1>10 DEF CreateFails, provider, UnderWay
  <2>2. (\A d : Mine(d)' = Mine(d)) /\ Excused' = Excused /\ OfProject(target)' = OfProject(target)
    BY <2>1 DEF Mine, Excused, OfProject, Threads
  <2> QED
    BY <1>0, <2>1, <2>2 DEF OwnInv
<1>12. ASSUME NEW a \in answers, Landed(a) \/ AnswerLost(a) PROVE OwnInv'
  <2>1. /\ UNCHANGED <<open, target, mount, list, slips, threads>> /\ UnderWay' \subseteq UnderWay
        /\ seed' = seed \/ (a.call.by = "provider" /\ seed'.thread = a.thread)
        /\ selected' = selected \/ (Mine(a.call) /\ selected' = a.thread)
    BY <1>12 DEF Landed, AnswerLost, provider, Shown, UnderWay
  <2>2. (\A d : Mine(d)' = Mine(d)) /\ Excused' = Excused /\ OfProject(target)' = OfProject(target)
    BY <2>1 DEF Mine, Excused, OfProject, Threads
  <2>3. a.call \in UnderWay /\ threads[a.thread].project = a.call.project
    BY <1>0 DEF UnderWay, TypeInv, AnswersMatch
  <2>4. ASSUME ~Excused
        PROVE  /\ seed'.thread # 0 => open /\ threads[seed'.thread].project = target
               /\ selected' # 0 => open /\ threads[selected'].project = target
    <3>1. a.call.by = "provider" => open /\ a.call.project = target
      BY <2>3, <2>4 DEF OwnInv
    <3>2. Mine(a.call) => open /\ a.call.project = target
      BY <2>3, <2>4 DEF OwnInv, Mine
    <3> QED
      BY <2>1, <2>3, <2>4, <3>1, <3>2 DEF OwnInv
  <2> QED
    BY <1>0, <2>1, <2>2, <2>4 DEF OwnInv
<1>11. ASSUME NEW t, Done(t) \/ Breaks(t) \/ FallsSilent(t) \/ UNCHANGED vars PROVE OwnInv'
  <2>1. UNCHANGED <<open, target, mount, threads, calls, answers, seed, slips, selected, list>>
    BY <1>11 DEF Done, Breaks, Broken, FallsSilent, vars, provider, panel
  <2> QED
    BY <1>0, <2>1, OwnKept DEF OwnInv
<1> QED
  BY <1>1, <1>2, <1>3, <1>4, <1>5, <1>6, <1>7, <1>8, <1>9, <1>10, <1>11, <1>12 DEF Next

\* The panel shows a conversation of the project it is bound to (AIChatPanel's
\* effects and its picker; AIPanelProvider's answer to a review), a rebinding and
\* a review left behind excepted.
THEOREM OwnThreadHolds == Spec => []OwnThread
<1>1. OwnInv => OwnThread
  BY DEF OwnInv, OwnThread, Excused
<1> QED
  BY <1>1, OwnInit, OwnStep, PTL DEF Spec

----------------------------------------------------------------------------
\* A conversation made for the seed's review, in which nothing was said.
Unused(c) == threads[c].review = seed.review /\ \A t \in DOMAIN turns : turns[t].thread # c

\* The strengthening: while a review waits to be kicked off, whatever may become
\* the conversation shown is made for it and unused, answers under way included.
KickInv ==
    /\ OwnInv
    /\ \A t \in DOMAIN turns : turns[t].kickoff <= Len(reviews) /\ turns[t].thread \in Threads
    /\ seed.review <= Len(reviews) /\ \A call \in UnderWay : call.by = "provider" => call.review <= Len(reviews)
    /\ slips = {} =>
         /\ \A t \in DOMAIN turns : turns[t].kickoff # 0 =>
               turns[t].fresh /\ threads[turns[t].thread].review = turns[t].kickoff
         /\ \A s, t \in DOMAIN turns : turns[s].kickoff = turns[t].kickoff /\ turns[s].kickoff # 0 => s = t
         /\ ~open => seed.review = 0
         /\ \A call \in UnderWay : call.by = "provider" => open /\ call.review = seed.review
         /\ open /\ seed.review # 0 /\ ~kicked =>
              /\ \A c \in {selected, seed.thread} \ {0} : Unused(c)
              /\ \A a \in answers : a.call.by = "provider" \/ Mine(a.call) => Unused(a.thread)
              /\ \A call \in UnderWay : Mine(call) => call.review = seed.review
              /\ \A t \in DOMAIN turns : turns[t].kickoff # seed.review

LEMMA KickInit == Init => KickInv
  BY OwnInit DEF Init, KickInv, NoSeed, UnderWay

\* An action that neither speaks nor creates keeps it.
LEMMA KickKept ==
    ASSUME KickInv, OwnInv', UNCHANGED <<open, reviews, mount, threads, calls, answers, seed, kicked>>,
           slips' = {} => slips = {},
           DOMAIN turns' = DOMAIN turns,
           \A t \in DOMAIN turns : /\ turns'[t].kickoff = turns[t].kickoff /\ turns'[t].fresh = turns[t].fresh
                                   /\ turns'[t].thread = turns[t].thread,
           slips' = {} /\ open /\ seed.review # 0 /\ ~kicked => selected' \in {selected, seed.thread}
    PROVE  KickInv'
<1>1. UnderWay' = UnderWay /\ \A call : Mine(call)' = Mine(call)
  BY DEF Mine, UnderWay
<1>2. \A c : Unused(c) => Unused(c)'
  BY DEF Unused
<1>3. Threads' = Threads
  BY DEF Threads
<1>4. ASSUME slips' = {}, open, seed.review # 0, ~kicked
      PROVE  \A c \in {selected', seed.thread'} \ {0} : Unused(c)'
  <2>1. \A c \in {selected, seed.thread} \ {0} : Unused(c)
    BY <1>4 DEF KickInv
  <2> QED
    BY <1>2, <1>4, <2>1
<1> QED
  BY <1>1, <1>2, <1>3, <1>4 DEF KickInv

LEMMA KickStep == KickInv /\ [Next]_vars => KickInv'
<1> SUFFICES ASSUME KickInv, [Next]_vars PROVE KickInv'
  OBVIOUS
<1>0. OwnInv /\ OwnInv' /\ TypeInv /\ TypeOK /\ UnderWay \subseteq Calls
  BY OwnStep, UnderWayTyped DEF KickInv, OwnInv, TypeInv
<1>1. CASE AdoptSeed \/ SelectFirst
  <2>1. UNCHANGED <<open, reviews, mount, threads, calls, answers, seed, kicked, slips, turns>>
    BY <1>1 DEF AdoptSeed, SelectFirst, provider
  <2>2. seed.review # 0 => selected' \in {selected, seed.thread}
    BY <1>1 DEF AdoptSeed, SelectFirst, FirstDue, Shown
  <2> QED
    BY <1>0, <2>1, <2>2, KickKept
<1>2. CASE AutoCreate \/ NewConversation
  <2>0. PICK by \in {"panel", "button"} : \E review :
            /\ calls' = calls \cup {[by |-> by, mount |-> mount, project |-> target, review |-> review]}
            /\ slips' = {} /\ seed.review # 0 /\ ~kicked => review = seed.review
    BY <1>2 DEF AutoCreate, NewConversation, Slip, Turning
  <2>1. PICK review :
            /\ calls' = calls \cup {[by |-> by, mount |-> mount, project |-> target, review |-> review]}
            /\ slips' = {} /\ seed.review # 0 /\ ~kicked => review = seed.review
    BY <2>0
  <2> DEFINE new == [by |-> by, mount |-> mount, project |-> target, review |-> review]
  <2>2. /\ UNCHANGED <<open, reviews, mount, threads, answers, seed, kicked, selected, turns>>
        /\ slips' = {} => slips = {}
        /\ UnderWay' = UnderWay \cup {new} /\ new.by # "provider" /\ new.review = review
    BY <1>2, <2>1 DEF AutoCreate, NewConversation, provider, panel, Slip, UnderWay
  <2> HIDE DEF new
  <2>3. (\A call : Mine(call)' = Mine(call)) /\ (\A c : Unused(c)' = Unused(c)) /\ Threads' = Threads
    BY <2>2 DEF Mine, Unused, Threads
  <2> QED
    BY <1>0, <2>1, <2>2, <2>3 DEF KickInv
<1>3. CASE SendKickoff \/ Send
  <2> DEFINE n == Len(turns) + 1
  <2>1. PICK review \in 0..MaxReviews :
           /\ Begin(review) /\ open /\ selected # 0
           /\ review # 0 => review = seed.review /\ seed.review # 0 /\ ~kicked /\ kicked'
           /\ slips' = {} => slips = {} /\ (seed.review = 0 \/ kicked')
           /\ kicked => kicked'
           /\ UNCHANGED <<open, reviews, mount, selected, threads, calls, answers, seed>>
    <3>1. CASE SendKickoff
      BY <1>0, <3>1 DEF SendKickoff, KickoffDue, provider, TypeOK
    <3>2. CASE Send
      BY <3>2 DEF Send, Slip, Turning, provider
    <3> QED
      BY <1>3, <3>1, <3>2
  <2>2. /\ DOMAIN turns' = DOMAIN turns \cup {n} /\ n \notin DOMAIN turns
        /\ \A t \in DOMAIN turns : turns'[t] = turns[t]
        /\ turns'[n].thread = selected /\ turns'[n].kickoff = review
        /\ turns'[n].fresh = (review = 0 \/ \A t \in DOMAIN turns : turns[t].thread # selected)
    <3>1. turns \in Seq(Turns) /\ Len(turns) \in Nat /\ DOMAIN turns = 1..Len(turns)
      BY <1>0 DEF TypeOK
    <3> QED
      BY <2>1, <3>1 DEF Begin
  <2> HIDE DEF n
  <2>3. selected \in Threads /\ review <= Len(reviews)
    <3>1. CASE review = 0
      BY <1>0, <2>1, <3>1, Basics DEF TypeOK, KickInv
    <3>2. CASE review # 0
      BY <1>0, <2>1, <3>2 DEF TypeOK, KickInv
    <3> QED
      BY <3>1, <3>2
  <2>4. Threads' = Threads /\ UnderWay' = UnderWay /\ \A call : Mine(call)' = Mine(call)
    BY <2>1 DEF Threads, Mine, UnderWay
  <2>5. ASSUME slips' = {}, review # 0
        PROVE  Unused(selected) /\ \A t \in DOMAIN turns : turns[t].kickoff # review
    BY <2>1, <2>5 DEF KickInv
  <2>6. \A t \in DOMAIN turns' : turns'[t].kickoff <= Len(reviews) /\ turns'[t].thread \in Threads
    BY <2>2, <2>3 DEF KickInv
  <2>7. ASSUME slips' = {}
        PROVE  /\ \A t \in DOMAIN turns' : turns'[t].kickoff # 0 =>
                     turns'[t].fresh /\ threads[turns'[t].thread].review = turns'[t].kickoff
               /\ \A s, t \in DOMAIN turns' : turns'[s].kickoff = turns'[t].kickoff /\ turns'[s].kickoff # 0 => s = t
    <3>1. slips = {}
      BY <2>1, <2>7
    <3>2. CASE review = 0
      BY <2>2, <3>1, <3>2 DEF KickInv
    <3>3. CASE review # 0
      <4>1. threads[selected].review = review /\ turns'[n].fresh
        BY <2>1, <2>2, <2>5, <2>7, <3>3 DEF Unused
      <4> QED
        BY <2>2, <2>5, <2>7, <3>1, <3>3, <4>1 DEF KickInv
    <3> QED
      BY <3>2, <3>3
  <2> QED
    BY <1>0, <2>1, <2>4, <2>6, <2>7 DEF KickInv
<1>4. CASE Close
  <2>1. /\ open' = FALSE /\ seed' = NoSeed /\ UNCHANGED <<reviews, threads, turns>>
        /\ slips' = slips \cup Leaving /\ UnderWay' = UnderWay
    BY <1>4 DEF Close, Slip, UnderWay
  <2>2. slips' = {} => slips = {} /\ \A call \in UnderWay : call.by # "provider"
    BY <2>1 DEF Leaving
  <2> QED
    BY <1>0, <2>1, <2>2 DEF KickInv, NoSeed, Threads
<1>5. ASSUME NEW p \in Projects, Toggle(p) PROVE KickInv'
  <2>1. ~open /\ UNCHANGED <<seed, reviews, threads, turns, slips>> /\ UnderWay' = UnderWay
    BY <1>5 DEF Toggle, UnderWay
  <2> QED
    BY <1>0, <2>1 DEF KickInv, Threads
<1>6. ASSUME NEW p \in Projects, ReviewWithAI(p) PROVE KickInv'
  <2>1. /\ UNCHANGED <<threads, turns>> /\ slips \subseteq slips' /\ open'
        /\ reviews' = Append(reviews, p) /\ seed' = [review |-> Len(reviews) + 1, thread |-> 0]
        /\ UnderWay' = UnderWay \cup
               {[by |-> "provider", mount |-> 0, project |-> p, review |-> Len(reviews) + 1]}
        /\ answers' = answers
    BY <1>6 DEF ReviewWithAI, Slip, UnderWay
  <2>2. Len(reviews) \in Nat /\ Len(reviews') = Len(reviews) + 1 /\ Threads' = Threads
    <3>1. reviews \in Seq(Projects)
      BY <1>0 DEF TypeOK
    <3> QED
      BY <2>1, <3>1 DEF Threads
  <2>3. \A t \in DOMAIN turns : turns[t].kickoff \in Nat /\ turns[t].kickoff <= Len(reviews)
    <3>1. \A t \in DOMAIN turns : turns[t] \in Turns
      BY <1>0 DEF TypeOK
    <3>2. \A turn \in Turns : turn.kickoff \in Nat
      BY DEF Turns
    <3> QED
      BY <3>1, <3>2 DEF KickInv
  <2>4. \A t \in DOMAIN turns' : turns'[t].kickoff < Len(reviews') /\ turns'[t].thread \in Threads'
    BY <2>1, <2>2, <2>3 DEF KickInv
  <2>5. ASSUME slips' = {}
        PROVE  /\ selected' = 0 /\ \A call \in UnderWay : call.by # "provider"
               /\ \A call \in UnderWay' : ~Mine(call)'
               /\ \A a \in answers' : a.call.by # "provider" /\ ~Mine(a.call)'
    <3>1. ~open /\ slips = {}
      BY <1>6, <2>1, <2>5 DEF ReviewWithAI, Slip
    <3>2. mount' = mount + 1 /\ selected' = 0 /\ mount \in Nat
      BY <1>0, <1>6, <3>1 DEF ReviewWithAI, Mounted, TypeInv, TypeOK
    <3>3. \A call \in UnderWay : call.by # "provider" => call.mount <= mount /\ call.mount \in Nat
      BY <1>0 DEF OwnInv, Calls
    <3>4. \A call \in UnderWay' : ~Mine(call)'
      BY <2>1, <3>2, <3>3 DEF Mine
    <3>5. \A a \in answers' : a.call \in UnderWay
      BY <2>1 DEF UnderWay
    <3> QED
      BY <2>1, <3>1, <3>2, <3>4, <3>5 DEF KickInv
  <2>6. slips' = {} => slips = {}
    BY <2>1
  <2>7. seed'.review = Len(reviews) + 1 /\ seed'.thread = 0
    BY <2>1
  <2>8. \A call \in UnderWay' \ UnderWay : call.review = Len(reviews) + 1
    BY <2>1
  <2>9. /\ \A call \in UnderWay : call.review \in Nat
        /\ \A t \in DOMAIN turns : turns[t].kickoff \in Nat
    BY <1>0, <2>3 DEF Calls
  <2>10. /\ \A t \in DOMAIN turns' : turns'[t].kickoff <= Len(reviews') /\ turns'[t].thread \in Threads'
         /\ seed'.review <= Len(reviews')
         /\ \A call \in UnderWay' : call.by = "provider" => call.review <= Len(reviews')
    <3>1. \A call \in UnderWay : call.by = "provider" => call.review <= Len(reviews)
      BY DEF KickInv
    <3>2. \A call \in UnderWay' : call.by = "provider" => call.review <= Len(reviews')
      BY <2>2, <2>8, <2>9, <3>1
    <3> QED
      BY <2>1, <2>2, <2>3, <2>4, <2>7, <3>2
  <2>11. ASSUME slips' = {}
         PROVE  /\ \A t \in DOMAIN turns' : turns'[t].kickoff # 0 =>
                      turns'[t].fresh /\ threads'[turns'[t].thread].review = turns'[t].kickoff
                /\ \A s, t \in DOMAIN turns' : turns'[s].kickoff = turns'[t].kickoff /\ turns'[s].kickoff # 0 => s = t
    BY <2>1, <2>6, <2>11 DEF KickInv
  <2>12. ASSUME slips' = {}
         PROVE  /\ \A call \in UnderWay' : call.by = "provider" => call.review = seed'.review
                /\ \A c \in {selected', seed'.thread} \ {0} : Unused(c)'
                /\ \A t \in DOMAIN turns' : turns'[t].kickoff # seed'.review
    <3>1. \A t \in DOMAIN turns' : turns'[t].kickoff # seed'.review
      BY <2>1, <2>2, <2>3, <2>7
    <3> QED
      BY <2>5, <2>7, <2>8, <2>12, <3>1
  <2>13. open'
    BY <2>1
  <2> QED
    BY <1>0, <2>5, <2>10, <2>11, <2>12, <2>13 DEF KickInv
<1>7. ASSUME NEW c, Select(c) PROVE KickInv'
  <2>1. /\ UNCHANGED <<open, reviews, mount, threads, calls, answers, seed, kicked, turns>>
        /\ slips' = slips \cup Turning
    BY <1>7 DEF Select, provider, Slip
  <2>2. slips' = {} => slips = {} /\ (seed.review = 0 \/ kicked)
    BY <2>1 DEF Turning
  <2> QED
    BY <1>0, <2>1, <2>2, KickKept
<1>8. CASE ReadList \/ FailList \/ ReadMessages \/ FailMessages \/ UNCHANGED vars
  <2>1. UNCHANGED <<open, reviews, mount, threads, calls, answers, seed, kicked, slips, selected, turns>>
    BY <1>8 DEF ReadList, FailList, ReadMessages, FailMessages, provider, panel, vars
  <2> QED
    BY <1>0, <2>1, KickKept
<1>9. ASSUME NEW call \in calls, Created(call) PROVE KickInv'
  <2>0. PICK c \in Nat : c = Len(threads) + 1
    BY <1>0, Basics
  <2>1. /\ UNCHANGED <<open, reviews, mount, kicked, turns, slips, seed, selected>>
        /\ threads' = Append(threads, [project |-> call.project, review |-> call.review])
        /\ UnderWay' = UnderWay /\ answers' = answers \cup {[call |-> call, thread |-> c]}
    BY <1>9, <2>0, CreatedUnderWay DEF Created, provider, panel
  <2>2. threads'[c].review = call.review /\ \A d \in Threads : threads'[d] = threads[d] /\ d \in Threads' /\ d # c
    <3>1. threads \in Seq([project : Projects, review : 0..MaxReviews]) /\ Threads = 1..Len(threads)
          /\ Len(threads) \in Nat
      BY <1>0, Basics DEF TypeOK
    <3>2. ASSUME NEW x, threads' = Append(threads, x)
          PROVE  threads'[c] = x /\ Threads' = 1..c /\ \A d \in 1..Len(threads) : threads'[d] = threads[d]
      BY <2>0, <3>1, <3>2 DEF Threads
    <3>3. threads'[c] = [project |-> call.project, review |-> call.review] /\ Threads' = 1..c
          /\ \A d \in 1..Len(threads) : threads'[d] = threads[d]
      BY <2>1, <3>2
    <3> QED
      BY <2>0, <3>1, <3>3
  <2>3. (\A d : Mine(d)' = Mine(d)) /\ call \in UnderWay
    BY <2>1 DEF Mine, UnderWay
  <2>4. seed.thread \in {0} \cup Threads /\ selected \in {0} \cup Threads
        /\ (\A t \in DOMAIN turns : turns[t].thread \in Threads)
        /\ \A a \in answers : a.thread \in Threads
    BY <1>0 DEF TypeInv, TypeOK, KickInv, AnswersMatch
  <2>5. [call |-> call, thread |-> c].call = call /\ [call |-> call, thread |-> c].thread = c
    OBVIOUS
  <2>6. \A d \in Threads : Unused(d) => Unused(d)'
    BY <2>1, <2>2 DEF Unused
  <2>7. call.review = seed.review => Unused(c)'
    BY <2>1, <2>2, <2>4 DEF Unused
  <2>8. ASSUME slips = {}, open, seed.review # 0, ~kicked
        PROVE  /\ \A d \in {selected', seed'.thread} \ {0} : Unused(d)'
               /\ \A a \in answers' : a.call.by = "provider" \/ Mine(a.call) => Unused(a.thread)'
    <3>1. call.by = "provider" \/ Mine(call) => call.review = seed.review
      BY <2>3, <2>8 DEF KickInv
    <3>2. \A d \in {selected, seed.thread} \ {0} : Unused(d)
      BY <2>8 DEF KickInv
    <3>3. \A a \in answers : a.call.by = "provider" \/ Mine(a.call) => Unused(a.thread)
      BY <2>8 DEF KickInv
    <3>4. ASSUME NEW a \in answers', a.call.by = "provider" \/ Mine(a.call) PROVE Unused(a.thread)'
      <4>1. CASE a \in answers
        BY <2>4, <2>6, <3>3, <3>4, <4>1
      <4>2. CASE a = [call |-> call, thread |-> c]
        BY <2>5, <2>7, <3>1, <3>4, <4>2
      <4> QED
        BY <2>1, <3>4, <4>1, <4>2
    <3> QED
      BY <2>1, <2>4, <2>6, <3>2, <3>4
  <2>9. /\ \A t \in DOMAIN turns : turns[t].kickoff <= Len(reviews) /\ turns[t].thread \in Threads'
        /\ slips = {} => \A t \in DOMAIN turns : turns[t].kickoff # 0 =>
               turns[t].fresh /\ threads'[turns[t].thread].review = turns[t].kickoff
    BY <2>2, <2>4 DEF KickInv
  <2> QED
    BY <1>0, <2>1, <2>3, <2>8, <2>9 DEF KickInv
<1>10. ASSUME NEW call \in calls, CreateFails(call) PROVE KickInv'
  <2>1. /\ UNCHANGED <<open, reviews, mount, kicked, turns, slips, threads, answers, seed, selected>>
        /\ UnderWay' \subseteq UnderWay
    BY <1>10 DEF CreateFails, provider, UnderWay
  <2>2. (\A d : Mine(d)' = Mine(d)) /\ (\A c : Unused(c)' = Unused(c)) /\ Threads' = Threads
    BY <2>1 DEF Mine, Unused, Threads
  <2> QED
    BY <1>0, <2>1, <2>2 DEF KickInv
<1>12. ASSUME NEW a \in answers, Landed(a) \/ AnswerLost(a) PROVE KickInv'
  <2>1. /\ UNCHANGED <<open, reviews, mount, kicked, turns, slips, threads>>
        /\ UnderWay' \subseteq UnderWay /\ answers' \subseteq answers /\ a.call \in UnderWay
        /\ \/ seed' = seed
           \/ a.call.by = "provider" /\ seed' = [review |-> a.call.review, thread |-> a.thread]
        /\ selected' = selected \/ (Mine(a.call) /\ selected' = a.thread)
    BY <1>12 DEF Landed, AnswerLost, provider, Shown, UnderWay
  <2>2. (\A d : Mine(d)' = Mine(d)) /\ Threads' = Threads /\ a.call.review \in Nat
    BY <1>0, <2>1 DEF Mine, Threads, Calls
  <2>3. /\ seed'.review <= Len(reviews)
        /\ slips = {} => seed'.review = seed.review
        /\ seed'.thread = seed.thread \/ (a.call.by = "provider" /\ seed'.thread = a.thread)
    BY <2>1 DEF KickInv
  <2>4. slips = {} => \A c : Unused(c)' = Unused(c)
    BY <2>1, <2>3 DEF Unused
  <2>5. ASSUME slips = {}, open, seed.review # 0, ~kicked
        PROVE  \A c \in {selected', seed'.thread} \ {0} : Unused(c)'
    <3>1. a.call.by = "provider" \/ Mine(a.call) => Unused(a.thread)
      BY <2>5 DEF KickInv
    <3>2. \A c \in {selected, seed.thread} \ {0} : Unused(c)
      BY <2>5 DEF KickInv
    <3> QED
      BY <2>1, <2>3, <2>4, <2>5, <3>1, <3>2
  <2> QED
    BY <1>0, <2>1, <2>2, <2>3, <2>4, <2>5 DEF KickInv
<1>11. ASSUME NEW t \in DOMAIN turns, Done(t) \/ Breaks(t) \/ FallsSilent(t) PROVE KickInv'
  <2>1. UNCHANGED <<open, reviews, mount, threads, calls, answers, seed, slips, selected, kicked>>
        /\ \E at, stored : turns' = [turns EXCEPT ![t].at = at, ![t].stored = stored]
    BY <1>11 DEF Done, Breaks, Broken, FallsSilent, provider, panel
  <2>2. \A s \in DOMAIN turns : turns[s] \in Turns
    BY <1>0 DEF TypeOK
  <2>3. /\ DOMAIN turns' = DOMAIN turns
        /\ \A s \in DOMAIN turns : /\ turns'[s].kickoff = turns[s].kickoff /\ turns'[s].fresh = turns[s].fresh
                                   /\ turns'[s].thread = turns[s].thread
    BY <2>1, <2>2 DEF Turns
  <2> QED
    BY <1>0, <2>1, <2>3, KickKept
<1> QED
  BY <1>1, <1>2, <1>3, <1>4, <1>5, <1>6, <1>7, <1>8, <1>9, <1>10, <1>11, <1>12 DEF Next

\* A review is kicked off once, in its own fresh conversation (didSeedSend, and
\* the kickoff's wait for the messages of the conversation shown).
THEOREM KickoffFreshHolds == Spec => []KickoffFresh
<1>1. KickInv => KickoffFresh
  BY DEF KickInv, KickoffFresh
<1> QED
  BY <1>1, KickInit, KickStep, PTL DEF Spec
=============================================================================
