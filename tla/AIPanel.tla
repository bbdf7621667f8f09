------------------------------ MODULE AIPanel ------------------------------
(***************************************************************************)
(* The assistant's panel in the web client: AIPanelProvider, which opens   *)
(* it, binds it to a project and seeds it with a guided review, and        *)
(* AIChatPanel, which finds or creates a conversation, sends messages and  *)
(* reads the streamed answers.  The panel stays open across pages.         *)
(* React runs the effects of a change before the next event: no other      *)
(* action happens while an effect is due (Settled).                        *)
(***************************************************************************)
EXTENDS Naturals, Sequences, FiniteSets

CONSTANTS
    Projects,
    MaxThreads,      \* conversations
    MaxReviews,      \* clicks on "Run risk assessment"
    MaxMounts,       \* times the panel is opened
    MaxTurns,        \* messages sent
    MaxSlips         \* kinds of slips in one behaviour

ASSUME PanelAssumption ==
    /\ Projects # {}
    /\ {MaxThreads, MaxReviews, MaxMounts, MaxTurns, MaxSlips} \subseteq Nat

VARIABLES
    open, target,    \* the provider: is the panel open, and on which project?
    seed,            \* the guided review to start, and its conversation if known
    reviews,         \* projects of the reviews asked for so far
    mount,           \* the current instance of the panel
    adopted,         \* the seed's conversation the effect last saw
    selected,        \* the conversation shown, or 0
    made, kicked,    \* didAutoCreate, didSeedSend
    sending,         \* is the composer locked?
    threads,         \* the conversations: project, and the review it was made for or 0
    calls,           \* creations the server has yet to see
    answers,         \* conversations created, the answer still on its way
    list,            \* the query of the project's conversations
    seen,            \* the query of the messages of the conversation shown
    turns,           \* the messages sent
    slips            \* what the user or the network has done that excuses a property

provider == <<open, target, seed, reviews>>
panel == <<mount, adopted, selected, made, kicked, sending>>
vars == <<provider, panel, threads, calls, answers, list, seen, turns, slips>>

Threads == DOMAIN threads
ThreadIds == 0..MaxThreads
NoSeed == [review |-> 0, thread |-> 0]
Calls == [by : {"provider", "panel", "button"}, mount : 0..MaxMounts, project : Projects,
          review : 0..MaxReviews]
Answers == [call : Calls, thread : 1..MaxThreads]
Turns == [thread : 1..MaxThreads, mount : 1..MaxMounts, kickoff : 0..MaxReviews, fresh : BOOLEAN,
          at : {"streaming", "silent", "ended"}, stored : BOOLEAN]
Slips == {"rebound", "left", "reviewed open", "turned"}

TypeOK ==
    /\ open \in BOOLEAN /\ target \in Projects
    /\ seed \in [review : 0..MaxReviews, thread : ThreadIds]
    /\ reviews \in Seq(Projects) /\ Len(reviews) <= MaxReviews
    /\ mount \in 0..MaxMounts /\ adopted \in ThreadIds /\ selected \in {0} \cup Threads
    /\ {made, kicked, sending} \subseteq BOOLEAN
    /\ threads \in Seq([project : Projects, review : 0..MaxReviews]) /\ Len(threads) <= MaxThreads
    /\ calls \subseteq Calls /\ answers \subseteq Answers
    /\ list \in [loading : BOOLEAN, known : SUBSET Threads]
    /\ seen \in {"loading", "empty", "some"}
    /\ turns \in Seq(Turns) /\ Len(turns) <= MaxTurns
    /\ slips \subseteq Slips
    /\ sending => \E t \in DOMAIN turns : turns[t].mount = mount /\ turns[t].at # "ended"

----------------------------------------------------------------------------
Unread == [loading |-> TRUE, known |-> {}]

\* The panel is unmounted; the next time it is opened a new instance starts anew.
Unmounted ==
    /\ adopted' = 0 /\ selected' = 0 /\ made' = FALSE /\ kicked' = FALSE /\ sending' = FALSE
    /\ list' = Unread /\ seen' = "loading"
    /\ UNCHANGED mount
Mounted == mount' = mount + 1 /\ UNCHANGED <<adopted, selected, made, kicked, sending>>

Slip(names) == slips' = slips \cup names /\ Cardinality(slips') <= MaxSlips

OfProject(p) == {c \in Threads : threads[c].project = p}

\* The server stores the user's message before it answers.
Stored(c) == \E t \in DOMAIN turns : turns[t].thread = c /\ turns[t].stored

\* The queries of a project or a conversation that comes on screen: asked, or
\* as some earlier reading left them in the query cache.
Bound(p) ==
    /\ target' = p
    /\ list' \in {Unread} \cup [loading : {FALSE}, known : SUBSET OfProject(p)]
Shown(c) ==
    /\ selected' = c
    /\ seen' \in {"loading", "empty"} \cup IF Stored(c) THEN {"some"} ELSE {}

\* createConv: the useMutation of the instance on screen, and its isPending.
UnderWay == calls \cup {a.call : a \in answers}
Mine(call) == open /\ call.by # "provider" /\ call.mount = mount
Creating == \E call \in UnderWay : Mine(call)
Room == Len(threads) + Cardinality(calls) < MaxThreads

Init ==
    /\ open = FALSE /\ target = (CHOOSE p \in Projects : TRUE) /\ seed = NoSeed /\ reviews = <<>>
    /\ mount = 0 /\ adopted = 0 /\ selected = 0
    /\ made = FALSE /\ kicked = FALSE /\ sending = FALSE
    /\ threads = <<>> /\ calls = {} /\ answers = {} /\ turns = <<>> /\ slips = {}
    /\ list = Unread /\ seen = "loading"

\* A turn of the panel: the body of handleSend.
Begin(review) ==
    /\ Len(turns) < MaxTurns
    /\ sending' = TRUE
    /\ turns' = Append(turns,
           [thread |-> selected, mount |-> mount, kickoff |-> review, at |-> "streaming",
            stored |-> FALSE, fresh |-> review = 0 \/ \A t \in DOMAIN turns : turns[t].thread # selected])

----------------------------------------------------------------------------
\* The effects of AIChatPanel, in their order

AdoptDue == open /\ seed.thread # adopted
AdoptSeed ==
    /\ AdoptDue
    /\ adopted' = seed.thread
    /\ IF seed.thread = 0 THEN UNCHANGED <<selected, seen>> ELSE Shown(seed.thread)
    /\ UNCHANGED <<provider, mount, made, kicked, sending, threads, calls, answers, list, turns, slips>>

FirstDue ==
    /\ open /\ ~AdoptDue
    /\ ~list.loading /\ seed.review = 0 /\ selected = 0 /\ list.known # {}
SelectFirst ==
    /\ FirstDue
    /\ \E c \in list.known : (\A d \in list.known : d <= c) /\ Shown(c)
    /\ UNCHANGED <<provider, mount, adopted, made, kicked, sending, threads, calls, answers, list, turns, slips>>

CreateDue ==
    /\ open /\ ~AdoptDue /\ ~FirstDue
    /\ ~list.loading /\ ~made /\ ~Creating /\ Room
    /\ IF seed.review # 0 THEN seed.thread = 0 ELSE list.known = {}
AutoCreate ==
    /\ CreateDue
    /\ made' = TRUE
    /\ calls' = calls \cup {[by |-> "panel", mount |-> mount, project |-> target, review |-> seed.review]}
    /\ UNCHANGED <<provider, mount, adopted, selected, kicked, sending, threads, answers, list, seen, turns, slips>>

KickoffDue ==
    /\ open /\ ~AdoptDue /\ ~FirstDue /\ ~CreateDue
    /\ seed.review # 0 /\ selected # 0 /\ ~sending /\ ~kicked
    /\ seen = "empty" /\ Len(turns) < MaxTurns

\* Mutant: without the ref that remembers it.
SendKickoffAgain ==
    /\ KickoffDue /\ Begin(seed.review)
    /\ UNCHANGED <<provider, mount, adopted, selected, made, kicked, threads, calls, answers, list, seen, slips>>

SendKickoff ==
    /\ KickoffDue /\ Begin(seed.review)
    /\ kicked' = TRUE
    /\ UNCHANGED <<provider, mount, adopted, selected, made, threads, calls, answers, list, seen, slips>>

\* A bound: nothing is followed any further once the panel is closed for the last time.
Settled == ~(AdoptDue \/ FirstDue \/ CreateDue \/ KickoffDue) /\ (open \/ mount < MaxMounts)

----------------------------------------------------------------------------
\* The user

\* The creation of a review's conversation that closing the panel leaves behind.
Leaving == IF \E call \in UnderWay : call.by = "provider" THEN {"left"} ELSE {}

CloseKeepsSeed ==
    /\ Settled /\ open
    /\ open' = FALSE /\ Unmounted /\ Slip(Leaving)
    /\ UNCHANGED <<target, seed, reviews, threads, calls, answers, turns>>

\* The panel's close button, or the toggle of any project's page.
Close ==
    /\ Settled /\ open
    /\ open' = FALSE /\ seed' = NoSeed /\ Unmounted /\ Slip(Leaving)
    /\ UNCHANGED <<target, reviews, threads, calls, answers, turns>>

Toggle(p) ==
    /\ Settled /\ ~open /\ mount < MaxMounts
    /\ open' = TRUE /\ Bound(p) /\ Mounted
    /\ UNCHANGED <<seed, reviews, threads, calls, answers, seen, turns, slips>>

\* "Run risk assessment", with the panel open or not.
ReviewWithAI(p) ==
    /\ Settled /\ Len(reviews) < MaxReviews /\ Room /\ (open \/ mount < MaxMounts)
    /\ open' = TRUE /\ IF open /\ p = target THEN UNCHANGED <<target, list>> ELSE Bound(p)
    /\ reviews' = Append(reviews, p)
    /\ seed' = [review |-> Len(reviews) + 1, thread |-> 0]
    /\ calls' = calls \cup {[by |-> "provider", mount |-> 0, project |-> p, review |-> Len(reviews) + 1]}
    /\ IF open
       THEN UNCHANGED panel /\ Slip({IF p = target THEN "reviewed open" ELSE "rebound"})
       ELSE Mounted /\ UNCHANGED slips
    /\ UNCHANGED <<threads, answers, seen, turns>>

\* The user speaks first, or elsewhere, before the review has begun.
Turning == IF seed.review # 0 /\ ~kicked THEN {"turned"} ELSE {}

\* The picker, which stays enabled while an answer streams.
Select(c) ==
    /\ Settled /\ open /\ c \in list.known \ {selected}
    /\ Shown(c) /\ Slip(Turning)
    /\ UNCHANGED <<provider, mount, adopted, made, kicked, sending, threads, calls, answers, list, turns>>

NewConversation ==
    /\ Settled /\ open /\ ~Creating /\ Room
    /\ calls' = calls \cup {[by |-> "button", mount |-> mount, project |-> target, review |-> 0]}
    /\ Slip(Turning)
    /\ UNCHANGED <<provider, panel, threads, answers, list, seen, turns>>

Send ==
    /\ Settled /\ open /\ selected # 0 /\ ~sending /\ Begin(0) /\ Slip(Turning)
    /\ UNCHANGED <<provider, mount, adopted, selected, made, kicked, threads, calls, answers, list, seen>>

----------------------------------------------------------------------------
\* The queries

ReadList ==
    /\ Settled /\ open /\ list # [loading |-> FALSE, known |-> OfProject(target)]
    /\ list' = [loading |-> FALSE, known |-> OfProject(target)]
    /\ UNCHANGED <<provider, panel, threads, calls, answers, seen, turns, slips>>

\* A failed read counts as the empty list.
FailList ==
    /\ Settled /\ open /\ list.loading
    /\ list' = [list EXCEPT !.loading = FALSE]
    /\ UNCHANGED <<provider, panel, threads, calls, answers, seen, turns, slips>>

ReadMessages ==
    /\ Settled /\ open /\ selected # 0 /\ seen # "some"
    /\ seen' = IF Stored(selected) THEN "some" ELSE "empty"
    /\ seen' # seen
    /\ UNCHANGED <<provider, panel, threads, calls, answers, list, turns, slips>>

\* So does one of the messages.
FailMessages ==
    /\ Settled /\ open /\ selected # 0 /\ seen = "loading"
    /\ seen' = "empty"
    /\ UNCHANGED <<provider, panel, threads, calls, answers, list, turns, slips>>

----------------------------------------------------------------------------
\* The server

Created(call) ==
    LET c == Len(threads) + 1 IN
    /\ Settled
    /\ threads' = Append(threads, [project |-> call.project, review |-> call.review])
    /\ calls' = calls \ {call} /\ answers' = answers \cup {[call |-> call, thread |-> c]}
    /\ UNCHANGED <<provider, panel, list, seen, turns, slips>>

\* The answer; the panel's waits for a new reading of the list, if there is one.
\* The provider's replaces the seed, whatever has become of the panel.
Landed(a) ==
    /\ Settled
    /\ answers' = answers \ {a}
    /\ seed' = IF a.call.by = "provider" THEN [review |-> a.call.review, thread |-> a.thread] ELSE seed
    /\ IF Mine(a.call) /\ a.thread # selected THEN Shown(a.thread) ELSE UNCHANGED <<selected, seen>>
    /\ UNCHANGED <<open, target, reviews, mount, adopted, made, kicked, sending, threads, calls, list,
                   turns, slips>>

\* Only the automatic creation is tried again; "+ New" has no error handler.
Retried(call) == made' = (made /\ ~(Mine(call) /\ call.by = "panel"))

\* Refused, as it always is while no LLM is configured, or never received.
CreateFails(call) ==
    /\ Settled
    /\ calls' = calls \ {call} /\ Retried(call)
    /\ UNCHANGED <<provider, mount, adopted, selected, kicked, sending, threads, answers, list, seen,
                   turns, slips>>

\* The conversation exists, and the client takes its creation for failed.
AnswerLost(a) ==
    /\ Settled
    /\ answers' = answers \ {a} /\ Retried(a.call)
    /\ UNCHANGED <<provider, mount, adopted, selected, kicked, sending, threads, calls, list, seen,
                   turns, slips>>

Unlocked(t) == sending' = (sending /\ turns[t].mount # mount)

\* An event "done", or "error" from the middle of the answer.
Done(t) ==
    /\ Settled /\ turns[t].at = "streaming"
    /\ turns' = [turns EXCEPT ![t].at = "ended", ![t].stored = TRUE] /\ Unlocked(t)
    /\ UNCHANGED <<provider, mount, adopted, selected, made, kicked, threads, calls, answers, list, seen, slips>>

Broken(t) ==
    /\ Settled /\ turns[t].at = "streaming"
    /\ \E stored \in BOOLEAN :
           turns' = [turns EXCEPT ![t].at = "ended", ![t].stored = stored]

\* Mutant: caught without unlocking the composer.
BreaksLocked(t) ==
    /\ Broken(t)
    /\ UNCHANGED <<provider, panel, threads, calls, answers, list, seen, slips>>

\* Refused, or the connection breaks.
Breaks(t) ==
    /\ Broken(t) /\ Unlocked(t)
    /\ UNCHANGED <<provider, mount, adopted, selected, made, kicked, threads, calls, answers, list, seen, slips>>

\* No event and no error ever: the handler panics in mid-answer and the middleware
\* ends the response cleanly, or nothing comes any more, and no one gives up: the
\* server's client of the LLM has no timeout once the response has begun, its own
\* responses have none, and the panel never uses the AbortController it keeps.
FallsSilent(t) ==
    /\ Settled /\ turns[t].at = "streaming" /\ open /\ turns[t].mount = mount
    /\ turns' = [turns EXCEPT ![t].at = "silent", ![t].stored = TRUE]
    /\ UNCHANGED <<provider, panel, threads, calls, answers, list, seen, slips>>

Next ==
    \/ AdoptSeed \/ SelectFirst \/ AutoCreate \/ SendKickoff
    \/ Close \/ NewConversation \/ Send
    \/ \E p \in Projects : Toggle(p) \/ ReviewWithAI(p)
    \/ \E c \in 1..MaxThreads : Select(c)
    \/ ReadList \/ FailList \/ ReadMessages \/ FailMessages
    \/ \E call \in calls : Created(call) \/ CreateFails(call)
    \/ \E a \in answers : Landed(a) \/ AnswerLost(a)
    \/ \E t \in DOMAIN turns : Done(t) \/ Breaks(t) \/ FallsSilent(t)

\* The browser runs the effects, and whatever becomes of a stream comes to pass:
\* an event, its end, or silence, from which nothing need follow.  The second
\* conjunct is strong fairness of Done, Breaks and FallsSilent together.
Effect == AdoptSeed \/ SelectFirst \/ AutoCreate \/ SendKickoff
StreamDue == Settled /\ \E t \in DOMAIN turns : turns[t].at = "streaming"
Streamed == \E t \in DOMAIN turns : turns[t].at = "streaming" /\ turns'[t].at # "streaming"
Fairness == WF_vars(Effect) /\ ([]<>StreamDue => []<><<Streamed>>_turns)

Spec == Init /\ [][Next]_vars /\ Fairness

----------------------------------------------------------------------------
\* The panel shows a conversation of the project it is bound to, unless a
\* review of another project was started while it was open, or it was closed
\* before the conversation of a review was there.
OwnThread ==
    open /\ selected # 0 /\ slips \cap {"rebound", "left"} = {} => threads[selected].project = target

\* A review is kicked off once, in a conversation made for it in which nothing
\* was said before, unless it was started in an open panel, the panel was
\* closed too early, or the user spoke first or turned elsewhere.
KickoffFresh ==
    slips = {} =>
        /\ \A t \in DOMAIN turns : turns[t].kickoff # 0 =>
               turns[t].fresh /\ threads[turns[t].thread].review = turns[t].kickoff
        /\ \A s, t \in DOMAIN turns : turns[s].kickoff = turns[t].kickoff /\ turns[s].kickoff # 0 => s = t

\* A locked composer is unlocked again, unless the very answer it waits for falls
\* silent.
SendingEnds ==
    []<>(~sending \/ \E t \in DOMAIN turns : turns[t].mount = mount /\ turns[t].at = "silent")
=============================================================================
