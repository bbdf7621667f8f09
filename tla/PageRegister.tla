---------------------------- MODULE PageRegister ----------------------------
(***************************************************************************)
(* What the ETag protocol of internal/page/http.go promises: a page is a   *)
(* compare-and-swap register.  A save is accepted only from a client that  *)
(* holds the tag the page has at that moment, and gives the page a tag     *)
(* nobody was handed before.                                               *)
(***************************************************************************)
CONSTANTS Pages, Clients, Tags, NoTag

VARIABLES
  version, \* the tag of each page; NoTag before it is created
  held,    \* the tag each client was last handed for each page
  issued   \* tags that have been given out, candidates' included

vars == <<version, held, issued>>

Init ==
  /\ version = [p \in Pages |-> NoTag]
  /\ held = [c \in Clients |-> [p \in Pages |-> NoTag]]
  /\ issued = {}

Issue(t) == t \in Tags \ issued /\ issued' = issued \cup {t}

Create(c, p, t) ==
  /\ version[p] = NoTag
  /\ Issue(t)
  /\ version' = [version EXCEPT ![p] = t]
  /\ held' = [held EXCEPT ![c][p] = t]

\* A read, and the answer to a save.
Read(c, p) ==
  /\ held' = [held EXCEPT ![c][p] = version[p]]
  /\ UNCHANGED <<version, issued>>

Save(c, p, t) ==
  /\ version[p] # NoTag
  /\ held[c][p] = version[p]
  /\ Issue(t)
  /\ version' = [version EXCEPT ![p] = t]
  /\ UNCHANGED held

\* A candidate takes a tag and leaves the page alone.
Stage(t) == Issue(t) /\ UNCHANGED <<version, held>>

Next ==
  \/ \E t \in Tags : Stage(t)
  \/ \E c \in Clients, p \in Pages :
       \/ Read(c, p)
       \/ \E t \in Tags : Create(c, p, t) \/ Save(c, p, t)

Spec == Init /\ [][Next]_vars
=============================================================================
