--------------------------- MODULE MCPageEditing ---------------------------
(* One editor whose saves overlap, two editors one after the other, one    *)
(* whose saves may be lost, and one whose document is replaced over a      *)
(* longer history; pages made with blocks and without.                     *)
EXTENDS PageEditing

CONSTANTS e1, e2

Overlapping ==
    [editors |-> {e1}, saves |-> 2, edits |-> 2, length |-> 3, bare |-> FALSE,
     history |-> "page", lossy |-> FALSE]
Returning ==
    [editors |-> {e1, e2}, saves |-> 1, edits |-> 1, length |-> 3, bare |-> TRUE,
     history |-> "page", lossy |-> FALSE]
Losing ==
    [editors |-> {e1}, saves |-> 1, edits |-> 2, length |-> 3, bare |-> TRUE,
     history |-> "editor", lossy |-> TRUE]
Replacing ==
    [editors |-> {e1}, saves |-> 1, edits |-> 2, length |-> 4, bare |-> TRUE,
     history |-> "editor", lossy |-> FALSE]
MCSessions == {Overlapping, Returning, Losing, Replacing}
=============================================================================
