--------------------------- MODULE MCCalendarPage ---------------------------
(* Two projects, one iteration with dates and one without, for             *)
(* CalendarPage.                                                           *)
EXTENDS CalendarPage
CONSTANTS p1, p2

MCIterations == {[project |-> p1, from |-> 0, to |-> 1], [project |-> p1, from |-> 1, to |-> 0]}
MCDrafts ==
    {[project |-> p1, month |-> 0, iteration |-> i] : i \in MCIterations} \cup
    {[project |-> p2, month |-> m, iteration |-> NoIteration] : m \in 0..1}
MCExisting == {e \in MCDrafts : e.project = p1 \/ e.month = 0}
=============================================================================
