----------------------------- MODULE MCAIPanel -----------------------------
(* The panel on two projects, for AIPanel.                                 *)
EXTENDS AIPanel
CONSTANTS p1, p2
=============================================================================
