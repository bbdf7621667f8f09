------------------------------ MODULE MCViews ------------------------------
(* Every view of the client, for Views.                                    *)
EXTENDS Views, ViewTables

\* What the theorem EmptyIsToldHolds of ScreensProofs assumes of the table; no exception is idle.
ASSUME TableAssumption == Careful /\ \A v \in ViewRows : v.name \in KnownFalse => ~Waits(v)
=============================================================================
