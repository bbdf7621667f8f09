------------------------------ MODULE MCForms ------------------------------
(* Every form of the client, for Forms.                                    *)
EXTENDS Forms, FormTables

MCKnownLosses == Refilled \cup LateClosed \cup Moved \cup Dropped \cup Emptied

\* What the theorems of ScreensProofs assume of the table; no exception is idle.
ASSUME TableAssumption ==
    /\ Locked /\ Attentive /\ Retentive
    /\ \A f \in FormRows : /\ f.name \in KnownDoubles => ~Once(f)
                           /\ f.name \in KnownStale => ~Current(f)
                           /\ f.name \in KnownLosses => ~Retains(f)
=============================================================================
