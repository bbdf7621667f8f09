--------------------------- MODULE MCRiskRegister ---------------------------
(* Instances of RiskRegister for TLC.                                       *)
EXTENDS RiskRegister, TLC

Symmetry == Permutations(Users) \cup Permutations(Ids)
=============================================================================
