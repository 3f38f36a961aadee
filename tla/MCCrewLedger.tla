----------------------------- MODULE MCCrewLedger -----------------------------
(* Instances of CrewLedger for TLC.                                        *)
EXTENDS CrewLedger, TLC

CONSTANTS w1, w2, w3, e1, e2

Anyone == Permutations(Writers) \cup Permutations(Events)
=============================================================================
