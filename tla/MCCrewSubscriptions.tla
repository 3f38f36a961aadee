------------------------- MODULE MCCrewSubscriptions -------------------------
(* Instances of CrewSubscriptions for TLC.                                 *)
EXTENDS CrewSubscriptions, TLC

CONSTANTS u1, crewA, crewB, noCrew, h1, h2, h3

Anyone == Permutations(Users) \cup Permutations(Crews) \cup Permutations(Handlers)
=============================================================================
