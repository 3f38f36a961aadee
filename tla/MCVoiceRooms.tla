---------------------------- MODULE MCVoiceRooms ----------------------------
(* Instances of VoiceRooms for TLC: members, guests, channels, crews, regions *)
(* and processes are interchangeable.                                      *)
EXTENDS VoiceRooms, TLC

CONSTANTS u1, u2, g1, g2, g3, p1, p2, chA, chB, crewA, crewB, eu, us

Anyone ==
  Permutations(Users \ Guests) \cup Permutations(Guests)
  \cup Permutations(Channels) \cup Permutations(Crews)
  \cup Permutations(Regions) \cup Permutations(Procs)

(* The runs about unraced users stop where two handlers work for one user. *)
NobodyRaced == raced = {}

(* As NobodyRaced, and handlers may overlap for a user while nobody else has  *)
(* been in voice.                                                          *)
RacedAlone ==
  raced = {} \/ \E u \in Users : /\ raced = {u}
                              /\ \A v \in Users \ {u} : Quiet(v) /\ status[v] = "offline"
=============================================================================
