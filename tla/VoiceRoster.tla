----------------------------- MODULE VoiceRoster -----------------------------
(***************************************************************************)
(* What the voice roster promises the crew: a user sits in at most one     *)
(* channel, and one roster change seats or unseats one user.  A switch is  *)
(* therefore seen as a leave and then a join, never as a jump and never as *)
(* two seats.  The promise ends for a user two handlers have worked on at  *)
(* the same time: the roster has Lost such a user.                         *)
(***************************************************************************)
CONSTANTS Users, Channels, NoChannel, Lost

VARIABLE seat

TypeOK == seat \in [Users -> Channels \cup {NoChannel, Lost}]

Init == seat = [u \in Users |-> NoChannel]

Enter(u, ch) ==
  /\ seat[u] = NoChannel
  /\ seat' = [seat EXCEPT ![u] = ch]

Quit(u) ==
  /\ seat[u] \in Channels
  /\ seat' = [seat EXCEPT ![u] = NoChannel]

Lose(u) == seat' = [seat EXCEPT ![u] = Lost]

Next ==
  \E u \in Users : Quit(u) \/ Lose(u) \/ \E ch \in Channels : Enter(u, ch)

Spec == Init /\ [][Next]_seat
=============================================================================
