\* Two users, two crews, a map that every submit sweeps, timers that may run late.
SPECIFICATION FairSpec
CONSTANTS
  u1 = u1  u2 = u2  crewA = crewA  crewB = crewB
  Users = {u1, u2}
  Crews = {crewA, crewB}
  Window = 2
  SweepAt = 1
  MaxTime = 7
  MaxMentions = 5
INVARIANTS
  HeldIsWaiting
  HeldHasOneTimer
  NewestOpens
PROPERTIES
  OncePerWindow
  HeldIsPushed
CHECK_DEADLOCK FALSE
