\* Two members, two crews, two channels, two SFU regions, two concurrent handlers.
SPECIFICATION Spec
CONSTANTS
  u1 = u1  u2 = u2  g1 = g1  g2 = g2  g3 = g3  p1 = p1  p2 = p2
  chA = chA  chB = chB  crewA = crewA  crewB = crewB  eu = eu  us = us
  Users = {u1, u2}
  Guests = {}
  Channels = {chA, chB}
  Crews = {crewA, crewB}
  Regions = {eu, us}
  Procs = {p1, p2}
  MaxMembers = 2
  MaxGuests = 1
  NoUser = NoUser  NoChannel = NoChannel  NoRegion = NoRegion  NoCrew = NoCrew
  Calls = {"join", "leave", "crewExit", "crewEnter", "evict"}
SYMMETRY Anyone
CONSTRAINT NobodyRaced
INVARIANTS
  SeatAgrees
  PresenceAgrees
  OccupiedRoomHasCrew
  NoSeatOutsideCrew
  FailedJoinSeatsNobody
  OpenSessionIsOccupied
  SameSFU
PROPERTIES
  ImplementsRoster
