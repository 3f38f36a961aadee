\* Two members and three guests race for two seats, one of them for a guest.
SPECIFICATION Spec
CONSTANTS
  u1 = u1  u2 = u2  g1 = g1  g2 = g2  g3 = g3  p1 = p1  p2 = p2
  chA = chA  chB = chB  crewA = crewA  crewB = crewB  eu = eu  us = us
  Users = {u1, u2, g1, g2, g3}
  Guests = {g1, g2, g3}
  Channels = {chA}
  Crews = {crewA}
  Regions = {eu}
  Procs = {p1, p2}
  MaxMembers = 2
  MaxGuests = 1
  NoUser = NoUser  NoChannel = NoChannel  NoRegion = NoRegion  NoCrew = NoCrew
  Calls = {"join", "guestJoin", "leave"}
SYMMETRY Anyone
CONSTRAINT RacedAlone
INVARIANTS
  CapacityBounded
  SeatedGuestExpires
