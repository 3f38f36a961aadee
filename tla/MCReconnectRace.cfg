\* A reconnect while the server cleans up after the lost socket.
SPECIFICATION Spec
CONSTANTS
  u1 = u1  crewA = crewA  crewB = crewB  noCrew = noCrew
  h1 = h1  h2 = h2  h3 = h3
  Users = {u1}
  Crews = {crewA, crewB}
  NoCrew = noCrew
  Handlers = {h1, h2}
  MaxDrops = 1
  MaxSelects = 1
  GivesUp = FALSE
SYMMETRY Anyone
INVARIANTS
  ReconnectRestoresCrew
CHECK_DEADLOCK FALSE
