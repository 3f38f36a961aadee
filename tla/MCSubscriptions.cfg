\* One user with failing calls and lost sockets, three handlers.
SPECIFICATION Spec
CONSTANTS
  u1 = u1  crewA = crewA  crewB = crewB  noCrew = noCrew
  h1 = h1  h2 = h2  h3 = h3
  Users = {u1}
  Crews = {crewA, crewB}
  NoCrew = noCrew
  Handlers = {h1, h2, h3}
  MaxDrops = 2
  MaxSelects = 3
  GivesUp = TRUE
SYMMETRY Anyone
INVARIANTS
  IndexIsSubscribed
  OpenCrewIsPushed
CHECK_DEADLOCK FALSE
