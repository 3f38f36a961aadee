\* Two starts, or a start and a loss of the socket, or two losses; one lost RPC.
SPECIFICATION FairSpec
CONSTANTS
  MaxTurns = 2
  MaxFaults = 1
INVARIANTS
  OneEventPerStream
  LiveIsFound
  CarriedIsHosted
PROPERTIES
  AbsentHostIsNotShown
CHECK_DEADLOCK FALSE
