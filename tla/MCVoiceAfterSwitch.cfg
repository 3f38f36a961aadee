\* One user with two crews of one channel each.
SPECIFICATION Spec
CONSTANTS
  crewA = crewA  crewB = crewB
  Crews = {crewA, crewB}
  ChannelsPerCrew = 1
  FirstDelay = 1
  SecondDelay = 1
  MaxGap = 1
  GiveUpAfter = 2
  TokenLife = 2
  ConnectLimit = 1
  SessionLimit = 1
INVARIANTS
  MicOnlyOnRequest
CHECK_DEADLOCK FALSE
