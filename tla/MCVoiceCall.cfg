\* Two crews of two channels; short delays in the proportions of the code.
SPECIFICATION FairSpec
CONSTANTS
  crewA = crewA  crewB = crewB
  Crews = {crewA, crewB}
  ChannelsPerCrew = 2
  FirstDelay = 1
  SecondDelay = 2
  MaxGap = 3
  GiveUpAfter = 6
  TokenLife = 5
  ConnectLimit = 2
  SessionLimit = 2
INVARIANTS
  LeftStaysLeft
  OneChannel
  AttemptsEnd
  TalkingIsSeated
PROPERTIES
  DropEnds
CHECK_DEADLOCK FALSE
