\* Three sessions, the first refused; a broken connection, a crash, a failing save, one server failure.
SPECIFICATION FairSpec
CONSTANTS
  h1 = h1  h2 = h2
  NumSessions = 3
  Refused = {1}
  Handlers = {h1, h2}
  MaxEntries = 2
  MaxAttempts = 2
  MaxLost = 1
  MaxCrashes = 1
  MaxDrops = 1
  SaveFaults = 1
  ServerFaults = 1
INVARIANTS
  RecordedOnce
  AcceptedIsRecorded
  NoneVanishes
PROPERTIES
  EndedIsRecorded
CHECK_DEADLOCK FALSE
