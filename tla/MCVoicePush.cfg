\* Two goroutines and the loop push two channels; the server restarts once.
SPECIFICATION FairPushSpec
CONSTANTS
  p1 = p1  p2 = p2  loop = loop
  Pushers = {p1, p2}
  Loop = loop
  NumChannels = 2
  Window = 1000
  MaxChanges = 3
  MaxRestarts = 1
INVARIANTS
  NewestSeqShown
PROPERTIES
  ChangeIsPushed
CHECK_DEADLOCK FALSE
