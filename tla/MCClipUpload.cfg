\* Three clips of two parts in a queue of two, two users, any two faults.
SPECIFICATION FairSpec
CONSTANTS
  ann = ann  bob = bob
  Users = {ann, bob}
  NumClips = 3
  NumParts = 2
  MaxEntries = 2
  DailyLimit = 1
  Faults = 2
INVARIANTS
  UploadedIsWhole
  DonePartsAreUp
  StoredOnce
  NoSilentLoss
PROPERTIES
  QueuedLeaves
CHECK_DEADLOCK FALSE
