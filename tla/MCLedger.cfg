\* Three goroutines on an existing ledger, storage calls that fail, events that age.
SPECIFICATION Spec
CONSTANTS
  w1 = w1  w2 = w2  w3 = w3  e1 = e1  e2 = e2
  Writers = {w1, w2, w3}
  Events = {e1, e2}
  Attempts = 3
  Retention = 1
  StartsEmpty = FALSE
  MaxTime = 2
  MaxReadFaults = 1
  MaxWriteFaults = 1
SYMMETRY Anyone
INVARIANTS
  AckedIsKept
  GoneStaysGone
PROPERTIES
  ImplementsEventLog
CHECK_DEADLOCK FALSE
