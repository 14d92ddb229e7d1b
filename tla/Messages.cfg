SPECIFICATION Spec
CONSTANTS
  NumProcs = 8
  NumPorts = 5
  KMsgs = {m1, m2, m3}
  Reserve = 0
  Sends <- AllSends
  Receives <- AllReceives
  Deallocates <- None
  Locks <- None
  Backlogs <- None
  Allocators = {}
  Forkers = {}
  Mortals = {}
  Signalled = {}
  Cramped <- AllCramped
  InitPort <- RightsPort
  InitProc <- MCProc
SYMMETRY Symmetry
INVARIANTS TypeOK NumQueuedExact TransitCarried
PROPERTY AbsSpec
CHECK_DEADLOCK FALSE
