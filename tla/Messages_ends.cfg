SPECIFICATION Spec
CONSTANTS
  NumProcs = 8
  NumPorts = 5
  KMsgs = {m1, m2, m3}
  Reserve = 1
  Sends <- EndSends
  Receives <- EndReceives
  Deallocates <- EndDeallocates
  Locks <- EndLocks
  Backlogs <- EndBacklogs
  Allocators = {5}
  Forkers = {3}
  Mortals = {3}
  Signalled = {4}
  Cramped = {}
  InitPort <- EndPort
  InitProc <- MCProc
SYMMETRY Symmetry
INVARIANTS InOnePlace SleeperRemembered SecondaryMovesUp
CHECK_DEADLOCK FALSE
