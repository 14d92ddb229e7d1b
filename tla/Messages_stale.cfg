SPECIFICATION Spec
CONSTANTS
  NumProcs = 8
  NumPorts = 5
  KMsgs = {m1, m2, m3}
  Reserve = 1
  Sends <- StaleSends
  Receives <- StaleReceives
  Deallocates <- StaleDeallocates
  Locks <- None
  Backlogs <- None
  Allocators = {3}
  Forkers = {}
  Mortals = {2}
  Signalled = {}
  Cramped = {}
  InitPort <- EndPort
  InitProc <- MCProc
SYMMETRY Symmetry
PROPERTY NobodysPortDestroyed
CHECK_DEADLOCK FALSE
