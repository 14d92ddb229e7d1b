SPECIFICATION FairSpec
CONSTANTS
  NumProcs = 8
  NumPorts = 4
  KMsgs = {m1, m2, m3}
  Reserve = 1
  Sends <- LiveSends
  Receives <- LiveReceives
  Deallocates <- None
  Locks <- None
  Backlogs <- None
  Allocators = {}
  Forkers = {}
  Mortals = {2}
  Signalled = {}
  Cramped = {}
  InitPort <- LivePort
  InitProc <- LiveProc
PROPERTIES ExitEnds SendEnds
CHECK_DEADLOCK FALSE
