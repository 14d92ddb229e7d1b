SPECIFICATION RQSpec
CONSTANTS
  Threads = {t1, t2, t3}
  CPUs = {c1, c2}
  Global = Global
  NoQueue = NoQueue
  NoThread = NoThread
  NRQS = 3
  Priorities <- MCPriorities
SYMMETRY Symmetry
INVARIANTS WhereItSays HintBelow CountExact BestChosen
