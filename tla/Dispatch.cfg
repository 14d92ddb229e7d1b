SPECIFICATION FairSpec
CONSTANTS
  Procs = {p1, p2}
  InitProc = p1
  CPUs = {c0, c1}
  Master = c0
  Global = Global
  NoQueue = NoQueue
  NoThread = NoThread
  NoChan = NoChan
  Channels = {a}
  NRQS = 2
  UnixCPUs <- MasterOnly
  Threads <- AllThreads
  Priorities <- AllPriorities
  ProcPriorities <- OneChanges
INVARIANTS TypeOK LoadedSaved OnePlace NobodyForgotten NoPanic
PROPERTIES SwitchEnds IdleServes
