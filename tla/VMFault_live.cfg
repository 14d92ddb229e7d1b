SPECIFICATION FairSpec
CONSTANTS
  Pages = {p1, p2}
  Objects = {A, B}
  Offsets = {o1, o2}
  Maps = {m1, m2}
  Threads = {t1, t2}
  B = B
  D = D
  m1 = m1
  m2 = m2
  t1 = t1
  t2 = t2
  o1 = o1
  o2 = o2
  Daemon = Daemon
  NoOne = NoOne
  NoPage = NoPage
  NoObject = NoObject
  ReadOnly <- Nothing
  MapOf <- OneMap
  EntryOf <- OwnEntries
  FreeMin = 0
  FreeTarget = 1
  ReclaimTarget = 2
  Touches <- LiveTouch
  InitEntry <- Forked
  InitMem <- Paged
  InitStored <- StoredAtO1
  SpaceFound = {TRUE}
INVARIANTS TypeOK OnePage FlagsTellQueue
PROPERTY FaultEnds
