SPECIFICATION Spec
CONSTANTS
  Pages = {p1, p2}
  Objects = {A, B, D}
  Offsets = {o1, o2, o3}
  Maps = {m1}
  Threads = {t1, t2}
  B = B
  D = D
  m1 = m1
  m2 = m2
  t1 = t1
  t2 = t2
  o1 = o1
  o2 = o2
  Daemon = Daemon
  NoOne = NoOne
  NoPage = NoPage
  NoObject = NoObject
  ReadOnly <- Nothing
  MapOf <- OneMap
  EntryOf <- OwnEntries
  FreeMin = 0
  FreeTarget = 1
  ReclaimTarget = 2
  Touches <- LackTouch
  InitEntry <- Alone
  InitMem <- Lacking
  InitStored <- StoredElsewhere
  SpaceFound = {TRUE, FALSE}
INVARIANT BusyPageKept
