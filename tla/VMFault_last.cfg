SPECIFICATION Spec
CONSTANTS
  Pages = {p1, p2, p3}
  Objects = {A, B, D}
  Offsets = {o1, o2}
  Maps = {m1}
  Threads = {t1, t2}
  B = B
  D = D
  m1 = m1
  m2 = m2
  t1 = t1
  t2 = t2
  o1 = o1
  o2 = o2
  Daemon = Daemon
  NoOne = NoOne
  NoPage = NoPage
  NoObject = NoObject
  ReadOnly <- Nothing
  MapOf <- OneMap
  EntryOf <- OwnEntries
  FreeMin = 0
  FreeTarget = 1
  ReclaimTarget = 2
  Touches <- LastTouch
  InitEntry <- Alone
  InitMem <- Below
  InitStored <- StoredBelow
  SpaceFound = {TRUE, FALSE}
INVARIANTS BusyPageKept Unmapped ReferencesExact InAList NoneHidden
PROPERTY SpaceKept
