SPECIFICATION Spec
CONSTANTS
  parent = parent
  child = child
  ipc = ipc
  Tasks = {parent, child, ipc}
  ShareMaps = {m1}
  Objects = {A, B, C}
  NoObject = NoObject
  NoPage = NoPage
  NoMapping = NoMapping
  Size = 2
  Values = {1}
  Allocates <- ParentBoth
  Deallocates <- ChildBoth
  Inherits <- ShareFirst
  Protects <- ChildFirst
  Forks <- Family
  Copies <- ToSelf
  Exits = {child}
  Users = {parent, child}
  FirstTasks <- Beginnings
SYMMETRY Symmetry
INVARIANTS TypeOK ReferencesExact MappingsSound
PROPERTY AbsSpec
CHECK_DEADLOCK FALSE
