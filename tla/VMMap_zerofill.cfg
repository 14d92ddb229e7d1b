SPECIFICATION Spec
CONSTANTS
  parent = parent
  child = child
  ipc = ipc
  Tasks = {parent, child, ipc}
  ShareMaps = {m1}
  Objects = {A, B, C}
  NoObject = NoObject
  NoPage = NoPage
  NoMapping = NoMapping
  Size = 2
  Values = {1}
  Allocates <- ChildAgain
  Deallocates <- ChildSecond
  Inherits <- Nothing
  Protects <- Nothing
  Forks <- Family
  Copies <- Nothing
  Exits = {child}
  Users = {parent, child}
  FirstTasks = {{parent}}
SYMMETRY Symmetry
PROPERTY ZeroFilled
CHECK_DEADLOCK FALSE
