CONSTANTS
  Connections = {c1, c2}
  Instances = {a}
  Handlers = {h1, h2}
  Ids = {n1, n2}
  MaxTasks = 2
  EnabledOps <- OwnerOps
  MayFail = TRUE
SPECIFICATION Spec
SYMMETRY Symmetric
INVARIANTS ListenersHear OpenIsRegistered RegisteredIsAttended ToldIsStored
PROPERTY AllMarked
CHECK_DEADLOCK FALSE
