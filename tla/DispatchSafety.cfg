\* One manager, one worker serving two items, one edit.  A crashed loop stops.
SPECIFICATION Spec
CONSTANTS
  manager = manager
  worker = worker
  NoItem = NoItem
  MaxItems = 3
  MaxEdits = 1
  Rewiring = TRUE
  Roles <- MCRoles
  Owner <- MCOwner
  Kind <- MCKind
  Reports <- MCReports
INVARIANTS
  TypeOK
  NoLostWakeup
  BlockedHasWaker
PROPERTIES
  FinishedStaysFinished
  ReleasedAfterItsDependencies
  QueuedBehindSomething
  ImplementsBoard
CHECK_DEADLOCK FALSE
