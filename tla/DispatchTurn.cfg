\* A reopened item queues behind its own dependent.
SPECIFICATION FairSpec
CONSTANTS
  manager = manager
  worker = worker
  NoItem = NoItem
  MaxItems = 3
  MaxEdits = 1
  Rewiring = FALSE
  Roles <- MCRoles
  Owner <- MCOwner
  Kind <- MCInner
  Reports <- MCReports
PROPERTY QueuedItemGetsItsTurn
CHECK_DEADLOCK FALSE
