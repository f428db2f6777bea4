\* Fair dispatching of items that no reviewer has to see.
SPECIFICATION FairSpec
CONSTANTS
  manager = manager
  worker = worker
  NoItem = NoItem
  MaxItems = 3
  MaxEdits = 1
  Rewiring = FALSE
  Roles <- MCRoles
  Owner <- MCOwner
  Kind <- MCInner
  Reports <- MCReports
PROPERTIES
  DueItemIsTaken
  SatisfiedItemIsReleased
CHECK_DEADLOCK FALSE
