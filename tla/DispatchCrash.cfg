\* The release of a reworked dependent is an illegal write.
SPECIFICATION Spec
CONSTANTS
  manager = manager
  worker = worker
  NoItem = NoItem
  MaxItems = 2
  MaxEdits = 1
  Rewiring = FALSE
  Roles <- MCRoles
  Owner <- MCOwner
  Kind <- MCKind
  Reports <- MCReports
INVARIANT LoopSurvives
CHECK_DEADLOCK FALSE
