\* A manager and a worker with one item; one edit, one stop, one end of the process.
SPECIFICATION FairSuspendSpec
CONSTANTS
  manager = manager
  worker = worker
  NoItem = NoItem
  MaxItems = 2
  MaxEdits = 1
  Rewiring = FALSE
  MaxStops = 1
  MaxCrashes = 1
  Roles <- MCRoles
  Owner <- MCOwner
  Kind <- MCKind
  Reports <- MCReports
INVARIANTS
  SuspendTypeOK
  HeldWorkHasCheckpoint
  ResumedParentWakes
PROPERTIES
  DecisionsSurviveResume
  StrandedWorkIsTaken
CHECK_DEADLOCK FALSE
