SPECIFICATION Spec
CONSTANTS
  m1 = m1
  m2 = m2
  m3 = m3
  r1 = r1
  NoOne = NoOne
  Messages <- MCPair
  Runs <- MCRuns
  MaxStops = 2
  MaxRestarts = 1
CHECK_DEADLOCK FALSE
INVARIANTS
  TypeOK
  SerialUntilQueued
  NoGhostRunning
  StoppedStaysResumable
PROPERTY WaiterIsServed
