SPECIFICATION Spec
CONSTANTS
  m1 = m1
  m2 = m2
  m3 = m3
  r1 = r1
  NoOne = NoOne
  Messages <- MCThree
  Runs <- MCNoRuns
  MaxStops = 0
  MaxRestarts = 0
CHECK_DEADLOCK FALSE
INVARIANT OneAtATime
