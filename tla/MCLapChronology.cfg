SPECIFICATION Spec
CONSTANTS
  StartWindow = 1
  LastWindow = 1
  MaxTime = 4
  MaxSent = 8
  MaxFrame = 3
  MaxRebuilds = 1
INVARIANTS
  ChronologyConsistent
PROPERTIES
  FinishCompletesLap
CHECK_DEADLOCK FALSE
