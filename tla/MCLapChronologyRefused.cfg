SPECIFICATION Spec
CONSTANTS
  StartWindow = 1
  LastWindow = 1
  MaxTime = 5
  MaxSent = 8
  MaxFrame = 3
  MaxRebuilds = 1
INVARIANT NeverFails
CHECK_DEADLOCK FALSE
