SPECIFICATION Spec
CONSTANTS
  TailLaps = 2
  Second = 2
  Interval = 3
  MaxFrames = 4
  MaxLaps = 3
  MaxChanges = 3
  MaxFailures = 2
INVARIANTS
  MetricsConsistent
  CountsWhole
PROPERTIES
  RetryIsNoOp
CHECK_DEADLOCK FALSE
