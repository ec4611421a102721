SPECIFICATION Spec
CONSTANTS
  MaxTime = 2
  MaxSent = 6
  MaxFrame = 3
  MaxDrops = 1
INVARIANTS
  PitLedgerConsistent
  CleanAvoidsPit
PROPERTIES
  HistoryFrozen
CHECK_DEADLOCK FALSE
