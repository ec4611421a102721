\* One heat with two caution flags, clock medians that differ by one tick and
\* a reconciliation window shorter than the race.
CONSTANTS
  Cautions = {"SAFETY_CAR", "RED"}
  Offsets <- MCOffsets
  Window = 1
  MaxTime = 4
  MaxMessages = 5
  MaxLaps = 2
SPECIFICATION Spec
INVARIANTS
  TimelineConsistent
  NoCleanLapUnderCaution
PROPERTIES
  HistoryApplied
CHECK_DEADLOCK FALSE
