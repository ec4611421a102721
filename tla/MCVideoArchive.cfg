SPECIFICATION Spec
CONSTANTS
  NPieces = 3
  MergeGap = 0
  RepairGap = 1
  MaxTime = 5
  MaxLength = 1
  MaxFaults = 1
  MaxInputs = 4
INVARIANTS
  ArchiveConsistent
  NothingLost
