SPECIFICATION Spec
CONSTANTS
  Ids = {a, b}
  Patches <- SomePatches
  MaxSent = 4
  MaxFrame = 2
  MaxDrops = 1
  MaxHeats = 2
  MaxAnchors = 1
INVARIANTS
  BoardConsistent
  BoardShown
  FloorAnchored
PROPERTIES
  BackfillRepeats
CHECK_DEADLOCK FALSE
SYMMETRY Symmetry
