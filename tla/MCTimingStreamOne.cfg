CONSTANTS
    panel = panel
    Streams <- MCOneStream
    FirstHeat = 1
    MaxEvents = 2
    MaxHeats = 2
    MaxFaults = 1
    Pruning = TRUE
    BatchSize = 2
    QueueSize = 1
    ReplayLimit = 1
SPECIFICATION FairSpec
INVARIANTS
  QueuesConsistent
  NoSilentLoss
  OneHeatPerView
PROPERTIES
  DeltasAdvance
  CatchUp
