CONSTANTS
    MaxFrames = 3
    MaxCrashes = 2
    MaxDrops = 2
    MaxFaults = 0
    Kinds <- MCAllKinds
SPECIFICATION Spec
INVARIANTS
    TablesConsistent
    ProcessedIsDerived
    StopReasonsTrue
    BreaksAreRecorded
    MemoryIsReplay
PROPERTIES
    FactsInReceiveOrder
    ImplementsLedger
