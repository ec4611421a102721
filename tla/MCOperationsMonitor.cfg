CONSTANTS
    LiveMaxAge = 0
    OfflineAge = 1
    Window = 1
    ReconnectWarning = 1
    ReconnectCritical = 2
    ScanLimit = 1
    Watched <- MCWatched
    MaxTime = 2
    MaxChanges = 1
    MaxStarts = 2
SPECIFICATION Spec
INVARIANTS
  IncidentsConsistent
PROPERTIES
  ResolvedWhenAbsent
  ReadyMeansAlive
CHECK_DEADLOCK FALSE
