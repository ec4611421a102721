CONSTANTS
    igora = igora
    moscow = moscow
    k1 = k1
    k2 = k2
    NoKey = NoKey
    Absent = Absent
    Sources <- MCSources
    Keys <- MCKeys
    Modes <- MCModes
    Durations <- MCDurations
    Pits <- MCPits
    MaxSessions = 2
    MaxRequests = 5
SYMMETRY MCSymmetry
SPECIFICATION Spec
INVARIANTS
  OneActivePerSource
  KeyedOnce
  AuditConsistent
  AnswersWereTrue
PROPERTIES
  ClosedIsFinal
