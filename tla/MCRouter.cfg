CONSTANTS
    Route <- Paths
    Probe <- Requested
    MaxRoutes = 5
SPECIFICATION Spec
INVARIANTS
    FindIsMatching
PROPERTIES
    RefusesConflictsOnly
CHECK_DEADLOCK FALSE
