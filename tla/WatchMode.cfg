CONSTANTS
    NoProc = NoProc
    Main = m
    MaxProc = 3
    MaxBuilds = 3
    Caller = {m, r1, r2}
    CrashModes = {"code", "signal"}
    Asset = {json}
    MaxEdits = 3
SPECIFICATION WatchSpec
CHECK_DEADLOCK FALSE
INVARIANTS
    NoOrphan
PROPERTIES
    LatestBuildIsServed
    ImplementsSlot
    CallsEndIfNoticed
    AssetsAreMirrored
