SPECIFICATION Spec
CONSTANTS
    Impl <- MCImpl
    Deps <- MCDeps
    Alias = {}
    InjectorId <- MCInjectorId
    Parent <- MCParent
    Kind <- MCKind
    Apps <- MCApps
    MaxInit = 2
INVARIANTS
    ImportsAreWired
    CollisionsFound
PROPERTIES
    WiringIsStable
CHECK_DEADLOCK FALSE
