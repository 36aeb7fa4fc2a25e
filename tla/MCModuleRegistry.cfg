CONSTANTS
    root = root
    a = a
    b = b
    c = c
    d = d
    t1 = t1
    t2 = t2
    t3 = t3
    NoGraph = NoGraph
    Nobody = Nobody
    Root = root
    Mod <- MCMod
    Imports <- MCImports
    Exports <- MCExports
    WithId <- MCWithId
    PerApp <- MCPerApp
    Malformed <- MCMalformed
    Requests <- MCRequests
    Token <- MCToken
    Declares <- MCDeclares
    Resolved <- MCResolved
SPECIFICATION RegistrySpec
INVARIANTS
    DerivedInStep
    ScanComputes
PROPERTIES
    RemovalLeavesNoOrphan
    AddFailsForCause
    IsTransactional
    NoTakeover
