SPECIFICATION Spec
CONSTANTS
    Impl <- MCImpl
    Deps <- MCDeps
    Alias <- MCAlias
    InjectorId <- MCInjectorId
    Parent <- MCParent
    Token <- MCToken
    Layouts <- MCLayouts
    Throwing <- MCThrowing
    Void <- MCVoid
    Requests = {3, 4}
    MaxDepth = 12
INVARIANTS
    GetsWhatCanBeBuilt
    CheckedMeansBuilt
    InstancesAreSound
CHECK_DEADLOCK FALSE
