SPECIFICATION Spec
CONSTANTS
    Classes <- MCClasses
    Apps <- MCApps
    Reached <- MCReached
    Guards <- MCGuards
    Interceptors <- MCInterceptors
    Scripts <- MCScripts
    Service = "service"
    Object = Object
    Delegated = Delegated
    Unknown = Unknown
    ParentParams = ParentParams
    MaxInit = 2
    methodsOf <- MCMethodsOf
    decoratorsOf <- MCDecoratorsOf
    prototypeOf <- Prototype
    functionOf <- Function
    dependsOn <- MCDependsOn
    canResolve <- CanResolve
    perReqOf <- MCPerReqOf
    factoriesOf <- MCFactoriesOf
INVARIANTS
    PathsServeTheirMethods
    ResolverIsGuarded
    HandlersGetTheirParams
CHECK_DEADLOCK FALSE
