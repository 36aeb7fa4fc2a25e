SPECIFICATION Spec
CONSTANTS
    Rest = "rest"
    Host <- MCHost
    HostImports <- MCHostImports
    Apps <- MCApps
    MaxInit = 2
INVARIANTS
    ServedAsDeclared
    AspectsAreInherited
CHECK_DEADLOCK FALSE
