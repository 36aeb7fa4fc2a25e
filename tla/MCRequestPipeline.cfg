SPECIFICATION Spec
CONSTANTS
    Apps <- MCApps
    Method <- MCMethod
    Accepted <- MCAccepted
    Scripts <- MCScripts
INVARIANTS
    RequestsAreAnswered
    GuardsComeFirst
    HeadAndOptionsFollow
    EquippedOnce
CHECK_DEADLOCK FALSE
