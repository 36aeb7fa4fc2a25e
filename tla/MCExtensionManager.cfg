CONSTANTS
    route = route
    openapi = openapi
    cors = cors
    dispatcher = dispatcher
    Ext <- MCExt
    Leads <- MCLeads
    Setup <- MCSetup
    Flaky = {dispatcher}
    Modules = 3
SPECIFICATION Spec
INVARIANTS
    AskersAreServed
    ServedInFullAndOnce
    OrderIsDeclared
PROPERTIES
    RequestsEnd
CHECK_DEADLOCK FALSE
