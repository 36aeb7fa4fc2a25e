CONSTANTS
    cronA = cronA
    cronB = cronB
    pulse = pulse
    once = once
    s1 = s1
    s2 = s2
    p1 = p1
    p2 = p2
    n1 = n1
    dsm = dsm
    Manager = dsm
    a = a
    b = b
    Name = {a, b}
    OptionLists <- MCOptionLists
    RetryAttempts = 1
    MaxGeneration = 3
    MaxSource = 5
    Job <- MCJob
    Declared = {cronA, pulse}
    Timeout = {once}
    Delayed = {cronA}
    Disabled = {}
    key <- MCKey
    Service = {s1, s2, dsm}
    Aliased = {s2}
    Caller = {p1, p2}
    Connection = {n1}
SPECIFICATION AppSpec
INVARIANTS
    JobsRunWhileRegistered
    ShutdownInOrder
    StartedWithIsDestroyed
PROPERTIES
    CallsEnd
CHECK_DEADLOCK FALSE
