\* a: a module that is always there, c: one whose providers collide, k: one
\* that may fail at any moment.
CONSTANTS
    Module = {a, c, k}
    Task = {r1, r2}
    Base = {a}
    Colliding = {c}
    Flaky = {k}
    MaxInjector = 9
    NoBackup = {none}
SPECIFICATION Spec
INVARIANTS
    BaseIsRouted
    StagesFindInjectors
PROPERTIES
    EndsInService
    FailureRestores
