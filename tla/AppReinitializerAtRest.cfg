\* The modules of AppReinitializer.cfg.
CONSTANTS
    Module = {a, c, k}
    Task = {r1, r2}
    Base = {a}
    Colliding = {c}
    Flaky = {k}
    MaxInjector = 9
    NoBackup = {none}
SPECIFICATION Spec
INVARIANTS
    BaseIsRoutedAtRest
