SPECIFICATION FairSpec
CONSTANTS
    Callers = {t1, t2}
    Versions = {v1, v2}
    Runtimes = {r1, r2, r3}
    None = None
INVARIANTS
    OneRuntime
PROPERTIES
    SweptIsLate
    PendingSettles
CHECK_DEADLOCK FALSE
