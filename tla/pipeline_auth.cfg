SPECIFICATION Spec
CONSTANTS
    Callers = {c1}
    Setters = {g1}
    Middleware = {m1}
    Statuses <- MCStatuses
    Valid <- MCValid
INVARIANTS
    SafeForConcurrentUse
CHECK_DEADLOCK FALSE
