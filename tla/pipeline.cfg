SPECIFICATION FairSpec
CONSTANTS
    Callers = {c1, c2}
    Setters = {g1}
    Middleware = {m1, m2}
    Statuses <- MCStatuses
    Valid <- MCValid
INVARIANTS
    TypeOK
    MetricsMatchReturn
    EventsMatchReturn
    MiddlewareInOrder
PROPERTY
    CallsReturn
\* When every call has ended and nothing is left to register, nothing happens any more.
CHECK_DEADLOCK FALSE
