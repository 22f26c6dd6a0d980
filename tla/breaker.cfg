SPECIFICATION FairSpec
CONSTANTS
    Callers = {c1, c2, c3, c4, c5}
    Panicking = {c1}
    Results <- MCResults
    TripResults <- MCTripResults
    ConfFailureThreshold = 3
    ConfSuccessThreshold = 3
    ConfTimeout = 2
    ConfHalfOpenMaxRequests = 0
    ConfWindowSize = 3
INVARIANTS
    TypeOK
    ClosedBelowThreshold
    ProbeAccounting
    ProbesBounded
    RefusesForProbes
PROPERTIES
    ImplementsPromise
    OpenIsLeft
    HalfOpenResolves
