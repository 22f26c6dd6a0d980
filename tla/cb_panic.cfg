SPECIFICATION FairSpec
CONSTANTS
    Callers = {c1, c2}
    Panicking = {c1, c2}
    Results <- MCResults
    TripResults <- MCTripResults
    ConfFailureThreshold = 2
    ConfSuccessThreshold = 2
    ConfTimeout = 2
    ConfHalfOpenMaxRequests = 1
    ConfWindowSize = 1
PROPERTY
    HalfOpenAlwaysResolves
