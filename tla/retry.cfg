SPECIFICATION WaitsSpec
CONSTANTS
    MaxAttemptsChoices <- MCMaxAttemptsChoices
    AttemptCap = 4
    Results <- MCResults
    RetryResults <- MCRetryResults
    Width = 8
    Second = 30
    Waits <- MCWaits
    Headers <- MCHeaders
\* A request that is done stays done.
CHECK_DEADLOCK FALSE
INVARIANTS
    TypeOK
    AttemptsBounded
    OneLateSend
    RetriesAnnounced
    EndsForAReason
    MaxWaitKept
PROPERTIES
    CancelEnds
    BoundedEnds
    WaitsAsTested
