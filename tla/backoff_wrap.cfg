SPECIFICATION WaitsSpec
CONSTANTS
    MaxAttemptsChoices <- OneChoice
    AttemptCap = 10
    Results <- MCResults
    RetryResults <- MCRetryResults
    Width = 8
    Second = 30
    Waits <- MCWaits
    Headers <- MCHeaders
\* A request that is done stays done.
CHECK_DEADLOCK FALSE
PROPERTY NeverSooner
