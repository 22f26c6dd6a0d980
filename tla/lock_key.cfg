SPECIFICATION FairSpec
CONSTANTS
    Goroutines = {g1, g2}
    Operations <- WithBreaker
    Nobody = Nobody
CHECK_DEADLOCK FALSE
PROPERTY
    KeyIsComputed
