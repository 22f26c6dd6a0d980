SPECIFICATION FairSpec
CONSTANTS
    Goroutines = {g1, g2, g3}
    Operations <- WithoutBreaker
    Nobody = Nobody
INVARIANTS
    TypeOK
    NeverReentered
    NeverStuck
PROPERTY
    OperationsReturn
