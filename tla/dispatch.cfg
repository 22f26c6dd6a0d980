SPECIFICATION FairSpec
CONSTANTS
    Requests = {r1, r2}
    unbuffered = unbuffered
    buffered = buffered
    Channels = {unbuffered, buffered}
    Capacity <- MCCapacity
    MaxRegistrations = 2
\* When both requests are done and nobody receives, nothing happens any more.
CHECK_DEADLOCK FALSE
INVARIANTS
    TypeOK
    EachChannelOffered
    Isolated
PROPERTY
    DispatchEnds
