SPECIFICATION FairSpec
CONSTANTS
    Builds <- StopBuilds
    NumberTasks = 2
    OldTime = 0
    Now = 1
    StopDisks = {}
    AbortDisks = {"d"}
    UserRequests = {"shutdown", "stop"}
INVARIANTS
    NoOverlap
    StampExclusive
    StatsCounted
    WorkersCollected
    IInv
PROPERTIES
    StoppedForGood
    BuildEnds
