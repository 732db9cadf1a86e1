SPECIFICATION FairSpec
CONSTANTS
    Builds <- LiveBuilds
    NumberTasks = 2
    OldTime = 0
    Now = 1
    StopDisks = {"d1"}
    AbortDisks = {"d2"}
    UserRequests = {}
PROPERTIES
    AbortEnds
