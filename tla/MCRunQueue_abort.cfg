SPECIFICATION Spec
CONSTANTS
    Builds <- LiveBuilds
    NumberTasks = 2
    OldTime = 0
    Now = 1
    StopDisks = {}
    AbortDisks = {}
    UserRequests = {"shutdown", "stop"}
INVARIANTS
    AbortStopsWorkers
