SPECIFICATION Spec
CONSTANTS
    Builds <- FullBuilds
    NumberTasks = 2
    OldTime = 1
    Now = 2
    StopDisks = {"d"}
    AbortDisks = {}
    UserRequests = {}
INVARIANTS
    TypeOK
    DependenciesFirst
    MetadataOrder
    NeverStuck
    FailureContained
    CurrentAfterwards
    RerunPropagates
    SceneOrder
    SceneWaits
    SceneNeverStuck
    ExecutedOnInputs
PROPERTIES
    ImplementsOrder
