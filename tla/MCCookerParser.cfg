SPECIFICATION FairSpec
CONSTANTS
    r1 = r1
    r2 = r2
    r3 = r3
    p1 = p1
    p2 = p2
    None = None
    Recipe <- ThreeRecipes
    Process <- TwoProcesses
    Caches <- ThreeCaches
    Commands = {"parseFiles"}
    MaxCommands = 2
    MaxDeaths = 1
    MaxResets = 1
INVARIANTS
    ParseInv
    AllParsed
    NoOrphans
PROPERTIES
    CommandEnds
    ServerExits
CHECK_DEADLOCK FALSE
