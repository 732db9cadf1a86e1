SPECIFICATION FairSpec
CONSTANTS
    r1 = r1
    r2 = r2
    r3 = r3
    p1 = p1
    p2 = p2
    None = None
    Recipe <- ThreeRecipes
    Process <- TwoProcesses
    Caches <- ThreeCaches
    Commands = {"compareRevisions"}
    MaxCommands = 1
    MaxDeaths = 1
    MaxResets = 0
PROPERTIES
    ServerExits
CHECK_DEADLOCK FALSE
