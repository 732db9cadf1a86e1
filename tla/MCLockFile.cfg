SPECIFICATION FairSpec
CONSTANTS
    p1 = p1
    p2 = p2
    p3 = p3
    i1 = i1
    i2 = i2
    i3 = i3
    NoInode = NoInode
    Process <- ThreeProcesses
    Inode <- ThreeInodes
    Calls <- AllCalls
    DropsFirst = {TRUE, FALSE}
INVARIANTS
    LockInv
    MutualExclusion
    CleanedUp
PROPERTIES
    Progress
