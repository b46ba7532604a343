SPECIFICATION Spec
CONSTANTS
    Proc = {p1, p2}
    KERNEL = KERNEL
    Archives <- MCArchives
    HEADER = 1
    InitPath <- MCInitPath
    Paths <- MCPaths
    Offsets = {0, 2}
    Dirs = {2, 4}
    MaxFd = 2
    MaxFcb = 3
SYMMETRY ProcSymmetry
CHECK_DEADLOCK FALSE
INVARIANTS
    RefsCounted
    ArchiveMounted
PROPERTIES
    ResolveAgrees
    DescriptorsStable
