SPECIFICATION Spec
CONSTANTS
    CblkNbr = 5
    CblkSchur = 3
    FBlok <- MCFBlok
    FCblk <- MCFCblk
    Priority <- MCPriority
    ThreadNbr = 3
    NoCblk = NoCblk
    Cblks <- CblkSet
    Skipped <- FactoSkipped
    Edges <- FactoEdges
    Src <- FactoSrc
    Dst <- FactoDst
    Ctrb <- FactoCtrb
    Key <- MCPriority
    Owner <- MCOwner
    TaskCnt <- FactoTaskCnt
INVARIANTS
    OnePlace
    ComputedAfterAll
    StopsWhenDone
    StealsLiveQueues
PROPERTIES
    ImplementsTaskDag
    LoopTerminates
