SPECIFICATION Spec
CONSTANTS
    CblkNbr = 5
    CblkSchur = 3
    FBlok <- MCFBlok
    FCblk <- MCFCblk
    Priority <- MCPriority
    Modes = {"local", "interface", "schur"}
    ThreadNbr = 2
    NoCblk = NoCblk
INVARIANTS
    ComputesInOrder
    QueuesEmptyAtExit
PROPERTIES
    StepsTerminate
