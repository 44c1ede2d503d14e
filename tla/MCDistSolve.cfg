SPECIFICATION Spec
CONSTANTS
    NoThread = NoThread
    Dynamic = FALSE
    CopySent = FALSE
    Procs = {0, 1, 2}
    ThreadNbr <- MCThreadNbr
    Cblks = {0, 1, 2, 3, 4}
    Own <- MCOwn
    Edges = {1, 2, 3, 4, 5}
    Src <- MCSrc
    Dst <- MCDst
    Order <- MCOrder
INVARIANTS
    StepsApart
    StepCleanExit
PROPERTIES
    SentUnchanged
    ImplementsTriangularSolve
