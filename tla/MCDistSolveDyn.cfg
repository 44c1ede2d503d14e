SPECIFICATION Spec
CONSTANTS
    NoThread = NoThread
    Dynamic = TRUE
    CopySent = TRUE
    Procs = {0, 1}
    ThreadNbr <- MCSmallThreadNbr
    Cblks = {0, 1, 2}
    Own <- MCSmallOwn
    Edges = {1, 2}
    Src <- MCSmallSrc
    Dst <- MCSmallDst
    Order <- MCSmallOrder
PROPERTIES
    SolveTerminates
    ImplementsTriangularSolve
