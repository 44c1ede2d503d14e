SPECIFICATION TaskSpec
CONSTANTS
    Procs <- MCProcs
    ThreadNbr <- MCThreadNbr
    Cblks = {0, 1, 2, 3, 4, 5, 6}
    Own <- MCOwn
    Edges = {1, 2, 3, 4, 5, 6, 7, 8, 9, 10}
    Src <- MCSrc
    Dst <- MCDst
    Order <- MCOrder
    Perm <- MCPerm
    Layouts <- MCLayouts
INVARIANTS
    Answered
PROPERTIES
    BlockingImplementsTriangularSolve
    TaskTerminates
