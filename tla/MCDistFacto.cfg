SPECIFICATION Spec
CONSTANTS
    NoThread = NoThread
    Dynamic = FALSE
    Procs = {0, 1}
    ThreadNbr <- MCThreadNbr
    Cblks = {0, 1, 2, 3, 4, 5}
    Own <- MCOwn
    Edges = {1, 2, 3, 4, 5}
    Src <- MCSrc
    Dst <- MCDst
    Order <- MCOrder
INVARIANTS
    TypeOK
    RequestsTracked
    FactoComputedAfterAll
    FactoCleanExit
PROPERTIES
    FactoTerminates
