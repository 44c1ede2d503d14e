SPECIFICATION Spec
CONSTANTS
    Master = m
    Workers = {w1, w2, w3}
    Threads = {m, w1, w2, w3}
    GenMod = 2
    MaxWaits = 8
    Phases = 2
    MaxCalls = 2
INVARIANTS
    BarrierInv
    BarrierSafe
    UnlockedWriteSafe
PROPERTIES
    EveryWaitReturns
    ImplementsParallelCall
    FinalizeReturns
