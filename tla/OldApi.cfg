SPECIFICATION Spec
CONSTANTS
    MaxOrders = 3
    MaxAnalyses = 2
    MaxValues = 2
    Schedulers = {"dynamic", "parsec"}
    Prudence = {"order", "release", "values"}
INVARIANTS
    StepsMeanData
    SolverMemory
    SameFamily
    SolveAnswers
