SPECIFICATION ASpec
CONSTANTS
    CblkNbr = 4
    CoreNbr = 6
    ClustNbr = 3
    Costs = {10, 60}
    BlColMin = 3
    BlColMax = 4
    Percent = 10
    Supernodes <- MCSupernodes
    Symbols <- Structures
    Candidates <- MCCandidates
    Ratio2D = 3
INVARIANTS
    CandidatesNested
    OneOrder
    AllMapped
    SplitKeepsMatrix
    MatricesAgree
