CONSTANTS
    p1 = p1
    p2 = p2
    Procs <- MCProcs
    WordBits = 3
    IntBits = 2
    BlockCount = 4
    RandomTries = 1
    Deletable <- LowBits
    CanCrash = TRUE
SPECIFICATION Spec
INVARIANTS
    NoDoubleAllocation
    UsedIsMarked
    MarkedIsUsed
    ClaimsExist
SYMMETRY
    ProcSymmetry
