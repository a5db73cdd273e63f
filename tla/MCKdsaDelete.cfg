CONSTANTS
    p1 = p1
    p2 = p2
    Procs <- MCProcs
    WordBits = 3
    IntBits = 2
    BlockCount = 4
    RandomTries = 1
    Deletable <- AllBits
    CanCrash = FALSE
SPECIFICATION Spec
INVARIANTS
    NoDoubleAllocation
SYMMETRY
    ProcSymmetry
