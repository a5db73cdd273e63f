CONSTANTS
    v1 = v1
    v2 = v2
    Fill = Fill
    Junk = Junk
    Cells <- MCCells
    Cubes <- MCFewCubes
    Values <- MCValues
    HasFill = FALSE
    MayFail = {"load", "commit"}
    WritebackRatio = 1
    ReadCalls = {"read", "read_grid"}
SPECIFICATION Spec
INVARIANTS
    CacheCoherent
    ReadStaysInRegion

    
SYMMETRY
    ValueSymmetry
