CONSTANTS
    v1 = v1
    v2 = v2
    Fill = Fill
    Junk = Junk
    Cells <- MCCells
    Cubes <- MCCubes
    Values <- MCValues
    HasFill = FALSE
    MayFail = {"commit"}
    WritebackRatio = 1
    ReadCalls = {"read"}
SPECIFICATION Spec
INVARIANTS
    SuccessfulWriteStored
SYMMETRY
    ValueSymmetry
