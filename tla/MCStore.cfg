SPECIFICATION Spec
CONSTANTS
    na = na
    nb = nb
    Names = {na, nb}
    Null = Null
    NFiles = 2
    NBlocks = 5
    NDirect = 1
    NIndirect = 2
    BlockSize = 2
    MaxCount = 3
    MaxCrashes = 1
INVARIANTS   NothingLeaks
SYMMETRY Symmetry
CHECK_DEADLOCK FALSE
VIEW InUse
