SPECIFICATION Spec
CONSTANTS
    na = na
    nb = nb
    pa = pa
    pb = pb
    pc = pc
    Names = {na, nb}
    Programs <- MCPrograms
    Dot = Dot
    DotDot = DotDot
    Null = Null
    NInodes = 7
    NBlocks = 5
    NDirect = 2
    NIndirect = 2
    PerBlock = 3
    MaxPath = 2
INVARIANT NoStaleInode
CHECK_DEADLOCK FALSE
