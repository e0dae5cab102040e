SPECIFICATION Spec
CONSTANTS
    Main = Main
    InitProc = InitProc
    p1 = p1
    Tasks = {Main, InitProc, p1}
    Null = Null
    na = na
    nb = nb
    nc = nc
    Names = {na, nb, nc}
    NInodes = 3
    MaxEntries = 2
    NSlots = 2
    NFds = 2
INVARIANTS FdBacked CountsExact DirectoryExact
CONSTRAINT Unraced
SYMMETRY Symmetry
