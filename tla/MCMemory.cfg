SPECIFICATION Spec
CONSTANTS
    Kernel = Kernel
    InitProc = InitProc
    Null = Null
    p1 = p1
    Procs = {InitProc, p1}
    KPages = 13
    UFrames = 5
    UPages = 3
    PagesPerTable = 2
    PgSize = 2
    BmpBytes = 3
    BlocksPerArena = 2
    MaxHeld = 2
INVARIANTS TypeOK FramesExact PagesMapped OwnedOrLost HeapExact
