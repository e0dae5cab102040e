SPECIFICATION FairSpec
CONSTANTS
    Idle = Idle
    Main = Main
    InitProc = InitProc
    p1 = p1
    l1 = l1
    l2 = l2
    Threads = {Idle, Main, InitProc, p1}
    Locks = {l1}
    Null = Null
    Prio <- MCPrio
    MaxPid = 4
    MaxRepeat = 2
INVARIANTS SyncAsserts WaitersExact NoLostWakeup
PROPERTIES ThreadSpec MutexSpec FreeLockTaken
