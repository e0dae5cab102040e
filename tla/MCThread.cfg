SPECIFICATION SchedFairSpec
CONSTANTS
    Idle = Idle
    Main = Main
    InitProc = InitProc
    p1 = p1
    p2 = p2
    Threads = {Idle, Main, InitProc, p1, p2}
    Prio <- MCPrio
    MaxPid = 5
INVARIANTS SchedTypeOK ReadyListExact OneRunning IdleAvailable PidsExact
PROPERTY NoStarvation
