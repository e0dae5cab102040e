SPECIFICATION Spec
CONSTANTS
    Idle = Idle
    Main = Main
    InitProc = InitProc
    p1 = p1
    p2 = p2
    p3 = p3
    Threads = {Idle, Main, InitProc, p1, p2, p3}
    Prio <- MCPrio
    MaxPid = 6
INVARIANT InitMissesNoOrphan
