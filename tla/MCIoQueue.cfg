SPECIFICATION FairSpec
CONSTANTS
    Idle = Idle
    Main = Main
    InitProc = InitProc
    p1 = p1
    p2 = p2
    Threads = {Idle, Main, InitProc, p1}
    Prio <- MCPrio
    MaxPid = 4
    Kbd = Kbd
    Pipe = Pipe
    Null = Null
    Setups <- MCSetups
    BufSize = 3
    MaxCount = 3
    MaxChars = 3
INVARIANTS BufferExact SleeperExact LockerNotForgotten NoSleepWithData PipeBlocksFull
PROPERTIES KeyDelivered
