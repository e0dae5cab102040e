SPECIFICATION FairSpec
CONSTANTS
    Main = Main
    p1 = p1
    p2 = p2
    Clients = {p1}
    Null = Null
    Disks = {0, 1}
    NSectors = 3
    Blank = 0
    Ranges <- MCRanges
    Payload <- MCPayload
    SecsPerOp = 2
    TimeLimit = 3
PROPERTIES RequestEnds
