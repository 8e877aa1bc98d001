CONSTANTS
    c1 = c1
    c2 = c2
    c3 = c3
    Nil = Nil
    Addr = {1, 2, 3}
    RandomAddr = {2}
    Fd = {4, 5, 6}
    Input <- BurstInput
    SmallTable = 6
    MaxEdges = 2
    MaxPackets = 3
    Conn = {c1}
    Script <- BurstScript
    Slots = 2
    Backlog = 2
    Mtu = 2
    Capacity = 4
    DataCells = 2
SPECIFICATION LoopSpec
INVARIANT
    BufferNeverOverflows
CHECK_DEADLOCK FALSE
