CONSTANTS
    c1 = c1
    c2 = c2
    c3 = c3
    Nil = Nil
    Addr = {0, 1, 2, 5, 6}
    RandomAddr = {2}
    Fd = {4, 5, 6, 7}
    Input <- LineInput
    SmallTable = 6
    MaxEdges = 2
    MaxPackets = 1
    Conn = {c1, c2, c3}
    Script <- LinePackets
    Lines <- TwoLinks
    Command <- InOrder
    Slots = 3
    Backlog = 2
    Mtu = 1
    Capacity = 3
    DataCells = 1
SPECIFICATION CommandsSpec
PROPERTY
    ScriptTakesEffect
CHECK_DEADLOCK FALSE
