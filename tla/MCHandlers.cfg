CONSTANTS
    Addr = {1, 2}
    RandomAddr = {2}
    Fd = {4, 5}
    Input <- AllInput
    SmallTable = 1
    MaxEdges = 3
    MaxPackets = 4
    FewEdges = 2
    FewPackets = 1
    Config <- AnyConfig
    Source = {1, 2, 3}
    Issued = 2
    Inner <- InnerAddresses
    Script <- LineScript
    Streams = 3
    Capacity = 6
    Mtu = 2
    PipeSize = 2
    MaxData = 2
SPECIFICATION HandlersSpec
INVARIANTS
    TypeOK
    CopiesFollowEdges
    ContractKept
    RoundRobinTakesTurns
    SinksAreWatched
    PacketsAreLines
    OnlyLongLinesOverflow
    OneChildPerStream
PROPERTY
    ImplementsFabric
CHECK_DEADLOCK FALSE
