CONSTANTS
    Config <- Spawner
    Source = {1, 2, 3}
    Issued = 2
    Inner <- InnerAddresses
    Script <- LineScript
    Streams = 3
    Capacity = 6
    Mtu = 2
    PipeSize = 2
    MaxData = 2
SPECIFICATION NodeSpec
INVARIANT
    OnlyNewStreamsSpawn
CHECK_DEADLOCK FALSE
