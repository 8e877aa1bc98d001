CONSTANTS
    Config <- Failing
    Source = {1, 2, 3}
    Issued = 2
    Inner <- InnerAddresses
    Script <- LineScript
    Streams = 3
    Capacity = 6
    Mtu = 2
    PipeSize = 2
    MaxData = 1
SPECIFICATION NodeSpec
INVARIANT
    AssertionsStop
CHECK_DEADLOCK FALSE
