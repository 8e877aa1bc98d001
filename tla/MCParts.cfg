CONSTANTS
    Byte = {0, 2, 5}
    Magic = 5
    Version = 2
    Header = 3
    Capacity = 6
    Mtu = 4
    RouterCapacity = 7
    StreamLength = 7
    Inputs <- AllStreams
    RouterInputs <- AllStreams
    Null = Null
    Anchor = Anchor
    Wrap = 16
    Copies = 2
    Entry <- OneOrTwo
    Ranges <- RowAndCircle
    Nothing = Nothing
    Key <- FewKeys
    Pair <- FewPairs
    Sizes = {4, 8}
    Thread = {"a", "b", "c"}
    Origin = {1, 2, 3}
    Target = {8, 9}
    Request <- FewRequests
    Beginning <- FewEdges
    Calls = 1
    RingByte = {0, 1}
    Size = 5
    Word = 16
    Block <- FewBlocks
SPECIFICATION PartsSpec
INVARIANTS
    ReceiveTypeOK
    BufferIsStream
    FullOnlyForLongFrames
    FoundAreFrames
    SoundTree
    SoundHash
    EntriesHaveEdges
    EstimatesAreSafe
PROPERTIES
    ScansTheStream
    
    CleanStreamsAreScanned
    TraverserGoesOn
    ImplementsMap
    HashImplementsMap
    ImplementsQueue
CHECK_DEADLOCK FALSE
