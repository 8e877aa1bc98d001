CONSTANTS
    System <- AnySystem
    Socket = 2
    Buffer = 4
    Pipe = 2
SPECIFICATION SystemSpec
INVARIANTS
    NothingIsLost
    BurstsOverflow
    StopsOnlyInCircles
PROPERTY
    LinesSettle
