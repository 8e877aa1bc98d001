CONSTANTS
    Null = Null
    Anchor = Anchor
    Wrap = 16
    Copies = 2
    Entry <- OneOrTwo
    Ranges <- CircleOnly
SPECIFICATION IndexSpec
INVARIANT
    LookupsFindHeld
CHECK_DEADLOCK FALSE
