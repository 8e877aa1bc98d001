CONSTANTS
    Thread = {"a", "b"}
    Origin = {1, 2, 3}
    Target = {8, 9}
    Request <- EdgeRequests
    Beginning <- FewEdges
    Calls = 1
SPECIFICATION ForwardSpec
PROPERTY
    CallsReturn
CHECK_DEADLOCK FALSE
