SPECIFICATION Spec
CONSTANTS
    n1 = n1
    n2 = n2
    p1 = p1
    p2 = p2
    Network <- MCNetwork
    Pid <- MCPid
    NoPid = NoPid
    PidsRecur = TRUE
INVARIANTS TypeOK NoStrayRunner ServingHasSocket
PROPERTIES RecordDroppedWhenStopped DeleteCompletes RecordsKeepContract
