\* disconnect() while operations are queued or running.
CONSTANTS
    u1 = u1
    u2 = u2
    p1 = p1
    Polls <- MCPolls
    Prints <- MCPrints
    Nobody = Nobody
SPECIFICATION Spec
INVARIANT DisconnectFinal
\* Every operation has been asked for and is done.
CHECK_DEADLOCK FALSE
