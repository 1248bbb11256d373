\* Polls, prints, drops and cancellations in any order, and disconnect() beside them.
CONSTANTS
    u1 = u1
    u2 = u2
    p1 = p1
    Polls <- MCPolls
    Prints <- MCPrints
    Nobody = Nobody
SPECIFICATION FairSpec
INVARIANTS TypeOK LinkKnown FreeWhenIdle ConnectionShown ErrorsCounted PrintingShown ReadingsShown OrphansAreLate
PROPERTIES OpsInTurn OpsEnd
\* Every operation has been asked for and is done.
CHECK_DEADLOCK FALSE
