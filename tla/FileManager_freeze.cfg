SPECIFICATION FairSpec
CONSTANTS
    b1 = b1
    b2 = b2
    Backends <- OneBackend
    CmdCap = 1
    RspCap = 1
    MaxMessages = 4
    Ops <- LoudAndQuiet
    Faults <- NoFaults
\* The program may be closed for good, or wait for ever on a full queue.
CHECK_DEADLOCK FALSE
PROPERTY
    FreezeEnds
