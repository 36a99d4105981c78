SPECIFICATION FairSpec
CONSTANTS
    b1 = b1
    b2 = b2
    Backends <- OneBackend
    CmdCap = 2
    RspCap = 2
    MaxMessages = 2
    Ops <- LoudAndQuiet
    Faults <- NoFaults
\* The program may be closed for good, or wait for ever on a full queue.
CHECK_DEADLOCK FALSE
PROPERTY
    NoOrphans
