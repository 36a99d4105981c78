SPECIFICATION Spec
CONSTANTS
    b1 = b1
    b2 = b2
    Backends <- TwoBackends
    CmdCap = 2
    RspCap = 1
    MaxMessages = 4
    Ops <- OnlyMove
    Faults <- EveryFault
\* The program may be closed for good, or wait for ever on a full queue.
CHECK_DEADLOCK FALSE
SYMMETRY Symmetry
INVARIANTS
    TakenInOrder
    NothingVanishes
    OneReplyPerCommand
    FreezeBudget
PROPERTY
    ImplementsLifecycle
