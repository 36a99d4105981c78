SPECIFICATION FairSpec
CONSTANTS
    b1 = b1
    b2 = b2
    Backends <- TwoBackends
    CmdCap = 2
    RspCap = 1
    MaxMessages = 5
    Ops <- OnlyChmod
    Faults <- NoFaults
\* The program may be closed for good, or wait for ever on a full queue.
CHECK_DEADLOCK FALSE
INVARIANTS
    TypeOK
    RepliesAreOurs
    AnswersInOrder
PROPERTIES
    EveryCommandTaken
    EveryAnswerShown
    EveryAnswerSent
    ClosingEnds
