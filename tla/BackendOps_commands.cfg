SPECIFICATION FairSpec
CONSTANTS
    Names <- AllNames
    Cases <- AllCommands
    Mounts <- UsbMount
    PathMax = 5
    Faults <- AllFaults
\* A command ends.
CHECK_DEADLOCK FALSE
INVARIANTS
    TypeOK
    MoveLosesNothing
    CopyLeavesSource
    OthersUntouched
    SuccessMeansDone
    MkdirNumbers
PROPERTIES
    WalkAdvances
    CommandEnds
