SPECIFICATION Spec
CONSTANTS
    Names <- AllNames
    Cases <- Inside
    Mounts <- UsbMount
    PathMax = 5
    Faults <- NoFaults
\* A command ends.
CHECK_DEADLOCK FALSE
INVARIANTS
    MoveLosesNothing
