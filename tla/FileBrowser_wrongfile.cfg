SPECIFICATION Spec
CONSTANTS
    Trees <- OneTree
    Start <- Top
    Sessions <- Whole
    Names <- AllNames
    NewNames <- SomeNames
    Ops <- AllOps
    MaxClicks = 1
\* The user may stop, with everything done.
CHECK_DEADLOCK FALSE
INVARIANTS
    RequestsNameSelected
