SPECIFICATION FairSpec
CONSTANTS
    Trees <- OneTree
    Start <- Top
    Sessions <- AllSessions
    Names <- AllNames
    NewNames <- SomeNames
    Ops <- AllOps
    MaxClicks = 1
\* The user may stop, with everything done.
CHECK_DEADLOCK FALSE
INVARIANTS
    TypeOK
    DialogKeepsItsFile
    TextNamesList
    AnswersAreRead
    IdleShowsDisk
PROPERTIES
    ListComesBack
