SPECIFICATION SpecOfAll
CONSTANTS
    Trees <- OneTree
    Lines <- CatOnly
    Names <- AllNames
    LikeBase <- LikeTest
    Options <- Dashes
    Umask <- Umask027
    OldInodes = 20
    PathMax = 5
    MaxSteps = 12
    MaxLines = 2
    MaxEarlier = 0
    MaxOpen = 1
    LsRoom = 3
\* The user may quit, and the shell may die.
CHECK_DEADLOCK FALSE
PROPERTY
    CatReadsItsPath
