SPECIFICATION SpecOfAll
CONSTANTS
    Trees <- SomeTrees
    Lines <- AllLines
    Names <- AllNames
    LikeBase <- LikeTest
    Options <- Dashes
    Umask <- Umask027
    OldInodes = 20
    PathMax = 5
    MaxSteps = 12
    MaxLines = 3
    MaxEarlier = 2
    MaxOpen = 1
    LsRoom = 3
\* The user may quit, and the shell may die.
CHECK_DEADLOCK FALSE
INVARIANTS
    TypeOKOfAll
    ResolvesLikeKernel
    BaseCanBeCutOff
PROPERTIES
    ChangesOnlyLikeBase
    ShowsOnlyLikeBase
    ChmodDoesAsAsked
    DoesNotGetOut
