SPECIFICATION PickedSpec
CONSTANTS
    Runs = {1, 2, 3}
    MaxObjects = 8
    Killable = TRUE
    Clients = {c1, c2}
    Listeners = {l1, l2}
    Receivers = {r1, r2}
    MailCap = 1
    MaxSent = 3
    MayBeLate = TRUE
    Visitors = {v1, v2, v3, v4}
    Backlog = 1
    MaxServers = 2
\* Programs end; NobodyWaitsInVain is the absence of deadlock among those of IPC/.
CHECK_DEADLOCK FALSE
INVARIANTS
    TypesOK
    SaysWhatWasWritten
    CleanedUp
    NobodyWaitsInVain
    TalkIsAnswered
    MailIsKept
    VisitorsAreGreeted
