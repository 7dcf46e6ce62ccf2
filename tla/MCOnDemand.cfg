CONSTANTS
    Requests = {r1, r2}
    HandedOff = {r1}
    Pids = {p1, p2}
    NoPid = NoPid
    NoRequest = NoRequest
    Window <- MCWindow
    Deadline <- MCDeadline
    MaxDisruptions <- MCMaxDisruptions
SPECIFICATION FairSpec
INVARIANTS
    TypeOK
    OneProcess
PROPERTIES
    UnloadSparesLoad
    RequestEnds
    IdleUnloads
