CONSTANTS
    Requests = {r1, r2}
    HandedOff = {}
    Pids = {p1, p2}
    NoPid = NoPid
    NoRequest = NoRequest
    Window <- MCWindow
    Deadline <- MCDeadline
    MaxDisruptions <- MCMaxDisruptions
SPECIFICATION FairSpec
PROPERTY
    IdleStops
