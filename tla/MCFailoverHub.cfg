CONSTANTS
    N <- MCHosts
    Placements <- MCPlacements
    Self <- MCSelf
    FailAfter <- MCFailAfter
    FailbackAfter <- MCFailbackAfter
    MaxAge <- MCMaxAge
    AutoFailback = TRUE
SPECIFICATION FairSpec
INVARIANTS
    TypeOK
    NeverBelowSelf
    MarkMeansOwner
CHECK_DEADLOCK FALSE
PROPERTIES
    NoFlap
    SparesForeign
    Converges
