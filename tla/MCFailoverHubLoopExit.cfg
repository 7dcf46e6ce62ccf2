CONSTANTS
    N <- MCHosts
    Placements <- MCPlacements
    Self <- MCSelf
    FailAfter <- MCFailAfter
    FailbackAfter <- MCFailbackAfter
    MaxAge <- MCMaxAge
    AutoFailback = TRUE
SPECIFICATION FairSpec
PROPERTY ConvergesWithoutRestart
CHECK_DEADLOCK FALSE
