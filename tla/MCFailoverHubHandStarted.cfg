CONSTANTS
    N <- MCHosts
    Placements <- MCPlacements
    Self <- MCSelf
    FailAfter <- MCFailAfter
    FailbackAfter <- MCFailbackAfter
    MaxAge <- MCMaxAge
    AutoFailback = TRUE
SPECIFICATION Spec
PROPERTY StopsOnlyEngineStarted
CHECK_DEADLOCK FALSE
