CONSTANTS
    N <- MCHosts
    Placements <- MCPlacements
    Writer <- MCWriter
    M <- MCHubs
    FailAfter <- MCWindow
    FailbackAfter <- MCWindow
    MaxAge <- MCWindow
    AutoFailback = TRUE
    MaxDisruptions <- MCMaxDisruptions
SPECIFICATION FairSpec
INVARIANTS
    TypeOK
    HopsBounded
    NoForwardingLoop
PROPERTIES
    RequestEnds
    RoutesToLive
