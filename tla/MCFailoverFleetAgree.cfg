CONSTANTS
    N <- MCHosts
    Placements <- MCPlacements
    Writer <- MCWriter
    M <- MCHubs
    FailAfter <- MCWindow
    FailbackAfter <- MCWindow
    MaxAge <- MCWindow
    AutoFailback = TRUE
    MaxDisruptions <- MCMaxDisruptions
SPECIFICATION Spec
INVARIANT LiveCandidatesAgree
