CONSTANTS
    ToolIndexes <- MCToolIndexes
    MaxRecords = 3
    Runs = {run1, run2}
    NoRun = NoRun
    Readers = {reader1, reader2}
    Builds = {build1, build2}
    NoBuild = NoBuild
    MaxWrites = 1
    Requests = {speech1, speech2}
    Procs = {piper1, piper2}
    NoProc = NoProc
    Peers = {peer1, peer2}
    MaxVersion = 2
    Sweep <- MCSweep
    Self = "here"
    CanSsh <- MCPeerOnly
    HasMac <- MCPeerOnly
    MaxFaults = 1
    Callers = {caller1}
    Background = background
    MaxRaises = 1
    Verbs = {verb1, verb2}
    NoVerb = NoVerb
    MaxJobs = 1
    Days = {day1}
    Threads = {thread1, thread2}
    MaxTokens = 2
    Unloaded = Unloaded
    Images = {image1, image2}
    Generations = 2
SPECIFICATION ServicesSpec
INVARIANTS
    ContentUnlessDropped
    ActiveIsTheRun
    GracefulStopIsFinal
    RunningMeansLive
    SeesItsWrites
    OneBuildAtATime
    NoStrayProcess
    AttemptSpentWell
    StopSparesTheJob
    NoSecondVictim
PROPERTIES
    ImplementsMessageStream
    HistoryNeverShrinks
    StopEnds
    EveryRequestIsAnswered
    PeersConverge
    HealsTheFleet
    DialsWhatAnswers
CHECK_DEADLOCK FALSE
