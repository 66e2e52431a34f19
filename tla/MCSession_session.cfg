\* The parts around the ring, each on its own.
CONSTANTS
    Parts = {"window", "compose", "adapter", "control"}
    Files <- MCFiles
    NoFile = NoFile
    Capacity = 2
    BatchLen = 1
    RebuildsBook = TRUE
    MaxRuns = 3
    MaxPublished = 4
    TickerLines <- MCTickerLines
    SymbolBytes = 2
    Reference <- MCReference
    Suggestions = 2
    Sizes <- MCSizes
    NewSizes <- MCNewSizes
    Snapshots <- MCSnapshots
    MaxDraws = 2
    MaxResizes = 2
    WatchFiles <- MCWatchFiles
    Fits = {"A", "B", "Z"}
    Configured = "A"
    Traded = {"A", "B"}
    MaxDelay = 2
    RecvTimeout = 2
    StaleAfter = 1
    MaxEdits = 1
    Pictures = 3
    MaxLosses = 2
    Ctls = {x, y}
    Pids = {1, 2, 3}
    MaxControls = 2
    MaxFaults = 1
SPECIFICATION SessionSpec
CHECK_DEADLOCK FALSE
INVARIANTS
    
    
    
    LevelsFollowTheirReset
    ProcessesAreAccounted
PROPERTIES
    WindowReattaches
    WatchIsAdopted
