\* The measuring parts, each on its own.
CONSTANTS
    E8Digits = 2
    BpsScale = 1000
    MaxInt = 9999
    Depth = 2
    Prices = {1, 2, 3, 4}
    Sizes = {0, 3, 120}
    Characters = {0, 1, 7, 10, 11, 12, 13}
    MaxText = 5
    MaxValue = 310
    RatioOver = 3
    RatioUnder = 2
    Buckets = 6
    MaxTracked = 11
    Implausible = 20
    MaxBackfill = 2
    Interval = 2
    Stage1 <- MCStage1
    Ingress = {0, 3, 9}
    Waits = {1, 6, 10}
    MaxRecords = 2
    ElevatedAt = 4
    SaturatedAt = 10
    Lags = {1, 2, 4, 5, 10}
    Uptimes = {0, 7}
    Delays = {0, 2}
    MaxSamples = 4
    Horizons <- MCHorizons
    PendingSlots = 2
    Executions <- MCExecutions
    Mids = {0, 8, 11}
    Ticks = {1, 3}
    MaxCalls = 5
    TickerLines <- MCTickerLines
    SymbolBytes = 2
    Reference <- MCReference
    Suggestions = 2
    Windows = {w1}
    Default <- MCDefault
    Typable <- MCTypable
    TypedLines <- MCTypedLines
    MaxCommands = 3
    MaxTrouble = 1
    Pressed = {"A", "Up", "Down", "Right", "Escape", "Enter", "Tab", "Back"}
    InputLimit = 2
    MaxKeys = 3
    Tickers = {"A", "B", "C"}
    TickRows = 2
    Kept = 2
    Second = 2
    StallAfter = 2
    Late = 1
    MaxLog = 5
    TailLines = 3
    Consumers = 2
    MaxBlocks = 3
    MaxBreaks = 2
    MaxLines = 7
    Fields <- MCFields
    MaxFields = 3
    SymbolLen = 3
    WordSize = 64
    SizeBits = 9
SPECIFICATION Spec
CHECK_DEADLOCK FALSE
INVARIANTS
    
    LadderIsExact
    LatencyIsTruthful
    
    CostsAreTraced
    
    
    TicksAddUp
    
    
