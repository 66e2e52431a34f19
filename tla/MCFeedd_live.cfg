\* The daemon under fairness.
CONSTANTS
    c1 = c1
    c2 = c2
    Conns = {c1, c2}
    Record <- MCRecord
    Damaged = Damaged
    SyncEvery = 1
    Policy = "Data"
    Truncates = {TRUE}
    Bad <- MCBadLive
    BadHeader <- MCBadLive
    QueueLen = 1
    SocketLen = 4
    MaxSent <- MCMaxSentLive
    MaxStarts = 1
SPECIFICATION LiveSpec
CHECK_DEADLOCK FALSE
PROPERTIES
    
    SignalStops
