\* The documentation's claim against the daemon.
CONSTANTS
    c1 = c1
    c2 = c2
    Conns = {c1, c2}
    Record <- MCRecord
    Damaged = Damaged
    SyncEvery = 2
    Policy = "Data"
    Truncates = {TRUE}
    Bad <- MCBad
    BadHeader <- MCBad
    QueueLen = 1
    SocketLen = 4
    MaxSent <- MCMaxSent
    MaxStarts = 2
SPECIFICATION Spec
CHECK_DEADLOCK FALSE
PROPERTY LogSurvivesAStart
