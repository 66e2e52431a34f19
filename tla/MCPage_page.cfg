\* Connections that stream and ask, against the frame loop.
CONSTANTS
    c1 = c1
    c2 = c2
    c3 = c3
    Clients = {c1, c2, c3}
    Asks <- MCAsks
    MaxClients = 2
    MaxFrames = 2
SPECIFICATION LiveSpec
CHECK_DEADLOCK FALSE
INVARIANT
    HandOverIsExact
PROPERTY
    CommandsAreAnswered
