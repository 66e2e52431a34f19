\* The comment's claim against the server.
CONSTANTS
    c1 = c1
    c2 = c2
    c3 = c3
    Clients = {c1, c2}
    Asks <- MCAsksBoth
    MaxClients = 2
    MaxFrames = 3
SPECIFICATION Spec
CHECK_DEADLOCK FALSE
INVARIANT AnswerHasTheCommand
