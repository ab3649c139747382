SPECIFICATION FairSpec
CONSTANTS
    None = None
    a = a
    b = b
    c = c
    x1 = x1
    x2 = x2
    x3 = x3
    Device = {a, b}
    Item = {x1, x2}
    Author <- OneByB
    Dialing <- TwoDialing
    BusCap = 2
    QueueCap = 2
    WireCap = 1
    MaxFaults = 1
    MaxRestarts = 0
PROPERTIES
    WritesEnd
CHECK_DEADLOCK FALSE
