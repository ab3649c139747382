SPECIFICATION MeshSpec
CONSTANTS
    None = None
    a = a
    b = b
    c = c
    x1 = x1
    x2 = x2
    x3 = x3
    Device = {a, b, c}
    Item = {x1, x2}
    Author <- OneByB
    Dialing <- MeshDialing
    BusCap = 2
    QueueCap = 3
    WireCap = 4
    MaxFaults = 1
    MaxRestarts = 1
CONSTRAINT CircleOrLine
INVARIANTS
    OnlyGuestsMissed
    StillIsEqual
PROPERTIES
    Converges
CHECK_DEADLOCK FALSE
