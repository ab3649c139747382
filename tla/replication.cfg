SPECIFICATION ConnectedSpec
CONSTANTS
    None = None
    a = a
    b = b
    c = c
    x1 = x1
    x2 = x2
    x3 = x3
    Device = {a, b}
    Item = {x1, x2, x3}
    Author <- AllByA
    Dialing <- TwoDialing
    BusCap = 1
    QueueCap = 2
    WireCap = 4
    MaxFaults = 1
    MaxRestarts = 1
CONSTRAINT RestartsAreSmall
INVARIANTS
    TypeOK
    NothingMissed
PROPERTIES
    Converges
CHECK_DEADLOCK FALSE
