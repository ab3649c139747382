SPECIFICATION FairSpec
CONSTANTS
    NoText = NoText
    a = a
    b = b
    x = x
    y = y
    z = z
    Device = {a, b}
    Text = {x, y, z}
    Blank = {z}
    Captures = {a, b}
    Applies = {a, b}
    Rank <- Ranks
    Seed <- Seeds
    Window = 1
    MaxHistory = 1
    EventCap = 1
    FeedCap = 1
    MaxActs = 2
    MaxFaults = 1
INVARIANTS
    TypeOK
    NoEcho
PROPERTIES
    MirrorsFollow
CHECK_DEADLOCK FALSE
