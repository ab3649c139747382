SPECIFICATION FairSpec
CONSTANTS
    None = None
    Waiting = Waiting
    GivingUp = GivingUp
    Small = Small
    Large = Large
    Room = 2
    Other <- Earlier
    Size <- Sizes
    Budget = 1
    Sockets = 2
    MaxFaults = 1
INVARIANTS
    TypeOK
    AnnouncedWasWelcome
PROPERTIES
    ImplementsPeerLinks
    MembersMeet
    RefusedAreGone
