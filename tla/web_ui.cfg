SPECIFICATION AskedSpec
CONSTANTS
    p = p
    i = i
    old = old
    new = new
    Device = {p}
    Fullname = {old, new}
    Owner <- Owners
    Info = {i, j}
    Hello = Hello
    Nothing = Nothing
    RequirePairing = FALSE
    EventCap = 2
    NoticeCap = 2
    NotifyCap = 1
    BusCap = 1
    DocCap = 1
INVARIANTS
    TypeOK
    DiscoveryFollowed
    ConnectedIsShown
    PageTypeOK
    PageIsCurrent
