SPECIFICATION FairSpec
CONSTANTS
    Devices = Devices
    None = None
    RequirePairing = FALSE
    Peer = {p1}
    Dials = {p1}
    Room = {}
    Conn = {c1}
    Dialer = {d1, d2, d3}
    Doc = {x1}
    Configured <- AnyList
    Inbound <- AllKeys
    Calls <- AllCalls
PROPERTIES
    OrphansEnd
    KeepsDialing
