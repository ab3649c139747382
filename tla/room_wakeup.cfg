SPECIFICATION Spec
CONSTANTS
    Devices = Devices
    None = None
    RequirePairing = TRUE
    Peer = {p1}
    Dials = {p1}
    Room = {r1}
    Conn = {c1}
    Dialer = {d1, d2, d3}
    Doc = {x1, x2}
    Configured <- EmptyList
    Inbound <- NoKeys
    Calls <- RoomCalls
SYMMETRY Symmetry
INVARIANTS
    RoomsNeverStranded
