SPECIFICATION Spec
CONSTANTS
    Devices = Devices
    None = None
    RequirePairing = FALSE
    Peer = {p1}
    Dials = {}
    Room = {r1}
    Conn = {c1, c2}
    Dialer = {d1, d2, d3}
    Doc = {x1, x2, x3}
    Configured <- AnyList
    Inbound <- RoomKeys
    Calls <- JustRooms
SYMMETRY Symmetry
INVARIANTS
    DocIsCurrent
