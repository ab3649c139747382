SPECIFICATION Spec
CONSTANTS
    Devices = Devices
    None = None
    RequirePairing = FALSE
    Peer = {p1}
    Dials = {p1}
    Room = {r1}
    Conn = {c1, c2}
    Dialer = {d1, d2, d3}
    Doc = {x1, x2}
    Configured <- AnyList
    Inbound <- AllKeys
    Calls <- AllCalls
SYMMETRY Symmetry
CONSTRAINT Apart
INVARIANTS
    TypeOK
    RegisteredIsAccepted
    RegistryIsLive
    DialerIsLive
    OnlyOwnDialer
    DevicesNeverStranded
    OrphanIsHungUp
    SessionsBalance
PROPERTIES
    ImplementsPeerLinks
