SPECIFICATION Spec
CONSTANTS
    Requests = {r1, r2}
    Objs = {o1, o2}
    Socks = {s1, s2, s3}
    MaxReconnectAttempts = 1
    None = None
SYMMETRY Symmetric
INVARIANTS
    TypeOK
    OneConnection
    ConnectedIsOpen
    OneLiveSocket
PROPERTIES
    ClosedForGood
