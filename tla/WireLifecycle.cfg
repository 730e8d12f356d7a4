CONSTANTS
    a = a
    b = b
    s1 = s1
    Clients = {a}
    ServerWires <- OneServerWire
    Nil = Nil
    BufferSize = 2
    MaxRetries = 1
    MaxCopies = 1
    Scripts <- ClientAndServer
SPECIFICATION Spec
INVARIANTS
    TypeOK
    PeerTookPart
PROPERTIES
    NoLimbo
    TimersRunOut
CHECK_DEADLOCK FALSE
