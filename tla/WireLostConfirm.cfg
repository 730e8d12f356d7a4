CONSTANTS
    a = a
    b = b
    s1 = s1
    Clients = {a, b}
    ServerWires <- NoServerWire
    Nil = Nil
    BufferSize = 2
    MaxRetries = 1
    MaxCopies = 0
    Scripts <- TwoMessages
SPECIFICATION Spec
INVARIANTS
    AcknowledgedWasDelivered
CHECK_DEADLOCK FALSE
