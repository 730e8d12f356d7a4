CONSTANTS
    a = a
    b = b
    s1 = s1
    Clients = {a}
    ServerWires <- OneServerWire
    Nil = Nil
    BufferSize = 2
    MaxRetries = 1
    MaxCopies = 0
    Scripts <- OneKnock
SPECIFICATION Spec
PROPERTY FailureIsTerminal
CHECK_DEADLOCK FALSE
