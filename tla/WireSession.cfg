CONSTANTS
    Bodies = {m1, m2}
    Nil = Nil
    BufferSize = 2
    MaxRetries = 1
    Window = 2
    MaxSerial = 3
SPECIFICATION Spec
INVARIANTS
    IInv
    DeliveredInOrder
    AckedWasDelivered
    UnackedIsRetried
PROPERTIES
    ImplementsReliableChannel
    EveryMessageResolved
