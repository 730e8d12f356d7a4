CONSTANTS
    Bodies = {m}
    Nil = Nil
    BufferSize = 3
    MaxRetries = 6
    Window = 3
    MaxSerial = 6
    MaxLosses = 1
SPECIFICATION LANSpec
INVARIANTS
    NoSpuriousFailure
PROPERTIES
    ImplementsLosslessChannel
    EverythingArrives
