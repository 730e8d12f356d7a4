SPECIFICATION Spec
CONSTANTS
    Clients = {a, b}
    Nil = Nil
    BeatTicks = {1, 2}
    FirstTicks = {1}
    MaxBeat = 2
    MaxTime = 3
    MaxEvents = 2
SYMMETRY Symmetry
INVARIANTS AgreeAtLast
CHECK_DEADLOCK FALSE
