SPECIFICATION Spec
CONSTANTS
    Clients = {a, b}
    Nil = Nil
    BeatTicks = {1, 2}
    FirstTicks = {1}
    MaxBeat = 2
    MaxTime = 3
    MaxEvents = 2
SYMMETRY Symmetry
INVARIANTS TypeOK NoChangeForgotten AgreeWithoutClash
CHECK_DEADLOCK FALSE
PROPERTY NeverBack
