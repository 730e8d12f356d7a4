SPECIFICATION Spec
CONSTANTS
    Clients = {a}
    Nil = Nil
    BeatTicks = {1, 2}
    FirstTicks = {1}
    MaxBeat = 2
    MaxTime = 3
    MaxEvents = 2
INVARIANT AppliedOnTime
CHECK_DEADLOCK FALSE
