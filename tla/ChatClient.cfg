CONSTANTS
    Clients = {c1}
    Names = {n1, n2}
    Nil = Nil
    MessageArraySize = 2
    MaxMessagesPerRequest = 2
    Timeout = 1
    MaxUsers = 2
    MaxLog = 4
    MaxInFlight = 2
    MaxFailures = 1
SPECIFICATION Spec
INVARIANTS
    TypeOK
    HearsAll
    RosterAgrees
    PollsReadTheRing
PROPERTIES
    CatchesUp
    DepartedTimeOut
CHECK_DEADLOCK FALSE
