CONSTANTS
    Byte = 3
    c1 = c1
    c2 = c2
    Client = {c1, c2}
    Key <- MCKey
    Draws <- MCDraws
    Draft <- MCDraft
    Asks <- MCAsks
    MaxAsks <- MCMaxAsks
    MaxPairs = 2
    MaxInFlight <- MCMaxInFlight
    Time <- MCTime
    MaxFaults = 1
SPECIFICATION Spec
INVARIANTS
    TypeOK
    ReferencesResolve
    FoundIsCurrent
    AddedIsFindable
    WalkIsComplete
    StrayOnlyIfRepeated
PROPERTIES
    EveryoneIsAnswered
CHECK_DEADLOCK FALSE
