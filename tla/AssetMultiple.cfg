CONSTANTS
    Byte = 3
    File <- MCFile
    Size <- MCSize
    ChunkSize = 2
    MaxSize = 3
    c1 = c1
    c2 = c2
    Confab = {c1, c2}
    Asks <- MCAsks
    MaxFaults = 0
SPECIFICATION Spec
PROPERTIES
    AddedAssetsLoad
