SPECIFICATION FairSpec
CONSTANTS
    a = a
    b = b
    wide = wide
    Images = {a, b}
    Garbled = Garbled
    ChunkSize <- MCChunkSize
    Size <- MCSize
    Packages <- SinglePackages
    MaxFaults = 0
    MaxStarts = 2
PROPERTY ContinuationSucceeds
CHECK_DEADLOCK FALSE
