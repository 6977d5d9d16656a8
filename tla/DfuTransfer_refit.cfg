SPECIFICATION Spec
CONSTANTS
    a = a
    b = b
    wide = wide
    Images = {a, b}
    Garbled = Garbled
    ChunkSize <- MCChunkSize
    Size <- MCSize
    Packages <- SinglePackages
    MaxFaults = 2
    MaxStarts = 2
INVARIANT RetryFitsItsObject
CHECK_DEADLOCK FALSE
