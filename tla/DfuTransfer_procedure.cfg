SPECIFICATION FairSpec
CONSTANTS
    a = a
    b = b
    wide = wide
    Images = {a, b, wide}
    Garbled = Garbled
    ChunkSize <- MCChunkSize
    Size <- MCSize
    Packages <- MCPackages
    MaxFaults = 3
    MaxStarts = 3
INVARIANTS TypeOK CommittedIntact FirmwareUnderItsInitPacket
PROPERTIES ContinuationKeepsProgress Delivers Settles HealthyRunSucceeds
CHECK_DEADLOCK FALSE
