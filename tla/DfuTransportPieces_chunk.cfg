SPECIFICATION FairSpec
CONSTANTS
    Payloads <- MCPayloads
    WireMtus = {0, 11, 12, 16, 21, 64}
    MaxMtus = {3, 8, 50}
    Prns = {0, 1, 2}
    MaxFaults = 1
    Checksum <- MCChecksum
    None <- MCNone
    Zero <- MCZero
INVARIANTS TypeOK FitsTheWire WordsAreWhole ArrivedIsVerified VerifiedIsReceived ChecksumIsCrc32
PROPERTY ChunkEnds
CHECK_DEADLOCK FALSE
