SPECIFICATION FairSpec
CONSTANTS
    ByteSize = 4
    MaxImages = 2
    StrangeImages = {1}
    Indices = {5}
    Refusals <- MCRefusals
    MaxRequests = 3
    MaxFaults = 1
INVARIANTS TypeOK ReaderKept VersionsAreTheTargets ErrorsAreNamed
PROPERTY CallersSettle
CHECK_DEADLOCK FALSE
