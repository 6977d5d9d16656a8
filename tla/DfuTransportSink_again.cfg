SPECIFICATION FairSpec
CONSTANTS
    Packages <- MCPackages
    ChunkSizes = {2, 4, 20}
INVARIANTS TypeOK TookAPrefix
PROPERTY SucceedsInTheEnd
CHECK_DEADLOCK FALSE
