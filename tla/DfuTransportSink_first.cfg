SPECIFICATION Spec
CONSTANTS
    Packages <- MCSmallest
    ChunkSizes = {2}
INVARIANT FirstAttemptSucceeds
CHECK_DEADLOCK FALSE
