SPECIFICATION Spec
CONSTANTS
    Plain = {"x"}
    Scenarios <- Hurried
    BufferSize = 2
    MaxMessageSize = 64
INVARIANT MessagesAreWhole
CHECK_DEADLOCK FALSE
