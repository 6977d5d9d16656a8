SPECIFICATION Spec
CONSTANTS
    Plain = {"x"}
    Scenarios <- MCScenarios
    BufferSize = 1
    MaxMessageSize = 32
INVARIANTS TypeOK Transparent Resynchronises
CHECK_DEADLOCK FALSE
