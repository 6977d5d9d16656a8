SPECIFICATION Spec
CONSTANTS
    Kinds = {"serial", "usb", "ble"}
    Updates = 2
    Requests = 2
    MaxTries = 2
    MaxRetries = 1
    MaxOperations = 2
    MaxFaults = 0
INVARIANT SetUpAlways
CHECK_DEADLOCK FALSE
