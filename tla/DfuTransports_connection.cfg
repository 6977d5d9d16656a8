SPECIFICATION FairSpec
CONSTANTS
    Kinds = {"serial", "usb", "ble"}
    Updates = 2
    Requests = 2
    MaxTries = 2
    MaxRetries = 1
    MaxOperations = 2
    MaxFaults = 3
INVARIANTS TypeOK OneListener SetUpFirst FoundBeforeUse
PROPERTIES LoserStaysQuiet Settles
CHECK_DEADLOCK FALSE
