SPECIFICATION FairSpec
CONSTANTS
    Pieces = 3
    Prns = {0, 2}
    MaxRequests = 8
    MaxFaults = 3
INVARIANTS TypeOK MailboxConsistent VerifiedIsHeld VerifiedWithNotifications InStep
PROPERTIES ServesRequests RequestSettles
CHECK_DEADLOCK FALSE
