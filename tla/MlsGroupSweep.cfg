SPECIFICATION FairSpec
CONSTANTS
    alice = alice
    bob = bob
    Accounts = {alice, bob}
    Devices = {1, 2, 3}
    Owner <- OwnerOf
    Founders = {alice, bob}
    Enrolled = {1, 2, 3}
    MaxLog = 1
    MaxChurn = 0
    MaxRevoked = 1
    Rostered = TRUE
    Legacy = FALSE
    MayPrune = TRUE
PROPERTIES
    OldEventsArePruned
CHECK_DEADLOCK FALSE
