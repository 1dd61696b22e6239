SPECIFICATION Spec
CONSTANTS
    alice = alice
    bob = bob
    Accounts = {alice, bob}
    Devices = {1, 2, 3}
    Owner <- OwnerOf
    Founders = {alice}
    Enrolled = {1, 3}
    MaxLog = 2
    MaxChurn = 2
    MaxRevoked = 1
    Rostered = TRUE
    Legacy = TRUE
    MayPrune = TRUE
INVARIANTS
    WindowsMatchCommits
    PendingChangesAreAccepted
PROPERTIES
    KeepsOrder
CHECK_DEADLOCK FALSE
