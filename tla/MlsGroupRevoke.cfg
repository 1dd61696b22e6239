SPECIFICATION FairSpec
CONSTANTS
    alice = alice
    bob = bob
    Accounts = {alice, bob}
    Devices = {1, 2, 3}
    Owner <- OwnerOf
    Founders = {alice, bob}
    Enrolled = {1, 2, 3}
    MaxLog = 2
    MaxChurn = 1
    MaxRevoked = 2
    Rostered = TRUE
    Legacy = FALSE
    MayPrune = FALSE
INVARIANTS
    RevocationsMatchLeaves
    CompletedMeansRemoved
PROPERTIES
    RevocationEnds
CHECK_DEADLOCK FALSE
