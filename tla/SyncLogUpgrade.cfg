SPECIFICATION FairSpec
CHECK_DEADLOCK FALSE
CONSTANTS
    alice = alice
    bob = bob
    a1 = a1
    b1 = b1
    b2 = b2
    chat = chat
    None = None
    Accounts = {alice, bob}
    Devices = {a1, b1}
    Conversations = {chat}
    Owner <- MCOwner
    Senders = {a1}
    Keys = {k1}
    Readers = {b1}
    GrantRoles = {"member"}
    Restricted = {}
    MayBlock <- BobBlocksAlice
    MemberLists <- BobInvited
    AddLists <- AddNone
    LegacyLog <- LegacyEvents
    LegacyRole <- LegacyMemberships
    PageLimit = 1
    PruneBatch = 3
    SweepBatch = 1
    MaxEvents = 6
    MaxEpoch = 0
INVARIANTS
    NoOrphanedCopy
PROPERTIES
    CaughtUp
