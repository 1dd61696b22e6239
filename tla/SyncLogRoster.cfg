SPECIFICATION Spec
CHECK_DEADLOCK FALSE
CONSTANTS
    alice = alice
    bob = bob
    a1 = a1
    b1 = b1
    b2 = b2
    chat = chat
    None = None
    Accounts = {alice, bob}
    Devices = {a1, b1, b2}
    Conversations = {chat}
    Owner <- MCOwner
    Senders = {a1}
    Keys = {}
    Readers = {b1}
    GrantRoles = {"member"}
    Restricted = {}
    MayBlock <- NoPairs
    MemberLists <- BobInvited
    AddLists <- AddBobs
    LegacyLog <- Empty
    LegacyRole <- NoMemberships
    PageLimit = 2
    PruneBatch = 8
    SweepBatch = 1
    MaxEvents = 8
    MaxEpoch = 3
INVARIANTS
    WelcomeFirst
PROPERTIES
    NoSilentGap
    ExpiryIsEarned
