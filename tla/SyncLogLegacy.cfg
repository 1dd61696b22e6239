SPECIFICATION Spec
CHECK_DEADLOCK FALSE
CONSTANTS
    alice = alice
    bob = bob
    a1 = a1
    b1 = b1
    b2 = b2
    chat = chat
    None = None
    Accounts = {alice, bob}
    Devices = {a1, b1}
    Conversations = {chat}
    Owner <- MCOwner
    Senders = {a1}
    Keys = {}
    Readers = {b1}
    GrantRoles = {}
    Restricted = {}
    MayBlock <- NoPairs
    MemberLists <- BobInvited
    AddLists <- AddNone
    LegacyLog <- LegacyEvents
    LegacyRole <- LegacyMemberships
    PageLimit = 2
    PruneBatch = 3
    SweepBatch = 1
    MaxEvents = 4
    MaxEpoch = 0
PROPERTIES
    LegacyNeverPassesAGap
