SPECIFICATION Spec
CHECK_DEADLOCK FALSE
VIEW ServerView
CONSTANTS
    h1 = h1  h2 = h2  h3 = h3
    Phones = {1, 2, 3, 4, 5, 6, 7}
    AccountOf <- MCAccountOf
    Members = {"a", "b"}
    InGroup = {1}
    ClaimLimit = 1
    MaxUnclaimed = 2
    MaxPackages = 3
    Codes = {"x", "y"}
    Requests = {1, 2}
    Claims = {1, 2}
    DeviceLimit = 2
    LinkLimit = 3
    MaxLinks = 2
    Clients = {5, 6}
    Invites = {1}
    MaxUses = {0, 1}
    ReservedIds = {5, 6, 7}
    Companions = {"wal", "shm"}
    MaxRestores = 2
    Hosts = {h1, h2, h3}
    Watched = h1
    Limit <- MCLimit
    MaxEntries = 1
    Minute = 2
    MaxCharging = 2
    Owners = {"d"}
    Size = 2
    Transfers = {1, 2}
    LastBackup = 2
    LeaseSteps = 2
    BackupRuns = {1, 2, 3}
    BlobKeys = {1}
    KeepCount = 1
    Beside = {2}
    Users = {1, 2, 3}
    GrantedRoles = {"moderator"}
    MemberLimit = 2
    RoomLimit = 2
    Elsewhere <- MCElsewhere
    MaxRooms = 2
    MaxSettings = 1
INVARIANTS
    WithinDeviceLimit
    RecordedClaimsWithinLimit
    AdmittedOnce
    CredentialRate
    ChannelsWithinCommunity
    RestoredOrOriginal
    PublishedIsWhole
PROPERTIES
    NoSessionResurrected
    ProgressWasSent
    VerifiedKept
