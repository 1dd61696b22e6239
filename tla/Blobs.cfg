SPECIFICATION FairSpec
CONSTANTS
    u1 = u1  h1 = h1
    Direct = {u1}
    Histories = {h1}
    Undeletable = {u1}
    AccountBlobs = 1
    Batch = 1
    MaxAttempts = 1
    MaxFaults = 1
    MaxCrashes = 1
INVARIANTS RecordedIsStored NoForgottenFile WithinQuota
PROPERTIES LeftoversGo
CHECK_DEADLOCK FALSE
