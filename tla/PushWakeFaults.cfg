SPECIFICATION FairSpec
CONSTANTS
    e1 = e1
    e2 = e2
    d1 = d1
    s1 = s1
    s2 = s2
    d2 = d2
    old = old
    new = new
    BatchLimit = 2
    MinCount = 2
    MaxTracked = 1
    Events = {e1}
    SubIds = {s1, s2}
    Devices = {d1}
    Creds = {old, new}
    MaxChanges = 2
    MaxFaults = 1
    MayExpire = TRUE
INVARIANTS
    NoLostWake
PROPERTIES
    EveryWakeSettles
CHECK_DEADLOCK FALSE
