SPECIFICATION Spec
CONSTANTS
    e1 = e1
    e2 = e2
    d1 = d1
    s1 = s1
    s2 = s2
    d2 = d2
    old = old
    new = new
    BatchLimit = 2
    MinCount = 2
    MaxTracked = 1
    Events = {e1, e2}
    SubIds = {s1, s2}
    Devices = {d1, d2}
    Creds = {old, new}
    MaxChanges = 2
    MaxFaults = 0
    MayExpire = FALSE
INVARIANTS
    RetiredMeansRefused
    NoRepeatWithoutFault
CHECK_DEADLOCK FALSE
SYMMETRY Alike
