SPECIFICATION Spec
CHECK_DEADLOCK FALSE
CONSTANTS
    Sockets = {1, 2}
    HubDevices = {1, 2}
    Addresses = {1}
    MaxTotal = 2
    MaxPerAccount = 2
    MaxPerDevice = 1
    MaxPerIP = 2
    InPrefix = {1}
    MaxPerPrefix = 2
    Buffer = 1
    MaxLogins = 2
    PingPeriod = 6
    PongWait = 12
    WriteWait = 2
    RoundTrip = 1
    MaxPongs = 1
    MaxMessage = 1
    Readers = {"r"}
    LastMessage = 2
    Writers = {1, 2}
    MaxRetries = 1
    MaxRefusals = 2
    p1 = p1  p2 = p2
    Peers = {p1, p2}
    MaxCalls = 2
    MaxSent = 3
    HttpRequests = {1, 2}
    Upgrades = {3}
    MaxStarted = 1
INVARIANTS
    NoStaleSocket
    AnsweringPeerKept
    ActionAppliedOnce
    ClosedWhenIdle
PROPERTIES
    SilentPeerDropped
    DeliveryRecorded
